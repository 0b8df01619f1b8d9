# AIRE Server in TLA+

A verification development beside the AIRE server (`app/`): TLA+ modules of the
parts of the server that keep state, TLC configurations that check them on small
instances, and proofs, checked by TLAPS, of what matters most for every value of
the constants. `PROJECT.json` lists runs, mutants, hazards, theorems, findings
and, for each definition, the source lines it stands for.

- [1 The system](#1-the-system)
- [2 How the code is modelled](#2-how-the-code-is-modelled)
- [3 The modules](#3-the-modules)
- [4 The runs and their bounds](#4-the-runs-and-their-bounds)
- [5 What is proved](#5-what-is-proved)
- [6 Where code and documents disagree](#6-where-code-and-documents-disagree)
- [7 What is not modelled](#7-what-is-not-modelled)
- [8 Plan](#8-plan)

## 1 The system

One asyncio process (FastAPI) over one SQL database, SQLite in the deployment
and in the tests. Clients are a game, paired phones in a browser, and a Kakao
bot. The process answers HTTP and WebSocket requests and runs two loops beside
them, started in `app/main.py:35-60`: the memory worker and the retention loop.
An operator may run a recovery script as a second process. A request can end at
any `await`: the middleware cancels it at its timeout or when the client
disconnects (`app/middleware.py:113-131`).

| Component | State it keeps | Operations | What makes it correct |
|---|---|---|---|
| Offline tasks (`offline_task_service.py`) | `offline_tasks` | create (reserves crafting material), start, complete, collect, claim, delete (refunds) | one outcome per task; a row and the material it reserved stand or fall together |
| Game state (`game_state_service.py`) | `game_state_snapshots`, `game_state_operations` | PUT with replay, stale and base-version conflicts; GET; written by tasks too | versions grow; material is conserved; no upload replaces a change the game has not seen |
| Devices and pairing (`pairing_service.py`) | `devices`, `pairing_codes` | register, issue, pair, revoke, open gate | the cap; one device for a code and for a request; no code is burned |
| Chat operations (`service.py`, `canonical_repository.py`) | `chat_operations`, `messages`, an asyncio lock for each request | receive, think, save draft, complete, replay | one reply per request; nothing of an undelivered reply becomes history; a promised task exists |
| Source outbox (`source_repository.py`) | `source_outbox`, `source_cursors`, `source_retention_references` | promote, release, claim, acknowledge, repair, tombstone, recover | the cursor never passes open work; no content is erased while it is needed |
| Memory worker and acceptance (`memory_worker.py`, `memory_candidate_service.py`) | `memories`, `memory_sources` | classify, accept, hold for review, acknowledge | what was worth remembering is stored; every source is settled |
| Memory review (`memory_candidate_review_service.py`) | `memory_candidates` | approve, reject, expire | a decision stands |
| Memory management (`memory_service.py`) | the same | delete, reset, correct, pin | what a user deletes does not come back |
| Retention sweep (`retention.py`) | all of these | expire reviews, archive memories without source, purge content, purge audits | due content is erased; content in use is not |
| Events and command results (`event_service.py`) | `game_events`, `command_candidates`, `command_results` | accept an event once, accept results | an id has one answer; a command's life goes Accepted, Running, terminal, and ends once |
| Relationship (`relationship_service.py`) | evidence and one state for each companion | observe event, refresh on acceptance and deletion | the state is what its evidence says |
| Working memory (`brain/store.py`, `brain/companion.py`) | conversations with their open questions, and their locks, in the process | load, save, expire, evict; lock and unlock | one turn at a time; a question is answered in its own conversation; the conversation used longest ago is dropped |
| Companion graph (`brain/graph.py`) | nothing but the working memory | one turn | an order says what the player said; a limited number of questions |
| Transcript (`brain/transcript.py`) | a file for each conversation; a cache of line numbers | append, read behind a cursor, sweep old files | line numbers climb, whatever cache, crash or sweep did |
| Distillation (`brain/companion.py`) | a queue of conversations with cursors, in the process | enqueue, extract, summarise, consolidate, drain at shutdown | the cursor passes over no stretch of a conversation |
| Long-term memory (`brain/memory.py`) | a file for each player; a cache | recall, remember, replace all | an update is atomic; a consolidation deletes nothing |
| What a reply says (`brain/dialogue.py`, `brain/llm.py`, `service.py`) | use counts of memories | gather evidence, ask the model, check and replace its answer, count uses | a recall with evidence is not answered as if there were none; a use is counted once |
| Provenance (`brain/llm.py`, `_build_provenance` of `brain/companion.py`) | a trace of calls for each turn | record a call or a fallback, log a turn | the log tells who made the words |
| Legacy memory files (`retention.py`) | files in two directories; `legacy_import_reports` | scan, quarantine, delete | no file the run has looked at disappears unverified |
| WebSocket, Kakao, admin, game data | sockets; reference rows | framing; lookups; edits | |

How they touch one another:

- A chat reply may promise an offline task, which is created in the transaction
  that stores the reply; a crafting task changes the game's snapshot.
- A completed chat operation queues its two messages in the outbox, stored
  events join it, and the worker leases one row at a time from beyond the cursor.
- Acceptance *promotes* a source (it is kept as long as a memory or an open
  review refers to it); deletion, rejection and the sweeps *release* it; the
  purge erases sources that nothing refers to and leaves a tombstone, which
  moves the cursor like a completion.
- Memories, events and deletions feed the relationship.
- A chat operation runs one turn of the graph on its conversation's working
  memory, and publishes what the turn remembers only after the reply is stored.
- What a turn says rests on memories (accepted by the worker) and on earlier
  messages; when it is published the memories it used are counted, its exchange
  is appended to the transcript and the conversation waits to be distilled.
- The retention loop erases the contents of events, deletes audit rows and moves legacy
  files while requests and the worker go on.

What is hard here, in this order: read-then-write handlers that interleave at
every `await`; a language model call between a claim and its acknowledgement;
objects read before the write lock and written after it; retries of requests
whose first copy is still running or died half-way; cursor arithmetic under
completions out of order and rewinds; reference counts held by several owners;
limits (device cap, container room, sequence numbers). `PROJECT.json`, under
`hazards`, lists each at its line with the property that would catch it.

## 2 How the code is modelled

**Sessions.** SQLAlchemy's driver opens a SQLite transaction at the first DML
statement, not at the first SELECT, and SQLite has one writer. So a handler's
SELECTs before its first write see, one by one, the latest committed rows, and
everything from its first write (an autoflush included) to COMMIT is one step.
A handler is therefore a *read* action (`Begin...`), which records what was read
in the process's `job`, and a *write* action. What the code reads again after
its first write, the write action reads from the current state; what it keeps
from before, it takes from `job`. ORM objects go stale while the session refers to
them, and an UPDATE writes, by primary key, only the columns whose value
changed; where this matters (`OnFact`'s `kept`, `Persist`, `Requeue`, `Reserve`)
the models keep it. `with_for_update()` adds nothing to a SQLite statement;
in `OfflineTasks` the variable `database` says, for a whole behaviour, whether the
services run on SQLite or on a database that honours it (`ForUpdateLocks`).

**Failures.** `Abort`, `Abandon` and `Fail` end a handler between any two of its
steps: an exception, a timeout, a disconnect or a crash, with the rollback of its
transaction. A crash of the process is a failure of each handler; where it loses
what the process keeps in memory it is an action of its own (`Restart`).

**Files** are read and written in threads (`asyncio.to_thread`): each is a step of its
own, and a thread that has begun goes on when its request is cancelled. A crash leaves
of an append any prefix; a file that is replaced (`os.replace`) is the old or the new
one.

**Time.** An expiry is an action that makes a deadline pass, at any moment
(`TtlPasses`, `LeaseExpires`, `ReviewLapses`, `Tick`); `Pairing`, whose boundary
second matters, has a clock.

**Model calls** are a nondeterministic answer, or a failure. Texts, payloads and
digests are members of small sets; a player's text is the record of the facts that
the code's patterns find in it. Tokens are the identity of their device.

**History variables** (`held`, `created`, `cancelled`, `completed`, `wanted`,
`answers`, `calls`, `made`, `overlooked`, `appends`, `spoiled`, `shown`, `owed`, `missed`,
`ended`, `raced`, `verified`, `slipped`, `lost`, and the fields `request` and `by` of a
question) record what happened for the properties. No guard of the code's actions
reads one, except the named bounds and `Propose`, whose command ids are new.

## 3 The modules

| Module | Models | Its `MC...` module and configurations |
|---|---|---|
| `TaskLedger` | what tasks and uploads promise about the inventory: the abstract specification of the next | |
| `OfflineTasks` | offline tasks and the game state of one save slot; with row locks implements `TaskLedger` | `MCOfflineTasks`: `TaskDatabases`, `OfflineTasksDoubleSpend` |
| `DeviceRegistry` | what pairing promises: the abstract specification of the next | |
| `Pairing` | registration, codes, pairing, revocation, open gate; implements `DeviceRegistry` | `MCPairing`: `Pairing` |
| `MemoryPipeline` | outbox, cursor, worker, acceptance, review, deletion, retention, recovery of one scope | `MCMemoryPipeline`: `MemoryPipeline`, `...Slow`, `...Decision` |
| `Sublists` | the elements of a sequence at some of its places; used by the modules that drop rows, lines or entries | |
| `OneReply` | what a request id promises: the abstract specification of the next | |
| `ChatOperation` | the chat operations of one conversation; implements `OneReply` | `MCChatOperation`: `ChatOperation`, `ChatOperationRetry` |
| `Relationship` | evidence and state of one player and companion, with every caller that evaluates it | with `Conversation`, in `MCConversation` |
| `CompanionGraph` | one turn of the graph, as the set of its results | |
| `Conversation` | working memory, conversation locks, and the turns that use them; extends `CompanionGraph` | `MCConversation`: `Conversation` |
| `Transcript` | the transcript files: append, number cache, sweep, crash | |
| `Distillation` | the queue of conversations and the loop that empties it; extends `Transcript` | |
| `LongTermMemory` | the rules of long-term memories, as operators | |
| `DistilledMemory` | what a long-term store promises: the abstract specification of the next | |
| `MemoryFile` | the long-term store of one player and its callers; extends `LongTermMemory`, implements `DistilledMemory` | |
| `Reply` | what replies of one conversation say, and the memories they use | |
| `Provenance` | the calls of a turn and the log of its origin | |
| `CompanionBrain` | the brain: `Distillation`, `MemoryFile`, `Reply`, `Provenance` together | `MCCompanionBrain`: `CompanionBrain` |
| `Commands` | events and command results | |
| `Quarantine` | legacy memory files | |
| `Records` | both with the retention sweep over them | `MCRecords`: `Records`, `RecordsConcurrent` |
| `OfflineTasks_`, `Pairing_`, `MemoryPipeline_`, `ChatOperation_`, `Relationship_`, `Conversation_`, `Records_`, `CompanionBrain_proofs` | theorems about the eight | |

An operator named as a *Mutant* is a plausible bug in the definition that
follows it. No specification uses it: a property is known to depend on the
definition because TLC refutes it with the mutant in its place.

**OfflineTasks.** `snap` is the slot's snapshot row reduced to its version, the
operation that wrote it and the crafting material of the two containers;
`task[r]` is the row that creation request `r` made. A crafting request reads
the snapshot (`LockGameState` in `Reserve`), computes the new inventory and,
in `InsertTask`, inserts the row and writes that inventory back *whole*, with
the version that was read plus one. Cancelling is `BeginDelete`, `Refund` (whether
it fits, `Fits`), `DeleteTask` (which repeats the status in its WHERE,
`StillIn`). `Finalize` is complete and collect: a conditional update.
`BeginPut`, `ReadLatest`, `Persist`, `PersistRace` are the PUT with its
conflicts, its compare-and-set, and the retry when it lost. `client` stands for
the game: it spends and gains material, numbers its uploads and sends the
version it last fetched as base. `gains` travels with every inventory and says
what the player has contributed to it, so that conservation is `mako + storage +
held = gains`. In `TaskLedger` every step takes effect at once: a task takes
(`InsertTask`) and gives back (`DeleteTask`) exactly its material or uses it up
(`Finalize`), an upload (`Persist`) has counted in all that is taken, and replaces no
change by a task that the game has not fetched. SQLite keeps no such promise: there the
mapping shows a ledger that rests.

**Pairing.** `device` and `code` are the two tables. `BeginX` reads and `X`
writes. The first write of `Register` and `Pair` is the no-op UPDATE of
`lock_profile`, so the count that enforces the cap belongs to the write step.
`DeviceRegistry` has the write steps only: `Register` founds a profile, `Issue` offers a
code, one for each request, `Pair` uses it to admit a device where there is room at that
moment, `Revoke` expels one for good. The open gate's two devices are not in it.

**MemoryPipeline.** `source`, `outbox`, `cursor`, `memory`, `links`, `refs` and
`review` are seven tables of one scope; `job[p]` is what the worker, a user's
request, the retention loop or the script is doing. A memory row is named by its
unique key `<<type, text>>`, so that two sources of one text meet in it.
`ClaimNext`, the verdict (`Drop`, `Remember`), `Accept`, `PersistAccepted` or
`Hold` and `Suspend`, `Acknowledge` and `Complete` are the steps of `drain_once`.
`BeginApprove`, `Approve`, `BeginReject` and `Reject` are decisions; `BeginForget`
and `Forget` deletion and reset; `BeginSweep`, `ExpireReviews`,
`ArchiveWithoutSource`, `BeginPurge` and `Purge` one sweep; `BeginRecover` and
`Requeue` the script. `Advance`, `Release`, `Persist`, `Archive` and `Tombstone` are
the repository's helpers as state functions.

**ChatOperation.** `operation`, `message` and `outbox` are rows; `lock` is
`_chat_lock`. `Receive`, `Acquire`, `BeginNew`, `Insert` store the player's
message; `Duplicate`, `Replay`, `Resume` treat a known request; `Think` is the
brain; `Save` stores the draft together with its task; `Complete` delivers.
`Purge` and `DeleteTask` are what the rest of the server does to these rows.
`Payload` and `answers` are the refinement mapping to `OneReply`, a service that accepts the
first payload of a request id and answers it with one reply, however often it is sent.

**Relationship.** `memory`, `links`, `content` and `event` are the rows that
evidence rests on; `evidence` and `relation` are the service's own. `CreateEvent`
is a transaction from its first statement, so it is one step. `BeginAccept` loads
the active memories before the write lock and `Accept` writes: the session keeps
seeing the loaded ones as they were, which `Accept` tells apart (`active`, the
objects, and `found`, what queries find). `ObserveAll` goes through the
stored events in the order they occurred. `Forget`, `ArchiveWithoutSource` and
`Purge` take the ground from evidence, and evaluate the state again (`Refresh`).
`Derive` is the rule: two kinds of events for one memory, at least a cooldown
apart and within one window, make the relationship High.

**CompanionGraph.** `Turn(t, slot)` is what the routing graph can return for a text,
given the question that was open when it began. The provider may classify the text as it
likes; `Resolutions`, `GatherResources` and `Named` keep what the code keeps of that,
after comparing it with the facts about the text. `Ask` and `MayAskAgain` are the life
of a question.

**Conversation.** `entries` is the dict of the store in its insertion order, which
is the order of eviction. `lock` and `users` are `_locks` and `_lock_users`; a lock
object is named after the request that made it, since two objects for one
conversation at different times are not the same lock. `turn[r]` is the handler
of a request, with the step at which it waits: *queued* for the lock in
`prepare_response`, *thinking* (it holds the lock and waits for the model),
*prepared*, *drafted*, and *publishing* (queued for the lock in
`commit_response`); *received* and *draft* are what the database keeps of a request
whose handler ended. `Begin` loads, `Prepare` runs the graph and leaves the lock,
`Save` and `Complete` are the two database transactions between, and `Publish` stores
the question that the turn leaves open. `BeginReact` and `React` are a situation,
which remembers under a key of its own. `Fail` and `Restart` end one handler or all.

**Transcript.** `file[c]` is the line numbers of a conversation's file and `end[c]` the
state of its last line: whole, torn, cut within a character, or complete but for its
newline. An append waits for the lock of its conversation (`AcquireLock`), takes the last
number from `cache` or, in a thread, from the file (`ReadNumber`, which a file that cannot
be decoded fails), writes two lines (`Write`) and comes back to cache the number
(`FinishAppend`). `CancelAppend` gives the lock back while the thread
may still write (`OrphanWrite`). `SweepStat` and `SweepUnlink` are the two halves of the
deletion of old files, which takes no lock. `Written` and `Cut` say what an append makes
of a cut line and what a crash makes of an append.

**Distillation.** `pending` is the queue of `_Pending` objects; they are mutable and the
loop keeps them across its awaits, so `object[o]` names them and `drain` holds
references. `Enqueue` is `_enqueue` with its limit; `Visit`, `ReadBatch`, `Extract`,
`Tailing`, `Summarize` are `_drain_one` between awaits; `AfterExtract` tests once
whether the conversation has its summary, and `Dequeue` pops it whatever was enqueued
since. `owed` is the last line that the visit knew of and was able to read, and `missed`
has the conversations that were popped without a line up to there. `Close` is `aclose`,
which cancels the loop and drains everything; `Restart` is a crash.

**LongTermMemory, MemoryFile.** `MemoriesFrom`, `SummaryMemory`, `Merge`, `Rank` and
`Consolidated` are the functions of `memory.py`. `MemoryFile` is `FileLongTermStore` for
one player: `Readers` recall, `Drain` is the background task (`_extract`, `_summarize`,
`_consolidate`). The cache is read without the lock when there is one (`StartRecall`),
changed before the file is (`Absorb`, `WriteFile`), and dropped when other players need
its place (`Evict`). The mapping to `DistilledMemory` forgets recall statistics: `known`
is what the process answers from, `stored` what a restart finds.

**Reply.** `turn[r]` carries a request from its message to its published reply. `Recall`
gathers evidence, `Recalled` from memories and `Recent` from what the player said;
`Scenes` is what the graph makes of it; `Outputs` is what the configured provider
answers, or the mock in its place; `Accepts` is `sanitize`; `Rendering` chooses between
the answer and its replacement. `Save`, `Complete`, `CountUses`, `Resume`, `Replay` and
`Fail` are the handler around it. A line is described by who made it and by the texts
that its words are. The guard against repeating the player (`_matches_echo_keys`) refuses
a line all of whose words he said, or one that is related to a text of his: it has a
short text in it, or is a clause of a longer one. Which words are so related (`Near`), in
which words a text is told (`Telling`) and which words are not displayed at all (`Unfit`:
too long, with markup, a cliche) are constants, any relations in the proofs. `Displayed`
is the verdict of `finalize_display_text`. That a promise is told differently when the
question is about promises is left out.

**Provenance.** `graph` is where a turn is in the graph, `calls` the context variable of the
trace, `made` the calls that happened. `Asked` is one call: by the model, by the mock of
a deployment without one, or by the mock after an error, silenced and then recorded
as a fallback. `Log` is what is logged when the turn ends (`SourceOf`, `ReasonOf`).

**CompanionBrain** owns these parts, which share no state, and steps one at a time.

**Commands, Quarantine, Records.** `handler[h]` serves a report or an event: `Find...`
looks for an earlier one with its id, `CheckResult` compares with the latest result,
`Store...` inserts, and after a lost race `Replay...` reads again. The game sends what it
likes when it likes: any number of reports of a command may be served at once.
`results[c]` is ordered by `received_at`, the time of the check, so that a report may land
before one that was stored meanwhile (`Places`); `newer` counts those, and a command
with a report stored although `newer` was not 0 is in `raced`.

In `Quarantine` a content stands for its hash. `work` is the file in the run's hands. `Hash`
and `Compare` are the two reads of a scan, and what the second finds is reported under the
hash of the first; `FindPlace`, then `Replace` or `Unlink`, and `Moved` are the move;
`SelectExpired`, `CheckExpired`, `DeleteExpired` and `CommitExpired` are `_delete_expired`,
whose hash and unlink are two steps and whose reports are committed together. `Reconcile`
repairs what a stopped run left. Between any two of these `ChangeFile` puts, edits or
removes a file, in either directory. What it puts where the run has looked and is about
to remove is in `slipped`. `Records` adds `PurgeEvents` and `PurgeAudit` and puts the
steps of one sweep in order; `StopSweep` ends it anywhere.

## 4 The runs and their bounds

| Run | Shows |
|---|---|
| `tasks` | On SQLite and on a database with row locks, each task has one outcome (`OneOutcome`) and accepted uploads never rewind the version (`PutNeverRewinds`); rows and reservations agree, and with the locks material is conserved (`LocksConserve`) and the handlers implement `TaskLedger` (`ImplementsTaskLedger`). |
| `tasks_double_spend` | On SQLite `Conservation` fails: finding 1. |
| `pairing` | `DeviceCap`, `UsedCodeHasDevice`, `DeviceHasOneCode`, `OneDevicePerRequest`, and `Pairing` implements `DeviceRegistry` (`ImplementsDeviceRegistry`), with two sessions, revocation, expiry and the open gate. |
| `memory` | `CursorContiguous`, `ActiveIsReferenced`, `CandidateIsReferenced`, `WantedIsStored`, `ForgottenForGood` with worker, user, sweep and script interleaved; and, under fairness, every source settles (`EverySourceSettles`), due content is erased (`DueIsErased`), a memory whose source was erased is archived (`MemoryWithoutSourceArchived`). |
| `memory_slow_model` | `WantedIsStored` fails if a lease may run out during a classification: finding 2. |
| `memory_decision_overwritten` | `DecisionIsFinal` fails with two users: finding 3. |
| `chat_operation` | `ChatOperation` implements `OneReply` (`ImplementsOneReply`); `NothingBeforeDelivery`, `TaskComesWithReply`, `DraftIsReused`; with two handlers, two payloads, retries, failures, purges. |
| `chat_retry_blocked` | `PendingCanBeRetried` fails: finding 4. |
| `conversation` | `OneTurnAtATime`, `OrderIsWhatWasSaid` and `AnsweredQuestionIsGone` with overlapping turns, expiry, eviction and a failure or restart; and, in other behaviours, `EvidenceIsSpaced`, `StateIsJustified` and `GrowsOnEvidence` with events in any order of arrival and of occurrence, an acceptance, deletions and purges interleaved. |
| `companion_brain` | Transcript numbers climb (`NumbersClimb`), distillation skips nothing of what a visit was to read (`NoGap`), `MemoryFile` implements `DistilledMemory` (`ImplementsDistilledMemory`), `ConsolidationLosesNothing`, `RecallIsNotDenied`, `UsesAreOfReplies`, `LogIsTrue`. |
| `records` | An id keeps its answer (`SameAnswer`), a command its lifecycle unless a report was overtaken (`ResultsFollowLifecycle`, `EndedForGood`), events and their outbox rows agree (`EventsAreQueued`), no legacy file disappears unverified but what slipped in (`NothingUnverifiedIsLost`). |
| `records_two_ends` | `OneEnd` fails: finding 5. |

**Bounds and why they are enough.** Each race the code can lose is between two
transactions that read the same rows, so two sessions are needed and the third adds no
new pair. In `tasks`, with row locks: two crafting requests that each need all the
material the snapshot can spare, three versions, a player who spends, a container that
can be full at the refund (`MakoRoom`, `StorageRoom`). On SQLite: a crafting and an
open-ended request, each created up to twice, so that a row can be replaced under a
session that read the first, and two versions. `MemoryPipeline` has two sources of *one*
text: they share a memory, and one of them can be deleted or purged under the other; one
worker is what the deployment starts. The runs against findings have more texts and
users. The proofs of section 5 do not depend on these numbers. `MaxMishaps` bounds
failures, crashes and runs of the script; `MaxClock`, `MaxVersion`, `MaxCalls` and the
like bound counters that otherwise grow for ever.

`conversation` runs `Conversation` or `Relationship` in a behaviour (`MCNext`): they
share no state. `Relationship` has two memories with one message each, said at hours 0
and 1, and two events of any of three types at hours 1, 2 and 4, with a cooldown of 2
hours and a window of 3: the gaps 0 to 3 between events lie below the cooldown, on its
boundary and on the window's boundary, and an event can precede the message it would
confirm. One acceptor suffices, because two acceptances meet only in the unique text,
which the write step checks.

`Conversation` has three requests: enough for a question, its
answer and a third turn that overlaps with either, and for `MaxAsk` questions in
a row and one more. Two chats, on a phone and in a game, and one situation share
room for two entries, so that the third evicts. Both lifetimes are one tick.
The texts are "dig 2" (a quantity without a resource), "wood", and on the phone an
order that names two resources and an item to craft.

`companion_brain` runs one part of the brain in a behaviour (`MCNext`): the parts share
no state, so nothing is lost but their product. Two conversations over a cache and a
queue of one, so that either evicts the other, and three exchanges, enough for a
conversation to be dropped from the queue and to come back; batches of three lines, so
that a full one ends within an exchange; one mishap, so that every state is one a single
failure, cancellation or crash leads to. Long-term memory has four texts and a cap of
three, no half-life passes, and recall counts up to one are told apart: the ranking is
then by importance, kind and whether a memory was recalled at all. The answers to an
extraction or consolidation include bad texts, numbers that do not exist, and two items
at once. `Reply` has two requests and three texts: an opinion, a word of it, after which
the opinion is refused (`Near`), and a name, which is told in other words, is also the
words of a fallback, and told with the opinion is too long (`Unfit`); and a deployment
with a model, with the mock, or without a key.

`records` has one command with three report ids and two handlers, one event with two
bodies, one file with three contents of which one is not a memory file, four changes by
operators or play, and a clock of two days against retention times of one, so that a
sweep can find a thing due, stop, and find it again; commands, events and files share only
the sweep, so a behaviour uses one of them (`MCOnePart`). Of reports that are alike one is
sent (`MCFewReports`), and sweeps begin when something can be due (`MCFewSweeps`).

**Deadlock.** Clients need not do anything more, and bounded inputs run out, so a
state without successor is normal: every configuration has `CHECK_DEADLOCK FALSE`.
That the server's own work goes on is what the liveness properties of `memory` check.

**Symmetry** is used for names that the models treat alike (sessions, requests,
texts, users), never in `memory`, whose properties need fairness.

**Fairness.** `FairSpec` of `MemoryPipeline` assumes weak fairness of the
worker's next step, of the sweep's next step, and of the end of a lease: the
first two are loops that catch their errors and go round again
(`app/memory_worker.py`, `app/main.py:35-60`), the last is a clock. Nothing is
assumed of users, of the operator or of failures, which are bounded. In
particular a review need not be decided: `ReviewLapses` is not fair and its
expiry is not claimed.

What two of the liveness properties leave out is deliberate and comes from the
code: `EverySourceSettles` excludes a source whose text equals that of an
archived memory. Its insertion violates the unique text at every attempt, so the
worker retries it for ever (`memory_candidate_service.py:367`), and sources behind
it that the worker must pass wait for their turn only. `DueIsErased` speaks of
content nothing refers to; a reference added to a memory between the read and
the write of its deletion stays on the archived memory and keeps the content.

`WantedIsStored` speaks of sources that still have content, since the sweep may
erase one that is being recovered: the script writes rows that it read before its
write lock, and a source purged in between leaves its tombstone, is claimed
without content and dropped.

## 5 What is proved

For all values of the constants allowed by the named assumptions, with any
number of sessions, devices, sources, texts, types, workers, users and files.

`OfflineTasks_proofs`, on either database: `TasksTypeCorrect`, `TasksHaveOneOutcome`,
`UploadsNeverRewind`, `ReservationsAreRecorded` (`HeldIsReserved`, for any finite set of
requests). Where the row lock exists: `LocksConserveMaterial` (`LocksConserve`, of which
the first is the other half), `LocksOrderStateVersions`, `LocksShowServerChanges`, and
`TasksImplementLedger` (`ImplementsTaskLedger`). That the lock is needed is what
`tasks_double_spend` shows. The database never changes, so what the lock buys is proved
as `ForUpdateLocks => ...`.
- `TaskInv` says what a session has in hand at each step (`Knows`): a crafting insert
  the snapshot from which it can take its material, an upload a body that does not
  conflict with the row it read. `Outcome` counts: creations of a request are its
  cancellations and its live row, and a row was completed once if it is `Completed` or
  `Claimed`, else never. Every update and delete repeats the status it read, so none can
  move a row that has moved.
- `LockInv` is what the lock buys. A session between reservation or refund and its
  commit has the lock, and the row it read is the row that is there (`Holds`); any
  version read by a session that is still stored is stored with the row it read
  (`ReadOnce`); uploads are numbered so that a later one knows no less of the server
  (`Numbered`); and whatever may be stored next balances (`Acceptable`). Conservation is
  not inductive without the last: it has to hold already of the uploads that are on
  their way, as far as the version check can let them through.
- `ReservedInv` says that a row's id counts what its request has created (`IdsCount`),
  so that a session that cancels has what the row reserves or finds another row, or none
  (`ReadRow`). That the sum over all rows changes by what one row does is
  `TotalChanges`; the sum is a fold over a set, unfolded element by element.
- The refinement needs `LockInv`, so that the row a session writes back is the row that
  is there, also after the step (an accepted upload balances), and `NeedInv`: a live
  crafting row, and the session that inserts or cancels it, has in its two columns
  together exactly what the task needs. Then a write step is a step of the ledger, and
  whatever a handler does before it is a stutter.

`Pairing_proofs`: `TypeCorrect`, `CapHolds`, `CodesNotBurned`, `OneCodePerDevice`,
`RetriesShareDevice`, `PairingImplementsRegistry`. The inductive invariant is `IndInv`:
the properties and `JobsRemember`, what a session still knows when it writes. A waiting
pairing holds a code of its profile, read before its expiry. Without it
`UsedCodeHasDevice` is not inductive, for a write step could redeem a code that was
never read. The cap is an argument of cardinality: the count is taken in the step that
inserts the device, so a set below the cap grows by one. The refinement needs types and
`JobsRemember` only: what a write step checks again is what the registry asks for, and
the profile of its code is the one the session read.

`MemoryPipeline_proofs`: `TypeCorrect`, `CursorNeverPasses`,
`ActiveMemoriesAreReferenced`, `DeletedMemoriesStayDeleted`, `CandidatesAreReferenced`,
and, unless the model is slow, `WantedMemoriesAreStored` (`WantedIsStored`). The
module goes from effects to steps: lemmas say what each helper does to types,
cursor and references; then each action has one lemma; then `Next`.
- `Base` is `TypeOK` and `JobsRemember`: a job that will write names a source and a
  memory where it needs them, and the memory it read still has its row.
- `CursorContiguous` is inductive above `Base`. `AdvancePassesSettled` says that
  `Advance` stops before the first open row. Completing or burying a row only
  adds settled rows, a claim takes a row beyond the cursor, and
  the script moves the cursor below the smallest row it opens.
- `ActiveIsReferenced` needs `Referenced`, with `LinkedExist`: a linked memory has a row.
  Then a memory that acceptance inserts has no links from before, one that
  it shares is active and keeps its references, and a release is always that of
  a memory archived in the same step.
- `CandidateIsReferenced` is inductive above `Base`: a decision and an expiry drop the
  reference in the step that decides.
- `WantedIsStored` needs two invariants more. `Leases`: while a lease outlasts a call, a
  worker keeps the claim on what it works on until it acknowledges it or the source is
  disposed of (`ClaimsLast`), it has the claim alone (`OneHolder`), and the script has
  selected settled rows that nobody works on (`RequeuedAreFree`). `Verdicts`: what it is
  about to acknowledge is answered by a memory or a review, is not wanted, or has lost
  its content. With a slow model `ClaimsLast` is false, and so is the property
  (finding 2).

`ChatOperation_proofs`: `ChatTypes`, `NothingGoesBeforeDelivery`,
`TasksComeWithReplies`, `DraftsAreReused`, and `ChatImplementsOneReply`. The invariant
has one part for each request (`RequestOK`: its rows, delivery, task and answers agree)
and one for each handler (`HandlerOK`). A handler past `_chat_lock` is alone with its
request, so what it read stays true until it ends; a step of one request leaves the
others' part alone. The refinement maps inserting a message to `Accept`, completion and
replay to `Answer`, and everything else to a stutter.

`Relationship_proofs`: `RelationshipIsJustified`, `EvidenceStaysSpaced`, and
`RelationshipGrowsOnEvidence`, for any memories, messages and events; that finitely many
events are stored at any time is part of the invariant.
- The invariant of the first is `StateIsJustified` with the few typing facts it needs
  (`Shape`). Nothing is assumed of what `ObserveAll` adds: each action either evaluates
  the rows it leaves, or leaves every row that the evaluation reads, or sets
  `overlooked`. An acceptance that neither stores a link for the first time nor finds an
  event is the case that needs an argument: without readable events the evaluation is
  Low before and after.
- The others need what `ObserveAll` adds (`ObserveAllAdmits`): rows that stand on an
  active memory, a link and an event that are there (`Stands`), and any two a cooldown
  apart, whichever came first (`Spaced`). A fold over a finite set is shown to exist
  (`FoldExists`, from a smallest counterexample), and unfolded one event at a
  time (`FiniteSetsAll`, induction on subsets without quantifying an operator).
- `EvidenceInv` adds that evidence is of a link and an event that are stored and of a
  memory that was accepted (`Grounded`), so that evidence that became invalid never
  becomes valid again, and `Covers` that a state never lies below what its evidence
  amounts to: `GrowsOnEvidence` is not inductive without them.

`Conversation_proofs`: `TypeCorrect`, `LocksNeverLeftBehind`, `TurnsAreSerial`,
`OrdersAreSaid`, `QuestionsEnd`, `AnsweredQuestionsStayAway`, for any texts, provider
answers, keys and lifetimes.
- `Base` is `TypeOK` with what a handler has at each step (`TurnsKnow`): a key and
  a text once it has read its request, and a reply once the graph has run.
- `LocksAreUsed` is an argument of cardinality over `Users(k)`: registering adds
  one user, leaving removes one, and the last to leave takes the lock along.
- `OneTurnAtATime` follows from it: all users of a conversation share one object,
  and `Begin` waits until nobody thinks with that object.
- `SaidInv` carries the words through the store: `SlotRight` says of a question,
  wherever it is kept (an entry, a handler's `loaded`, a reply), that it has the quantity
  of the request it is about and as many askers as it counts; the text of a
  request never changes once it is sent; and `TurnRight` says that one turn of the graph
  keeps this. `OrderIsWhatWasSaid` and `AsksAtMost` are consequences.
- `GoneInv` carries the askers of a question instead: those who asked an open question
  have been published in its conversation (`AskedIn`), so no turn begins with a question
  of its own (`AskedBefore`), and what it is about to ask has it among its askers
  (`AsksItself`), whatever expired, was evicted or was asked elsewhere in between.
  `PublishersPrepared` says that only a turn that the graph answered is published.

`Records_proofs`: `EventsStayQueued`, `NothingUnverifiedIsEverLost`,
`AnswersAreForOneBody` (`SameAnswer`), `ReportsFollowLifecycle` and `EndsAreForGood`; of
the order in which reports arrive nothing is assumed.
- For legacy files, `FileInv` says of each content that the run may remove that it was
  verified or slipped in (`Removable`): the source from the moment it was verified
  (`SourceRemovable`), the place in the quarantine while the run moves something there or
  is about to delete it (`PlaceRemovable`), and whatever has the hash in its name
  (`IntactRemovable`), since nothing but a move of a verified content makes it so.
- `AnswersInv`: a stored id has one row, and whatever an id was answered for is a row
  that is stored, with that body, or was purged with its answers (`AnswersStored`).
- `CommandInv` is about what a handler has checked by the time it stores: rows expire in
  the order of `received_at` and none before its candidate (`RowsInOrder`,
  `CandidateHolds`), so the sweep takes the oldest first; and a handler that is about to
  store a report, and was not overtaken, has checked it against the row that is still the
  last, if there is one (`StoreReady`). A command that has ended, and none of whose
  reports was overtaken, has a terminal row at its end, or no candidate (`EndedStays`).

`CompanionBrain_proofs`: `LogsAreTrue`, `RecallsAreNotDenied`, `UsesAreCountedOnce`,
`TranscriptsClimb`, `NothingIsSkipped` (`NoGap`), `UpdatesAreAtomic`
(`ImplementsDistilledMemory`), `ConsolidationsLoseNothing`, `RecallsAreKept`
(`RecallsAreInherited`). The parts share no state, so each proof has the steps of its
part, and the others leave its variables alone.
- `OriginInv` follows a turn through the graph: what the log will compute as the node is
  what was chosen (`Routed`), no call has given it its words before `say` (`Unvoiced`)
  and exactly the last one has after it (`Voiced`), and the trace has what was called, at
  most `MostCalls` of where the turn is (`Traced`), so that none was cut off.
- `RepliesInv`: a rendered reply rests on its evidence if the words in which it is told
  may be displayed (`RestsOnEvidence`), a completed one
  was given (`Answered`), and the count of a memory is at most the number of requests
  that are done (`Counting`), an argument of cardinality as for the device cap.
- `NumbersInv`: who numbers or writes has the lock, or has marked its conversation as
  `spoiled` (`OneAtATime`), and whoever is about to write or left a counter in the cache
  knows the largest number of the file (`CountersAreCurrent`). `NumbersClimb` is not
  inductive without the second: a counter that is behind writes a line below the last.
- `CursorsInv` stands on it: each queued entry has been told of all lines between
  its base and its cursor, which is not beyond the file's end (`Followed`), and the batch
  in hand has all lines from the cursor to its last; what a visit owes is in the file, then
  in the batch, then behind the cursor (`VisitIs`). An append that
  comes back to enqueue has written its lines, so the cursor it begins with is a number
  of the file.
- `LongTermInv` is what the task holds while recalls, evictions and failed writes go on
  around it. Who reads or writes the file has the lock, and who reads it found no cache
  (`LockIsHeld`); between the steps of an update the task holds a whole store, and a
  cache that is there then has its lines or, while the model consolidates, those of the
  file (`UpdateIsWhole`). The refinement is not provable without it: a request that
  loads the cache in between would undo part of an update. Below it are lemmas about
  `memory.py` as a function, for any numbers of memories. `MergeIs`: when an extraction
  or a summary was merged nothing is gone that nothing replaces, unless the cap is full,
  and each text keeps its recalls. `StrongestAre` and `RankIs`: strength, age and place
  are a strict order (`StrongerIsOrder`, `RankIsOrder`), so as many survive as fit, and
  a rank of all has each memory once. `ConsolidatedIs`: fewer memories, of which each
  was there or stands for some. A loop of the code is a function on `0..n`: it exists
  (`LoopExists`), and what each of its rounds keeps holds at its end (`LoopKeeps`).

Assumptions on constants are named in the modules and evaluated by every run. Beside
typing they say that a name is left for a new object: the queue and the loop refer to
`MaxPending` entries each (`DistillationAssumption`), a turn asks its provider five times
at most (`BrainAssumption`), and a value that stands for nothing is none of the others;
in particular `NotCached` is no list of memories (`LongTermAssumption`).

Theorems about facts that no run repeats: the type theorems, `ReservationsAreRecorded`,
`LocksOrderStateVersions`, `LocksShowServerChanges`, `LocksAreUsed`
(`LocksNeverLeftBehind`), `AsksAtMost` (`QuestionsEnd`), `RecallsAreInherited`
(`RecallsAreKept`).

Every invariant, action property and refinement that a passing run checks is a theorem.
Only model-checked: the liveness properties `EverySourceSettles`, `DueIsErased` and
`MemoryWithoutSourceArchived` (fairness and ENABLED are beyond the prover).

## 6 Where code and documents disagree

1. **Reservations are not atomic on SQLite** (`tasks_double_spend`).
   `README.md:160-161` and the docstring at `app/offline_task_service.py:295` say
   that a task and the deduction of its materials are one transaction. The
   snapshot is read before the transaction begins and written back without a
   version check, so of two concurrent requests one deduction is lost, and an
   upload in between can be overwritten with a lower version. The run
   `tasks` and the theorems `LocksConserveMaterial` and `TasksImplementLedger` show that
   the row lock the code asks for is what is missing.
2. **A slow model loses a source** (`memory_slow_model`). If the lease runs out
   during the call, acceptance rejects the claim as stale and then acknowledges
   the source (`app/memory_candidate_service.py:158`). The comment at
   `app/memory_worker.py:98` says it stays Claimed and is tried again.
3. **A review decision can be overwritten** (`memory_decision_overwritten`). The
   status is checked before the write lock, so two different decisions can both
   succeed; `docs/api-endpoints.md:383` promises 409 to the second.
4. **A failed chat request may never succeed** (`chat_retry_blocked`). A reply's
   sequence is that of the player's message plus one. A second message stored
   before the first one's reply takes it, and each retry fails on the unique
   constraint after calling the model again; `docs/api-endpoints.md:330` says that
   the request can be retried.
5. **A command can end twice** (`records_two_ends`). A report is checked against the
   latest one before the transaction that stores it (`app/event_service.py:171`), so
   two reports that overlap, each with its own operation id, can both be stored although
   they exclude each other; `docs/api-endpoints.md:420-423` answers whatever follows
   a terminal state with 409. `ResultsFollowLifecycle` and `EndedForGood` show that
   nothing else breaks the lifecycle.

Other behaviour seen while modelling, with no document against it: a draft
resumed after its task was deleted creates the task again; the first source of a
purge is checked for references before the write lock, so a memory accepted in
between loses its source until the next sweep archives it
(`MemoryWithoutSourceArchived`); the recovery script can put a purged source back
into the queue.

In `Relationship`: an acceptance that loaded a memory before it was deleted still
counts it, so the state can be higher than its evidence until the next evaluation
(`overlooked`); an event that is reported late, and is older than an admitted one
of its type, always falls in that one's cooldown.

In `Conversation`: `prepare_response` and `commit_response` take the lock one after the
other, so two overlapping turns can begin with the same question and both answer
it, although the docstring of `_conversation_lock` (`app/brain/companion.py:278-284`)
speaks of serialising load, graph and save. A resumed draft, a failed commit and a
crafting order refused for want of material publish nothing, so a question that the turn
began with stays open for the next one, where `app/brain/graph.py:290` and
`tests/test_companion_graph.py:1266` expect it to intervene in one turn only.
A situation remembers under the key of `_conversation_key` (`app/service.py:714-742`),
whose docstring says that chat and situations share it, while chat uses the
conversation id (`app/service.py:266`).

In `ChatOperation` and `Reply`: replaying a completed request passes the stored reply
through the guard against repeating the player once more, and stores what comes out
(`app/service.py:466-490`), where `docs/api-endpoints.md:35` promises the first answer;
`OneReply` speaks of the reply and not of its wording. In a turn that must rest on
evidence, the guard that forbids repeating the player replaces the memory by the fallback
of the scene, which says that nothing is remembered (`app/brain/graph.py:859`). It does so
when the memory is what he just said, and also when it has a short message of his in it
or is a clause of a longer one (`app/brain/dialogue.py:661-696`): after "커피" the memory
"나는 커피를 좋아해" is denied, where the docstring of `finalize_display_text`
(`app/brain/dialogue.py:726-731`) speaks of whole sentences only. `RecallIsNotDenied`
excludes what the display guard refuses, and nothing else.

In `Distillation` and `Transcript`: the comment at `app/brain/companion.py:108-109` says
that what a batch leaves is read the next time and no stretch is skipped. That holds of
the cursor (`NoGap`), but not of a conversation that ended: an exchange that is enqueued
while its last visit waits for the extraction or the summary renews the entry
(`companion.py:803-806`), and the visit pops it all the same (`companion.py:863-866`),
as it pops what lies behind a full batch of 24 lines. Nor are they read later: the next
exchange makes an entry that begins with itself. A failed extraction is answered by the
mock with nothing to remember, so the cursor passes that stretch although nobody looked
at it. The queue and its cursors are lost with the process, and the oldest conversation
of a full queue is dropped with what it had not distilled. A cancelled request gives its
lock back while its thread writes, so two appends can take the same number (`spoiled`),
where the comment at `app/brain/transcript.py:46` says that numbers always climb; a
sweep can remove a file between its look at the age and a new line. A crash within a
character of a line leaves a file that cannot be decoded, which `except OSError` does
not catch (`app/brain/transcript.py:112-115`): after the restart nothing more is
appended to that conversation, or extracted from it, until the sweep removes the file,
although the docstring says that a cut line alone is skipped. The deployed server has no
long-term store (`long_term=None`): there only the transcript's append and sweep run.

In `MemoryFile`: a recall that is counted while the model consolidates is overwritten with
the count from before (`companion.py:918-928`); `RecallsAreInherited` is about extractions.

In `Records`: a legacy file that is put back keeps the deadline of its old report, and if
the player's rows changed meanwhile, the report becomes a mismatch and the quarantined copy
is never deleted. The docstring of `_move_to_quarantine` (`app/retention.py:230`) promises
not to overwrite another hash, but a file that comes to the destination after `exists()`
is replaced; a source that changes after the scan is unlinked, unread, when the destination
has the hash, or moved under a hash it has not; and a quarantined file that changes
between its hash and its unlink (`retention.py:384-396`) is deleted. What is lost so is
`slipped`, which `NothingUnverifiedIsLost` excludes, and nothing else is lost.

Three hazards are in `PROJECT.json` without a property: a link added to a memory between
the read and the write of its deletion keeps its reference
(`app/memory_service.py:126`); a message purged before its operation completes has a
tombstone with which the completion collides (`app/db/canonical_repository.py:262`); a
task that was created under the request id by `POST /tasks` makes a reply name a task of
another kind (`app/service.py:563`).

## 7 What is not modelled

`PROJECT.json` gives the status of every component. Left out for good:
- data and text rules: prompts, schemas, facts, recipes, lore, the regular expressions
  that read a text. What they decide is a choice in `CompanionGraph`, `Reply` and
  `Provenance`. They are half of `app/brain`;
- embeddings and similarity, which order memories and change none (a recall is any
  ranking);
- serialization, validation, wording of errors, logging (but for the log of a reply's
  origin), timing (`TimingLLMProvider`);
- WebSocket frames, the Kakao adapter and the middleware, which call what is modelled
  and keep nothing themselves; admin edits of reference rows; migrations, which run
  before the server starts;
- the quarantine of transcripts (`_sweep_transcript_quarantine`), which only deletes old
  files.

Within modelled components: memory corrections and pins, which change neither references
nor cursor; snapshot content that is not crafting material; message ids chosen by
clients; of a conversation's memory, recent turns (text for the prompt) and the recipe
reference (replaced by each turn, like the question); `respond()`, which the server does
not call. The classifier of the worker (`classify_memory`) has no fallback: it answers
or raises, which is the verdict of `MemoryPipeline`. The order in which an
`asyncio.Lock` serves its waiters: any is allowed. The trace of calls belongs to the
task of one turn, so `Provenance` has one turn.

## 8 Plan

What is left, in order of importance:

1. Abstract specifications: `MemoryPipeline` implements an at-least-once queue;
   `Conversation` implements a store in which turns take effect one at a time.
2. The three hazards without a property: the tombstone under an operation and the
   foreign task in `ChatOperation`, with a clock for the retention; the late link in
   `MemoryPipeline`.
3. `Reply` composed with `MemoryPipeline`: recalls while memories are accepted, archived
   and erased.
