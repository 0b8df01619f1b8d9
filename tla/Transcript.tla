------------------------------- MODULE Transcript -------------------------------
(***************************************************************************)
(* FileTranscriptStore: one file per conversation to which every exchange  *)
(* appends two numbered lines, the numbers remembered in a bounded cache   *)
(* and otherwise read back from the file.                                  *)
(*                                                                         *)
(* Files are read and written in threads: a request that is cancelled      *)
(* while it waits for one releases the conversation's lock, and the thread *)
(* goes on.  A crash may cut the line that is being written.               *)
(***************************************************************************)
EXTENDS Integers, SequencesExt, Sublists

CONSTANTS
  Conversations,
  Writers,           \* requests that append
  MaxConversations,  \* settings.transcript_max_conversations, the cache's size
  MaxAppends,        \* bound: exchanges of a conversation
  MaxMishaps,        \* bound: crashes, failures and cancelled requests
  NoWriter           \* a free lock

ASSUME TranscriptAssumption ==
  /\ MaxConversations \in Nat \ {0} /\ MaxAppends \in Nat /\ MaxMishaps \in Nat
  /\ NoWriter \notin Writers

VARIABLES
  file,      \* file[c]: the numbers of the readable lines, as they are written
  end,       \* end[c]: the last line is whole, torn, torn within a character ("cut"),
             \* or lacks only its newline
  cache,     \* _last: the cached counters, the one used longest ago first
  lock,      \* lock[c]: the request in _conversation_lock, or NoWriter
  writer,    \* writer[w]: what the request does, and from which number
  fresh,     \* fresh[c]: the file was written within the retention
  due,       \* due[c]: a sweep found the file too old and is about to remove it
  appends,   \* history, appends[c]: exchanges started
  spoiled,   \* history: conversations with a cancelled append, or one that a
             \* sweep overtook
  mishaps

transcript == <<file, end, cache, lock, writer, fresh, due, appends, spoiled>>

Idle == [step |-> "idle"]

TranscriptInit ==
  /\ file = [c \in Conversations |-> <<>>]
  /\ end = [c \in Conversations |-> "whole"]
  /\ cache = <<>>
  /\ lock = [c \in Conversations |-> NoWriter]
  /\ writer = [w \in Writers |-> Idle]
  /\ fresh = [c \in Conversations |-> FALSE]
  /\ due = [c \in Conversations |-> FALSE]
  /\ appends = [c \in Conversations |-> 0]
  /\ spoiled = {}
  /\ mishaps = 0

At(w, step) == writer[w].step = step

Recording(c) == {w \in Writers : ~At(w, "idle") /\ writer[w].key = c}
Cached(c) == \E i \in DOMAIN cache : cache[i].key = c
CachedNumber(c) == cache[CHOOSE i \in DOMAIN cache : cache[i].key = c].seq
\* Mutant: the counter restarts with the process.
NoLastSeq(lines) == 0
\* _last_seq.
LastSeq(lines) == IF lines = <<>> THEN 0 ELSE Last(lines)

\* _remember_last: the counter becomes the most recent one, and the oldest one
\* over the limit is dropped.
RememberLast(c, n) ==
  LET others == Sublist(cache, {i \in DOMAIN cache : cache[i].key # c})
      all == Append(others, [key |-> c, seq |-> n])
  IN  IF Len(all) > MaxConversations THEN Tail(all) ELSE all

-------------------------------------------------------------------------------
(* append *)

\* commit_response records an exchange, react also queues it for distillation.
StartAppend(w, c, distil) ==
  /\ At(w, "idle") /\ appends[c] < MaxAppends
  /\ appends' = [appends EXCEPT ![c] = @ + 1]
  /\ writer' = [writer EXCEPT ![w] = [step |-> "wait", key |-> c, distil |-> distil, base |-> 0]]
  /\ UNCHANGED <<file, end, cache, lock, fresh, due, spoiled, mishaps>>

LockFree(c) == lock[c] = NoWriter

AcquireLock(w) ==
  LET c == writer[w].key IN
  /\ At(w, "wait") /\ LockFree(c)
  /\ lock' = [lock EXCEPT ![c] = w]
  /\ writer' = [writer EXCEPT ![w] =
       IF Cached(c) THEN [@ EXCEPT !.step = "write", !.base = CachedNumber(c)]
                    ELSE [@ EXCEPT !.step = "number"]]
  /\ UNCHANGED <<file, end, cache, fresh, due, appends, spoiled, mishaps>>

Release(w) == lock' = [c \in Conversations |-> IF lock[c] = w THEN NoWriter ELSE lock[c]]

\* A file that ends within a character cannot be decoded: the request gives up, and
\* nothing is appended until a sweep removes the file.
ReadNumber(w) ==
  /\ At(w, "number")
  /\ IF end[writer[w].key] = "cut"
     THEN writer' = [writer EXCEPT ![w] = Idle] /\ Release(w)
     ELSE /\ writer' = [writer EXCEPT ![w].step = "write", ![w].base = LastSeq(file[writer[w].key])]
          /\ UNCHANGED lock
  /\ UNCHANGED <<file, end, cache, fresh, due, appends, spoiled, mishaps>>

\* _append_file.  A line that lacks its newline swallows the first new line: it
\* is lost, and with it the complete line it was glued to.
Written(c, n) ==
  CASE end[c] = "whole" -> file[c] \o <<n + 1, n + 2>>
    [] end[c] \in {"torn", "cut"} -> Append(file[c], n + 2)
    [] end[c] = "open"  -> Append(Front(file[c]), n + 2)

PutLines(c, n) ==
  /\ file' = [file EXCEPT ![c] = Written(c, n)]
  /\ end' = [end EXCEPT ![c] = "whole"]
  /\ fresh' = [fresh EXCEPT ![c] = TRUE]
  /\ spoiled' = IF due[c] THEN spoiled \union {c} ELSE spoiled

Write(w) ==
  /\ At(w, "write")
  /\ PutLines(writer[w].key, writer[w].base)
  /\ writer' = [writer EXCEPT ![w].step = "finish"]
  /\ UNCHANGED <<cache, lock, due, appends, mishaps>>

\* The thread is back: the counter is cached, the lock released.
FinishAppend(w) ==
  /\ At(w, "finish")
  /\ cache' = RememberLast(writer[w].key, writer[w].base + 2)
  /\ Release(w)
  /\ writer' = [writer EXCEPT ![w] = Idle]
  /\ UNCHANGED <<file, end, fresh, due, appends, spoiled, mishaps>>

\* The file cannot be written; _record swallows the exception.
AppendFails(w) ==
  /\ At(w, "write") /\ mishaps < MaxMishaps
  /\ mishaps' = mishaps + 1
  /\ Release(w)
  /\ writer' = [writer EXCEPT ![w] = Idle]
  /\ UNCHANGED <<file, end, cache, fresh, due, appends, spoiled>>

\* The request times out.  A thread that has begun to write is not stopped.
CancelAppend(w) ==
  /\ ~At(w, "idle") /\ ~At(w, "orphan") /\ mishaps < MaxMishaps
  /\ mishaps' = mishaps + 1
  /\ Release(w)
  /\ \/ writer' = [writer EXCEPT ![w] = Idle]
     \/ At(w, "write") /\ writer' = [writer EXCEPT ![w].step = "orphan"]
  /\ spoiled' = IF At(w, "write") \/ At(w, "finish")
                THEN spoiled \union {writer[w].key} ELSE spoiled
  /\ UNCHANGED <<file, end, cache, fresh, due, appends>>

OrphanWrite(w) ==
  /\ At(w, "orphan")
  /\ PutLines(writer[w].key, writer[w].base)
  /\ writer' = [writer EXCEPT ![w] = Idle]
  /\ UNCHANGED <<cache, lock, due, appends, mishaps>>

-------------------------------------------------------------------------------
(* sweep, in a thread and without the locks; crash *)

\* The retention passes without a line.
Age(c) ==
  /\ fresh[c] /\ fresh' = [fresh EXCEPT ![c] = FALSE]
  /\ UNCHANGED <<file, end, cache, lock, writer, due, appends, spoiled, mishaps>>

\* _sweep_directory looks at a file's age ...
SweepStat(c) ==
  /\ ~due[c] /\ ~fresh[c] /\ (file[c] # <<>> \/ end[c] # "whole")
  /\ due' = [due EXCEPT ![c] = TRUE]
  /\ UNCHANGED <<file, end, cache, lock, writer, fresh, appends, spoiled, mishaps>>

\* ... and removes it.
SweepUnlink(c) ==
  /\ due[c]
  /\ due' = [due EXCEPT ![c] = FALSE]
  /\ file' = [file EXCEPT ![c] = <<>>] /\ end' = [end EXCEPT ![c] = "whole"]
  /\ fresh' = [fresh EXCEPT ![c] = FALSE]
  /\ UNCHANGED <<cache, lock, writer, appends, spoiled, mishaps>>

\* What a crash leaves of the two lines a thread was writing.
Torn(lines) == {<<lines, "torn">>, <<lines, "cut">>}
Cut(c, n) ==
  LET whole == Written(c, n) IN
  {<<file[c], end[c]>>, <<whole, "whole">>, <<whole, "open">>} \union Torn(Front(whole))
    \union (IF end[c] = "whole"
            THEN Torn(file[c]) \union
                   {<<Append(file[c], n + 1), "open">>, <<Append(file[c], n + 1), "whole">>}
            ELSE Torn(IF end[c] = "open" THEN Front(file[c]) ELSE file[c]))

Writing(c) == {w \in Recording(c) : At(w, "write") \/ At(w, "orphan")}

\* The process ends, and a new one starts with nothing but the files.
TranscriptCrash ==
  /\ \E left \in [Conversations -> (UNION {Cut(c, writer[w].base) : c \in Conversations,
                                           w \in {x \in Writers : ~At(x, "idle")}})
                                    \union {<<file[c], end[c]>> : c \in Conversations}] :
       /\ \A c \in Conversations :
            \/ left[c] = <<file[c], end[c]>>
            \/ \E w \in Writing(c) : left[c] \in Cut(c, writer[w].base)
       /\ file' = [c \in Conversations |-> left[c][1]]
       /\ end' = [c \in Conversations |-> left[c][2]]
       /\ fresh' = [c \in Conversations |-> fresh[c] \/ Writing(c) # {}]
  /\ cache' = <<>>
  /\ lock' = [c \in Conversations |-> NoWriter]
  /\ writer' = [w \in Writers |-> Idle]
  /\ due' = [c \in Conversations |-> FALSE]
  /\ UNCHANGED <<appends, spoiled>>

-------------------------------------------------------------------------------
(* Properties *)

Climbs(s) == \A i \in 1..(Len(s) - 1) : s[i] < s[i + 1]

\* A line's number is larger than all before it, whatever the cache dropped, the
\* process lost or a sweep removed: the cursor of the distillation counts on it.
NumbersClimb == \A c \in Conversations \ spoiled : Climbs(file[c])
===============================================================================
