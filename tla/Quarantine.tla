------------------------------- MODULE Quarantine -------------------------------
(***************************************************************************)
(* LegacyMemoryMaintenance (retention.py): a JSON memory file whose rows   *)
(* are all in the database moves to a quarantine directory, and is deleted *)
(* from there when its time is over and nobody touched it.                 *)
(*                                                                         *)
(* A run takes many steps, for it commits before and after it moves a      *)
(* file; it may end between any two.  A content stands for its hash.       *)
(***************************************************************************)
EXTENDS Integers, FiniteSets

CONSTANTS
  Files,           \* names in the memory directory
  Contents,        \* contents a file may have
  Valid,           \* those that are readable memory files
  QuarantineTime,  \* LEGACY_MEMORY_QUARANTINE_DAYS
  MaxChanges,      \* bound: changes by operators and players
  NoFile, NoReport, Never

ASSUME QuarantineAssumption == Valid \subseteq Contents /\ QuarantineTime \in Nat

VARIABLES
  legacy,    \* legacy[f]: the content of the file, or NoFile
  imported,  \* imported[f]: the content that the player's rows equal
  isolated,  \* isolated[<<f, x>>]: the content of the quarantine file of f with hash x
  report,    \* report[<<f, x>>]: the legacy_import_reports row, or NoReport
  todo,      \* names that the run still has to look at,
  expired,   \* and quarantined files whose time it found to be over
  work,      \* the file in its hands, and what it does next
  settled,   \* <<key, status>>: changes of reports it has not committed
  changes,
  verified,  \* history: the files whose memories were found in the database
  slipped,   \* history: what was put where the run had looked and was to remove
  lost       \* history: the files whose only copy the run removed, and not verified

quarantineVars == <<legacy, imported, isolated, report, todo, expired, work, settled, changes,
                    verified, slipped, lost>>

Keys == Files \X Contents
Present(place, k) == place[k] # NoFile

Nothing == [step |-> "none"]
Work(step, k) == [step |-> step, key |-> k]
Now(step) == work.step = step

QuarantineInit ==
  /\ legacy = [f \in Files |-> NoFile]
  /\ imported = [f \in Files |-> NoFile]
  /\ isolated = [k \in Keys |-> NoFile]
  /\ report = [k \in Keys |-> NoReport]
  /\ todo = {} /\ expired = {} /\ work = Nothing /\ settled = {} /\ changes = 0
  /\ verified = {} /\ slipped = {} /\ lost = {}

History == <<verified, slipped, lost>>

-------------------------------------------------------------------------------
(* The run *)

Status(k) == IF report[k] = NoReport THEN "None" ELSE report[k].status
Intact(k) == isolated[k] = k[2]
Unusable(k) == IF Present(isolated, k) THEN "modified" ELSE "missing"

\* _reconcile_quarantine, for all reports; then the directory is listed.
Reconciled(k, now) ==
  LET r == report[k] IN
  IF Status(k) = "verified" /\ Intact(k)
  THEN [status |-> "quarantined", due |-> IF r.due # Never THEN r.due ELSE now + QuarantineTime]
  ELSE IF Status(k) = "quarantined" /\ ~Intact(k) THEN [r EXCEPT !.status = Unusable(k)]
  ELSE r

Reconcile(now) ==
  /\ report' = [k \in Keys |-> Reconciled(k, now)]
  /\ todo' = {f \in Files : Present(legacy, f)}
  /\ UNCHANGED <<legacy, imported, isolated, expired, work, settled, changes, History>>

\* The report of a file that was there before is kept, with its deadline.
Reported(k, status) ==
  report' = [report EXCEPT ![k] =
               [status |-> status, due |-> IF @ = NoReport THEN Never ELSE @.due]]

\* _scan_legacy_file: the bytes are read for their hash, and whether they are JSON.
Hash(f) ==
  LET k == <<f, legacy[f]>> IN
  /\ Now("none") /\ f \in todo /\ todo' = todo \ {f}
  /\ CASE ~Present(legacy, f) -> UNCHANGED <<report, work>>    \* "ReadFailed"
       [] Present(legacy, f) /\ legacy[f] \notin Valid -> Reported(k, "corrupt") /\ UNCHANGED work
       [] OTHER -> work' = Work("read", k) /\ UNCHANGED report
  /\ UNCHANGED <<legacy, imported, isolated, expired, settled, changes, History>>

\* read_memory_file reads the file again, and what it has now is compared with the
\* rows, under the hash of before; another content may be as long or not.  (Files
\* without memories, of which nothing can be lost, are left out.)
Compare ==
  LET k == work.key
      f == k[1]
      x == legacy[f] IN
  /\ Now("read")
  /\ \/ /\ x \in Valid /\ imported[f] = x
        /\ Reported(k, "verified") /\ work' = Work("verified", k)
        /\ verified' = verified \union {<<f, x>>}
     \/ /\ x \in Valid /\ imported[f] # x
        /\ Reported(k, "mismatch") /\ work' = Nothing /\ UNCHANGED verified
     \/ /\ x \notin Valid \/ x # k[2]
        /\ Reported(k, "corrupt") /\ work' = Nothing /\ UNCHANGED verified
  /\ UNCHANGED <<legacy, imported, isolated, todo, expired, settled, changes, slipped, lost>>

\* What remains of a file's content after a step.
Copies(f, x) == legacy'[f] = x \/ \E k \in Keys : k[1] = f /\ isolated'[k] = x
Losing(f, x) == lost' = IF x = NoFile \/ <<f, x>> \in verified \/ Copies(f, x) THEN lost
                        ELSE lost \union {<<f, x>>}

\* _move_to_quarantine does not look at the source again.  First the destination:
\* a file of this hash makes the source superfluous, another one is in the way.
FindPlace ==
  LET k == work.key IN
  /\ Now("verified")
  /\ work' = CASE ~Present(isolated, k) -> Work("replace", k)
              [] Intact(k) -> Work("unlink", k)
              [] OTHER -> Nothing
  /\ UNCHANGED <<legacy, imported, isolated, report, todo, expired, settled, changes, History>>

\* path.replace: whatever came to the destination meanwhile is overwritten.
Replace ==
  LET k == work.key
      f == k[1] IN
  /\ Now("replace")
  /\ IF Present(legacy, f)
     THEN /\ isolated' = [isolated EXCEPT ![k] = legacy[f]]
          /\ legacy' = [legacy EXCEPT ![f] = NoFile]
          /\ work' = Work("moved", k)
          /\ Losing(f, isolated[k])
     ELSE work' = Nothing /\ UNCHANGED <<legacy, isolated, lost>>
  /\ UNCHANGED <<imported, report, todo, expired, settled, changes, verified, slipped>>

\* path.unlink: whatever came to the source meanwhile is removed.
Unlink ==
  LET k == work.key
      f == k[1] IN
  /\ Now("unlink")
  /\ legacy' = [legacy EXCEPT ![f] = NoFile] /\ work' = Work("moved", k)
  /\ UNCHANGED <<imported, isolated, report, todo, expired, settled, changes, verified, slipped>>
  /\ Losing(f, legacy[f])

\* The second commit.
Moved(now) ==
  /\ Now("moved")
  /\ report' = [report EXCEPT ![work.key] =
                  [status |-> "quarantined", due |-> now + QuarantineTime]]
  /\ work' = Nothing
  /\ UNCHANGED <<legacy, imported, isolated, todo, expired, settled, changes, History>>

-------------------------------------------------------------------------------
(* _delete_expired *)

SelectExpired(now) ==
  /\ todo = {} /\ Now("none")
  /\ expired' = {k \in Keys : Status(k) = "quarantined" /\ report[k].due # Never
                                /\ report[k].due <= now}
  /\ UNCHANGED <<legacy, imported, isolated, report, todo, work, settled, changes, History>>

\* Mutant: the file's hash is not computed again.
StillThere(k) == Present(isolated, k)
StillTheSame(k) == Intact(k)

CheckExpired(k) ==
  /\ Now("none") /\ k \in expired /\ expired' = expired \ {k}
  /\ IF StillTheSame(k) THEN work' = Work("delete", k) /\ UNCHANGED settled
     ELSE settled' = settled \union {<<k, Unusable(k)>>} /\ UNCHANGED work
  /\ UNCHANGED <<legacy, imported, isolated, report, todo, changes, History>>

\* destination.unlink: whatever came to it meanwhile is removed.
DeleteExpired ==
  LET k == work.key IN
  /\ Now("delete") /\ work' = Nothing
  /\ isolated' = [isolated EXCEPT ![k] = NoFile]
  /\ settled' = IF Present(isolated, k) THEN settled \union {<<k, "deleted">>} ELSE settled
  /\ UNCHANGED <<legacy, imported, report, todo, expired, changes, verified, slipped>>
  /\ Losing(k[1], isolated[k])

\* One commit for all reports.
CommitExpired ==
  /\ expired = {} /\ Now("none")
  /\ report' = [k \in Keys |->
                  IF \E change \in settled : change[1] = k
                  THEN [report[k] EXCEPT !.status = (CHOOSE change \in settled : change[1] = k)[2]]
                  ELSE report[k]]
  /\ settled' = {}
  /\ UNCHANGED <<legacy, imported, isolated, todo, expired, work, changes, History>>

\* A crash, or the cancellation at shutdown.
StopRun ==
  /\ todo' = {} /\ expired' = {} /\ work' = Nothing /\ settled' = {}
  /\ UNCHANGED <<legacy, imported, isolated, report, changes, History>>

-------------------------------------------------------------------------------
(* Operators, and play *)

\* The run has looked at a place, and will remove what is there.
SourceAtRisk(f) == work.step \in {"verified", "replace", "unlink"} /\ work.key[1] = f
PlaceAtRisk(k) == work.step \in {"replace", "delete"} /\ work.key = k
Slips(f, x, risk) == slipped' = IF risk /\ x # NoFile THEN slipped \union {<<f, x>>} ELSE slipped

\* At any moment a file is put in the directory, edited, or taken away, and one in
\* the quarantine too; but what is put there has not the hash in its name.
ChangeFile ==
  /\ changes < MaxChanges /\ changes' = changes + 1
  /\ \/ \E f \in Files, x \in (Contents \union {NoFile}) :
          /\ x # legacy[f]
          /\ legacy' = [legacy EXCEPT ![f] = x] /\ UNCHANGED isolated
          /\ Slips(f, x, SourceAtRisk(f))
     \/ \E k \in Keys, x \in (Contents \union {NoFile}) :
          /\ x # isolated[k] /\ x # k[2]
          /\ isolated' = [isolated EXCEPT ![k] = x] /\ UNCHANGED legacy
          /\ Slips(k[1], x, PlaceAtRisk(k))
  /\ UNCHANGED <<imported, report, todo, expired, work, settled, verified, lost>>

\* The migration imports the file; play changes the rows.
ChangeRows ==
  /\ changes < MaxChanges /\ changes' = changes + 1
  /\ \E f \in Files, x \in Valid \union {NoFile} : imported' = [imported EXCEPT ![f] = x]
  /\ UNCHANGED <<legacy, isolated, report, todo, expired, work, settled, History>>
===============================================================================
