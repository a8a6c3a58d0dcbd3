--------------------------- MODULE PermanentFiles ---------------------------
(***************************************************************************)
(* One permanent_*.json file and the watchlist rows the poller's            *)
(* WatchlistFileWatcher keeps for it (src/shared/watchlist.py): the load at *)
(* start, the periodic check with a relay's hold (poller/hot_reload_hold),  *)
(* and the hands that write the file and the rows meanwhile: an editor, a   *)
(* relay's git apply, the web API's merge and delete, a poller restart.     *)
(*                                                                          *)
(* The content of an entry is an edition (an entry without an id or an      *)
(* identifier is skipped by the watcher and so none); the file's mtime is   *)
(* known only by whether the watcher's record of it still equals it.  A     *)
(* round of the watcher looks at the hold once and then comes to its four   *)
(* files in turn, this one among them: `Due` is the time in between.        *)
(*                                                                          *)
(* Overlap = TRUE is the deployment.  Overlap = FALSE assumes that the file *)
(* is not written between the check that finds it changed and the end of    *)
(* that load; holds, API deletes, restarts and, in a round, writes before   *)
(* that check fall anywhere all the same.                                   *)
(***************************************************************************)
EXTENDS Naturals, FiniteSets

CONSTANTS Ids,
          Editions,
          Overlap,
          Faults,      \* what may fail: subset of {"crash", "db", "merge_broken"}
          MaxEvents    \* bound on what happens outside the watcher

ASSUME FilesAssumption ==
    /\ Editions \subseteq Nat \ {0}
    /\ Overlap \in BOOLEAN
    /\ Faults \subseteq {"crash", "db", "merge_broken"}
    /\ MaxEvents \in Nat

VARIABLES file,        \* what is on disk
          hold,        \* the relay's sentinel
          rows,        \* id -> the edition in watchlist_entries
          seen,        \* _mtimes, against the file's mtime
          loaded,      \* _loaded_ids
          watcher,     \* what the watcher is doing
          events,      \* bound
          meant,       \* the list as its writers mean it
          before,      \* the list as it was when the hold was touched
          slipped,     \* since then a round that had not seen it found the file written
          withdrawn    \* ids whose row the API deleted since its last upsert

vars == <<file, hold, rows, seen, loaded, watcher, events, meant, before, slipped, withdrawn>>
ghosts == <<meant, before, slipped, withdrawn>>

NoRow   == 0
Lists   == [Ids -> Editions \cup {NoRow}]
Empty   == [i \in Ids |-> NoRow]
On(list) == {i \in Ids : list[i] # NoRow}

Missing    == [kind |-> "missing"]
Broken     == [kind |-> "not JSON"]
Wrong      == [kind |-> "not an object"]      \* JSON, but of another shape
Text(list) == [kind |-> "JSON", list |-> list]
Files      == {Missing, Broken, Wrong} \cup {Text(list) : list \in Lists}
Good       == file.kind = "JSON"

Down == [pc |-> "down"]       \* the poller is not running
Dead == [pc |-> "dead"]       \* it runs, the watcher's thread has ended
Idle == [pc |-> "idle"]
Due  == [pc |-> "due"]        \* in a round that was not held, before it comes to this file

Reading  == [pc : {"read"}, startup : BOOLEAN]
Stating  == [pc : {"stat"}, startup : BOOLEAN, list : Lists]
Applying == [pc : {"apply"}, startup : BOOLEAN, list : Lists,
             mtime : {"absent", "current", "old"}, puts : SUBSET Ids, drops : SUBSET Ids]

TypeOK ==
    /\ file \in Files
    /\ hold \in {"none", "held", "stale"}
    /\ rows \in [Ids -> Editions \cup {NoRow}]
    /\ seen \in {"never", "absent", "current", "old"}
    /\ loaded \subseteq Ids
    /\ watcher \in {Down, Dead, Idle, Due} \cup Reading \cup Stating \cup Applying
    /\ events \in 0 .. MaxEvents
    /\ meant \in Lists /\ before \in Lists /\ slipped \in BOOLEAN
    /\ withdrawn \subseteq Ids

Init ==
    /\ meant \in Lists /\ before = meant /\ slipped = FALSE
    /\ file = Text(meant)
    /\ hold = "none"
    /\ rows = [i \in Ids |-> NoRow]
    /\ seen = "never"
    /\ loaded = {}
    /\ watcher = Down
    /\ events = 0
    /\ withdrawn = {}

-----------------------------------------------------------------------------
(* The hands on the file, the sentinel and the rows.                        *)

Loading == watcher.pc \in {"read", "stat", "apply"}

Event == events < MaxEvents /\ events' = events + 1

(* The file changes on disk: an mtime on record is the file's no more.      *)
Write(f) ==
    /\ Event
    /\ Overlap \/ ~Loading
    /\ file' = f
    /\ seen' = IF seen = "current" THEN "old" ELSE seen
    /\ watcher' = IF watcher.pc = "apply" /\ watcher.mtime = "current"
                  THEN [watcher EXCEPT !.mtime = "old"] ELSE watcher
    /\ slipped' = (slipped \/ (hold = "held" /\ watcher = Due))

(* An operator's edit, or a relay's git apply.                              *)
Edit ==
    /\ \E list \in Lists : Write(Text(list)) /\ meant' = list
    /\ UNCHANGED <<hold, rows, loaded, before, withdrawn>>

(* The file is half written, edited into something that is not JSON or not  *)
(* an object, or moved away: no one means its entries to go.                *)
Spoil ==
    /\ \E f \in {Missing, Broken, Wrong} \ {file} : Write(f)
    /\ UNCHANGED <<hold, rows, loaded, meant, before, withdrawn>>

(* _merge_permanent_file: entries already in the file win; a file that is   *)
(* missing or cannot be parsed counts as empty, another shape fails it.     *)
Merged(old, i, e) == IF old[i] = NoRow THEN [old EXCEPT ![i] = e] ELSE old

Merge ==
    /\ Good \/ ("merge_broken" \in Faults /\ file # Wrong)
    /\ \E i \in Ids, e \in Editions :
         /\ Write(Text(Merged(IF Good THEN file.list ELSE Empty, i, e)))
         /\ meant' = Merged(meant, i, e)
    /\ UNCHANGED <<hold, rows, loaded, before, withdrawn>>

(* remove_watchlist_entry: a row goes, the file keeps the entry.            *)
ApiDelete ==
    /\ Event
    /\ \E i \in Ids :
         /\ rows[i] # NoRow
         /\ rows' = [rows EXCEPT ![i] = NoRow]
         /\ withdrawn' = withdrawn \cup {i}
    /\ UNCHANGED <<file, hold, seen, loaded, watcher, meant, before, slipped>>

(* A relay touches the sentinel before it applies its batch, ...            *)
Touch ==
    /\ Event
    /\ hold = "none"
    /\ hold' = "held"
    /\ before' = meant /\ slipped' = FALSE
    /\ UNCHANGED <<file, rows, seen, loaded, watcher, meant, withdrawn>>

(* ... and removes it after its rollout, or leaves it behind for six hours. *)
Release ==
    /\ hold # "none"
    /\ hold' = "none"
    /\ UNCHANGED <<file, rows, seen, loaded, watcher, events, ghosts>>

Age ==
    /\ hold = "held"
    /\ hold' = "stale"
    /\ UNCHANGED <<file, rows, seen, loaded, watcher, events, ghosts>>

-----------------------------------------------------------------------------
(* WatchlistFileWatcher                                                     *)

(* start: the file is loaded at once, held or not.                          *)
Start ==
    /\ watcher = Down
    /\ watcher' = [pc |-> "read", startup |-> TRUE]
    /\ seen' = "never" /\ loaded' = {}
    /\ UNCHANGED <<file, hold, rows, events, ghosts>>

(* The file's mtime, 0.0 for a file that is not there, is not the recorded. *)
Changed == IF file = Missing THEN seen # "absent" ELSE seen # "current"

Look_Unheld ==         \* mutant: the periodic check knows no hold
    /\ watcher = Idle
    /\ watcher' = Due
    /\ UNCHANGED <<file, hold, rows, seen, loaded, events, ghosts>>

Look_Records ==        \* mutant: a held check records the mtime it sees
    /\ watcher = Idle
    /\ IF hold = "held"
       THEN /\ seen' = IF file = Missing THEN "absent" ELSE "current"
            /\ UNCHANGED watcher
       ELSE watcher' = Due /\ UNCHANGED seen
    /\ UNCHANGED <<file, hold, rows, loaded, events, ghosts>>

(* _check_for_changes, once a minute: the hold is looked at, ...            *)
Look ==
    /\ watcher = Idle
    /\ hold # "held"
    /\ watcher' = Due
    /\ UNCHANGED <<file, hold, rows, seen, loaded, events, ghosts>>

(* ... and then each file's mtime, which only a load records.               *)
Check ==
    /\ watcher = Due
    /\ watcher' = IF Changed THEN [pc |-> "read", startup |-> FALSE] ELSE Idle
    /\ UNCHANGED <<file, hold, rows, seen, loaded, events, ghosts>>

(* _load_file: a missing file is recorded as such, one that does not parse  *)
(* is not recorded at all; the rows stay.                                   *)
ReadMissing ==
    /\ watcher.pc = "read" /\ file = Missing
    /\ seen' = "absent"
    /\ watcher' = Idle
    /\ UNCHANGED <<file, hold, rows, loaded, events, ghosts>>

ReadBroken_AsEmpty ==  \* mutant: a file that does not parse counts as empty
    /\ watcher.pc = "read" /\ file = Broken
    /\ watcher' = [pc |-> "stat", startup |-> watcher.startup, list |-> Empty]
    /\ UNCHANGED <<file, hold, rows, seen, loaded, events, ghosts>>

ReadBroken_Goes ==     \* mutant: the parse error is not caught
    /\ watcher.pc = "read" /\ file = Broken
    /\ watcher' = [pc |-> "stat", startup |-> watcher.startup, list |-> Broken]
    /\ UNCHANGED <<file, hold, rows, seen, loaded, events, ghosts>>

ReadBroken ==
    /\ watcher.pc = "read" /\ file = Broken
    /\ watcher' = Idle
    /\ UNCHANGED <<file, hold, rows, seen, loaded, events, ghosts>>

(* Not an object: the error is another than those _load_file catches, so    *)
(* it ends the start, and the poller with it, or the watcher's thread.      *)
LoadRaises == watcher' = IF watcher # Due /\ watcher.startup THEN Down ELSE Dead

ReadWrong ==
    /\ watcher.pc = "read" /\ file = Wrong
    /\ LoadRaises
    /\ UNCHANGED <<file, hold, rows, seen, loaded, events, ghosts>>

ReadList ==
    /\ watcher.pc = "read" /\ Good
    /\ watcher' = [pc |-> "stat", startup |-> watcher.startup, list |-> file.list]
    /\ UNCHANGED <<file, hold, rows, seen, loaded, events, ghosts>>

Stat_DropsNone ==      \* mutant: removals are not looked for
    /\ watcher.pc = "stat"
    /\ watcher' = [pc |-> "apply", startup |-> watcher.startup, list |-> watcher.list,
                   mtime |-> IF file = Missing THEN "absent" ELSE "current",
                   puts |-> On(watcher.list), drops |-> {}]
    /\ UNCHANGED <<file, hold, rows, seen, loaded, events, ghosts>>

(* The mtime to record is read after the text; removed are the ids this     *)
(* process loaded before and does not find now.                             *)
Stat ==
    /\ watcher.pc = "stat"
    /\ watcher' = [pc |-> "apply", startup |-> watcher.startup, list |-> watcher.list,
                   mtime |-> IF file = Missing THEN "absent" ELSE "current",
                   puts |-> On(watcher.list),
                   drops |-> loaded \ On(watcher.list)]
    /\ UNCHANGED <<file, hold, rows, seen, loaded, events, ghosts>>

Upsert ==
    /\ watcher.pc = "apply"
    /\ \E i \in watcher.puts :
         /\ rows' = [rows EXCEPT ![i] = watcher.list[i]]
         /\ watcher' = [watcher EXCEPT !.puts = @ \ {i}]
         /\ withdrawn' = withdrawn \ {i}
    /\ UNCHANGED <<file, hold, seen, loaded, events, meant, before, slipped>>

Drop ==
    /\ watcher.pc = "apply" /\ watcher.puts = {}
    /\ \E i \in watcher.drops :
         /\ rows' = [rows EXCEPT ![i] = NoRow]
         /\ watcher' = [watcher EXCEPT !.drops = @ \ {i}]
    /\ UNCHANGED <<file, hold, seen, loaded, events, ghosts>>

Record ==
    /\ watcher.pc = "apply" /\ watcher.puts = {} /\ watcher.drops = {}
    /\ loaded' = On(watcher.list)
    /\ seen' = watcher.mtime
    /\ watcher' = Idle
    /\ UNCHANGED <<file, hold, rows, events, ghosts>>

(* A database error in a load, of this file or, in a round, of one before:  *)
(* nothing catches that either.                                             *)
DbError ==
    /\ "db" \in Faults /\ Event
    /\ watcher = Due \/ (watcher.pc = "apply" /\ watcher.puts \cup watcher.drops # {})
    /\ LoadRaises
    /\ UNCHANGED <<file, hold, rows, seen, loaded, ghosts>>

Crash ==
    /\ "crash" \in Faults /\ Event
    /\ watcher # Down
    /\ watcher' = Down
    /\ UNCHANGED <<file, hold, rows, seen, loaded, ghosts>>

Watch ==
    \/ Look \/ Check \/ ReadMissing \/ ReadBroken \/ ReadWrong \/ ReadList
    \/ Stat \/ Upsert \/ Drop \/ Record

Next ==
    \/ Edit \/ Spoil \/ Merge \/ ApiDelete \/ Touch \/ Release \/ Age
    \/ Start \/ Watch \/ DbError \/ Crash

Spec == Init /\ [][Next]_vars

(* The container is restarted, the loop comes round every minute, and a     *)
(* hold ends: released, or six hours old.                                   *)
FairSpec == Spec /\ WF_vars(Start) /\ WF_vars(Watch) /\ WF_vars(Release \/ Age)

-----------------------------------------------------------------------------
(* Properties.                                                              *)

(* The watcher deletes the row of an entry only when its writers mean it to *)
(* go: not because the file could not be read, was away for a while, or was *)
(* re-read after a restart ("keeping existing DB entries", _load_file).     *)
OnlyDroppedLeave ==
    [][\A i \in Ids :
          (watcher' # watcher /\ rows[i] # NoRow /\ rows'[i] = NoRow)
             => i \notin On(meant)]_vars

(* A periodic load writes a row otherwise than the file had it before the   *)
(* relay touched the hold that is on.                                       *)
GoesLive(i) ==
    /\ hold = "held" /\ watcher.pc = "apply" /\ ~watcher.startup
    /\ watcher' # watcher /\ rows'[i] # rows[i] /\ rows'[i] # before[i]

(* While a relay holds the reload, no change made under the hold reaches    *)
(* the rows, however the hold, the rounds and the loads interleave, but by  *)
(* a start or by the one round that had looked before the hold was touched  *)
(* and comes to the file after it was written.                              *)
HeldChangesWait == [][\A i \in Ids : GoesLive(i) => slipped]_vars

(* "A relay touches it BEFORE the apply", and then "the periodic hot-reload *)
(* is skipped" (hot_reload_hold), "so a batch applied to the checkout       *)
(* cannot go live before its rollout" (poller/main.py): without exception.  *)
NothingGoesLive == [][\A i \in Ids : ~GoesLive(i)]_vars

Listed(i, e) == Good /\ file.list[i] = e

(* An entry in the file reaches its row, however often the poller restarts  *)
(* and the reload is held meanwhile, unless the file changes again, the API *)
(* deletes the row, or the watcher's thread has died.                       *)
ChangesReachRows ==
    \A i \in Ids, e \in Editions :
        Listed(i, e) ~> (\/ rows[i] = e \/ i \in withdrawn
                         \/ ~Listed(i, e) \/ watcher = Dead)

(* An entry this run of the poller has loaded leaves with its line in the   *)
(* file ("Detects removals", WatchlistFileWatcher).                         *)
DroppedLeave ==
    \A i \in Ids :
        (i \in loaded /\ Listed(i, NoRow))
           ~> (\/ rows[i] = NoRow \/ ~Listed(i, NoRow)
               \/ watcher \in {Down, Dead})

(* A dead thread is no excuse: "changes are picked up within ~65 seconds,   *)
(* no restart needed" (watchlist_README).                                   *)
NoRestartNeeded ==
    \A i \in Ids, e \in Editions :
        Listed(i, e) ~> (rows[i] = e \/ i \in withdrawn \/ ~Listed(i, e))
=============================================================================
