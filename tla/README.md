# Dispatch: a verification development

TLA+ modules, TLC runs and TLAPS proofs about the parts of this repository where
several processes decide together: who may say that a flight has left the gate,
what the poller does with what it is told, what reaches the operator's phone,
which of push and poll brings a feed, when an edited watchlist takes effect, and
who may have a request in flight on the model server. Paths below are relative
to the repository (`src/common/db.py` is `src/src/common/db.py` in
`PROJECT.json`).

- [1. The system](#1-the-system)
- [2. Modules and how they correspond to the code](#2-modules-and-how-they-correspond-to-the-code)
- [3. Runs: what is checked, with which bounds](#3-runs-what-is-checked-with-which-bounds)
- [4. Proofs](#4-proofs)
- [5. Where the code and its documentation disagree](#5-where-the-code-and-its-documentation-disagree)
- [6. What is not modelled, and why](#6-what-is-not-modelled-and-why)
- [7. Plan](#7-plan)

## 1. The system

Dispatch is a set of containers on one host that share a Postgres database, a
volume of state files and an ntfy server. No container calls another directly,
with the exception of HTTP calls to the web process.

| Component | State | Operations | Hard behaviours |
|---|---|---|---|
| **OOOI authority gate** `common/db.py` 6981-7387 | the OOOI, lock and track columns of `watchlist_entries`; `feed_state` | `update_watchlist_oooi_phase_authoritative`, `_oooi_authority_check`, `swim_is_live`, `record_oooi_local_track` | called by four containers at READ COMMITTED without row locks; two reads, a judgement on a third, then updates by id |
| **Flight watch sweep** `poller/main.py` 560-1463, `shared/watchlist.py` 828-1002 | the entries; one snapshot per tick | a check per entry, landed/dead sweep, expiry | snapshots as old as a tick; network calls between read and write; restarts; permanent entries that outlive a flight |
| **SMES and TFMS parsers** `ingest/parsers` | none of their own | write phases through the gate | reordered and estimated times, SWIM outages |
| **Watchlist API** `web/routes/watchlist.py` | entries | add (and seed from TFMS), edit, remove | races with the sweep |
| **Push policy** `common/push_policy.py`, `push_policy_registry.py` | `push_policy_state`, a row per (kind, entity, sub id) | `decide`: load, judge, store | load and store in separate transactions; callers in several containers; drift, missing values, reminders |
| **Alert pipeline** `watchlist_event_hit`, `_fire_ntfy_dual` in `shared/watchlist.py`; `push_watchlist_retries` in the pusher | `watchlist_history.ntfy_fired` | decide, send, record, retry | lost pushes, crashes between decide, send and record |
| **Push dedup** `common/push_dedup.py` | a JSON file, a cached copy per process | `should_push`, `should_push_periodic`, `record` | copies made stale by another process; merge and replace under a flock; check, send and record are three steps |
| **Pusher** `pusher/main.py` | one-time markers and give-up state files; the dedup file | VIP baseline, window corrections, SECURITY cutover, widen correction, TFR pushes; CPS, landings, retries | the order of markers, classing fetch and pushes; exceptions and restarts between send, record and marker |
| **Push ingest and failover** `ingest/swim_client.py`, `failover.py`; `FetchLoop` in `poller/main.py` | a connection per feed, `feed_state` rows `push:*`, a pool of two stamping threads | connect, drain, pause, suspend, stamp health; the poller skips a feed that push serves | stamps overtaking each other, restarts of either side or both, pauses that are not outages |
| **Train watch** `poller/main.py` 2174-2416, `watchlist.py` 1025-1105 | phase and last event of train entries, their policy slot | derive a phase, write it, push late / arrived / en route, landed and dead sweep | answers that lag; a slot and an entry that outlive the run; a sweep that trusts the text of the last push |
| **Watchlist files and cache** `watchlist.py` 1239-1374, `hot_reload_hold.py`, `web/routes/watchlist.py` 1030-1110, `db.py` 2890-2936 | the file; mtimes and loaded ids in memory; a 3 s cache with a generation | hot reload and its hold, merge, delete; invalidate | half-written files, restarts, holds touched during a load |
| **LLM lanes** `common/brief_lane.py`, `llama_pool.py`, `llm.py` 676-812, `scripts/local-llm-synthesize.sh`, the unit files | three lock files, `CTDC_LLM_LANE` | acquire a lane or give up, promote, queue for a generation, post | kinds of process that take different locks; bounded and unbounded waits; kills |
| **Governance and agent gateway** `common/governance.py`, `agent_gateway.py` | approvals, codes, tokens | sign, convene, grant, refresh | single use, expiry |
| **Everything else** (fetchers, skills, resolvers, second brain, demo, runner) | tables they own | fetch and upsert; read and write a report | none across processes |

What makes each of the first group correct:

- *Gate*: phases only move forward; a source asserts only what it is entitled
  to; SWIM, while it is up, is not overridden; the lock of a row is not lowered
  and covers the source it shows. However calls overlap.
- *Watch*: no phase before the aircraft has reached it; "landed" removes what
  has landed; what has landed is removed; a permanent entry is not; what is
  pushed agrees with what is on record.
- *Alerts*: the operator is told once, again only when something changed or a
  reminder is due, and never less than the threshold behind; "pushed" means
  received.
- *Dedup file and TFR alerts*: the processes that share the file see one map;
  nothing counts as given that was not; what is published is heard in the end;
  a rollout pages nobody about what stood before.
- *Push and poll*: a gap in the data is bounded by the sum of the windows; both
  do not fetch at once; a restart of both is not an outage.
- *Watchlist files*: rows follow the file, no row goes that its writers did not
  take out, and a held batch waits.
- *Trains*: phases only move forward within a row; what was told keeps up with
  what was seen; a watch ends, and not before its operator was told.
- *Lanes*: one long report in flight on the server; one promoted brief beside
  it; a brief is never skipped because of a report; a dead process holds nobody
  up.

The hazards in `PROJECT.json` list where each of these can go wrong, at the
line, with the property that catches it or the module planned for it.

## 2. Modules and how they correspond to the code

```
OooiAuthority     who may assert what (pure operators)
   |
OooiLedger        the promise: a claim is judged and applied in one step
   |        \
OooiGate      FlightWatch        PushPolicy   decide (pure operators)
   |              |                |       \
   |              |          AlertPipeline  TrainWatch
   |              |                |             |
MCOooiGate   MCFlightWatch  MCAlertPipeline  MCTrainWatch

DedupMap          the promise: one shared map
   ^ (implements)
PushDedup         the file, its copies, its lock
   |
TfrAlerts         fetch, pusher and skill around it
   |
MCTfrAlerts

PushFallback      a push session, its stamps, and the poller that stands in
PermanentFiles    a watchlist file and the rows kept for it
LlmLanes          the locks around the model server
   |
MC...             (these three share no state with the rest)
```

Each of these components has a module of proofs that extends its module
(`..._proofs`); what is proved about PushDedup is the first part of
`TfrAlerts_proofs`.

**OooiAuthority** holds the tables `_OOOI_SOURCE_TIER`, `_OOOI_SOURCE_PRIORITY`
and the functions over them. `Barred`, `LocalEscape` and `OutranksLock` are the
three parts of `_oooi_authority_check` in the order of the code, `Allowed` the
whole of it; `Regressive` and `OutrankedTie` are the two early returns of the
gate; `Asserted` is the effect of its UPDATEs on a row, `TakesLock` the WHERE of
the second one. Phases are ordered by `PhaseIndex`; a source of unknown name
does not occur, since every caller passes a literal.

**OooiLedger** is the abstract specification: entries are added, edited,
removed, tracked by a local receiver, and a claim is judged against the row and
applied to it in one step (`AssertPhase`), with any answer to "is SWIM live".

**OooiGate** is the code's sequence of statements. A writer is a caller; its
transaction goes through `Begin` (first SELECT and early returns), `ReadLock`
(second SELECT), `Judge` (`swim_is_live` on another connection and the
authority check) and `Commit` (the UPDATEs, by id). `Abort` is an exception, a
lost connection or a restart. `feeds` are the `feed_state` rows of the SWIM
feeds: any fresh one, or none at all, is live, and an unreadable table answers
live. The other writers of the same columns are `EntryWrite`. `Overlap` tells
the deployment (`TRUE`) from the assumption under which the gate keeps the
ledger's promise (`FALSE`: while a claim about an entry is being judged no other
write to that entry starts). The assumption is not enforced by the code: it is
what a `SELECT ... FOR UPDATE` would give.

**FlightWatch** is the watch around the gate. `actual` is the aircraft itself:
the sources can only report what has happened, except where the code takes
their word for more (`TfmsTimes`, the airline's posted times; `AcarsAnswers`,
an ACARS window keyed by tail that may hold the inbound leg). A tick is
`StartTick` (snapshot, `get_active_entries`), a visit per entry
(`CheckTracked`, `CheckOverdue`, `CheckInferred`, `CheckDark`: the branches of
`_check_flight_airplanes_live`, any of which may apply since the schedule and
the position are data left out), `StartSweep` (a second snapshot), a visit per
transient entry (`SweepLanded`, `SweepStale`, `SweepKeeps`) and `EndTick`.
Decisions are taken on the snapshot and applied to the row of the moment, as in
the code. `SmesEvent`, `TfmsTimes` and `AddFlight`, `DeleteFlight`, `Expire` are
the other containers, at any moment in between; `PollerRestart` drops the tick.
`emitted` records what the last step pushed or wrote to the history.

A gate call is one step here (OooiLedger's), and so are an accepted phase with
its push, a removal with its history row, and an upsert with its seed. OooiGate
looks inside the first; the others are listed as hazards without a property.

**PushPolicy** is `_decide_stateful` for each class of rule: milestone and
status (identity), ops (state and reminder), change (identity, then its times or
numbers compared with those last fired), approval, and the kinds no rule is
registered for. A semantic hash and its fields become an identity and a function
from the times the rule compares to instants, minutes or miles on one scale. A
rule may compare several (the airline's `out`, `off`, `on`, `in`): only those
both sides have are compared, one that moved enough will do, and what is stored
is the times of the hit at hand.

**AlertPipeline** is the path of a hit: `LoadHit` reads the slot's row,
`Suppress` / `Store` judge it and write the row *before* the send as the code
does, `StoreFails` is the second transaction failing (the push goes out
regardless), `PassHit` the requests decided without state (very urgent ones,
approvals, unregistered kinds; the older `_check_dedup` that an unregistered hit
still goes through is a dedup by content, and a hit it drops is one that does not
come), `Send` the posts,
`RecordHit` the history row, `RetrySweep` the pusher's, `Crash` a container
restart. `heard`, `fired` and `offered` only record what happened and no guard
reads them. `busy` fixes which slots are in play in a behaviour: slots share
nothing but the callers, so one at a time is enough, and the runs take each in
turn.

**LlmLanes** has a process for each brief, report unit, synthesis script and
skill. `unit`, `hot` and `long` are the holders of `long-runner-unit.lock`,
`hot-lane-unit.lock` and `long-runner.lock`; a flock belongs to its process, so
`End` (exit, failure, a queue wait given up, a kill by the poller's 2000 s, by
systemd or by a restart) frees all of them. A brief's round is two steps,
`TryLong` and `TryHot`, since the locks are tried one after the other; `waited`
counts rounds instead of seconds. `Generate` is the routing of
`ollama_post_with_retry`: a promoted process posts, any other queues for `long`.
A script goes from its lock to its request at once, and never takes `long`. The
council responder takes `long` only and is one of the skills; what a queuing
process gives up is an `End`. Briefs may be started with the override in their
environment, as their tests have it; nothing sets it for the others. Requests of
the hot and chat tiers take no lock and change nothing here.

**DedupMap** is what the users of a dedup file rely on: a map from slot to the
content last recorded, every question answered from it and every record changing
it in one step, at its own slot only (expired slots may vanish with any record).

**PushDedup** is the file. `cache` is each process's copy with whether the mtime
it remembers is still the file's, `call` how far it is in a question (`Ask`: the
stat; `Hit`, or `Miss` and `Reload`) or a record (`Record`, then `Take`: the
flock, the read and the merge; `Replace`: `os.replace`; `Restat`: its own copy
and mtime). `Die` and `Abandon` end a call anywhere. `Coarse` says whether two
replaces may fall in one tick of the file system's clock.

**TfrAlerts** composes it with its two users and the table between them: the
FAA's list, the poller's fetch (`FetchStart`, `FetchDetails`, an `Upsert` per
TFR, `ExpireTfrs`, `FetchStamp`), and the pusher, one thread whose loop `job` is
at one of `vip_cutover_baseline` (start-up only), `vip_window_corrections`,
`tfr_security_cutover`, `tfr_security_widen_corrections` and `push_vip_tfrs`.
Each reads the table once and then visits its rows; each visit is a question, a
send, a record, as separate steps. `markers` and `waits` are the marker and
state files on disk. A function may raise (`JobFails`) and the pusher or the
skill die anywhere. The enrichment skill asks by period and records whatever its
sends achieved. The window, and of most SECURITY TFRs the reason to push, are in
a detail record: it is fetched for each text of the list, may be newer than the
list by then, falls back on the last one known when the fetch fails, and is kept
in the poller's memory only (`details`, lost in `PollerRestart`). A row is the
text, the text its detail is of, and whether the present fetcher has classed it;
`EndOf` gives the end of the window in a detail. The pusher sees the rows
through `Active`, the window filter of `get_active_tfrs`: a row leaves its list
when its window is over and comes back when the window is gone or moved.
`Reasoned` is "has push reasons", `VipClass` that or type VIP. `heard`,
`silenced`, `last` and `fixed` only record what happened. `day` is a bound: what
may still happen.

**PushFallback** is one feed. `ses` is where `_run_loop` and
`_connect_and_receive` are; `ReplayPause`/`ReplayResume` are the load-gated
replay with its budget per connection, `Suspend`/`Resume` and `Hold`/`LetGo` the
bandwidth priority with and without a connection. Every `_db_pool.submit` puts a
job in `pool`; two threads `Take` (what `mark_push_healthy` and
`mark_push_down` read) and `Commit` (`upsert_feed`) in any order; a failing
database drops one. `poller` runs `FetchLoop.maybe_run` as two steps, the look
at the row (`Defer`, `Stale`, or `Unread` when the read fails, which counts as
"poll") and what follows (`Graced`, `Fetch`); the second read, of the grace, may
fail too. A fetch is made and not waited for: one that raises is logged and the
next period comes, so what is claimed is about fetches made. `Holdoff` is the
poller's hold-off with the loop's stagger slot and `Grace` the grace less that
slot; `MaxJobs` bounds the model's pool, the code's queue has no bound. A restart
begins hold-off and grace anew. Times are ages counted in ticks, and `Quiet`
says what must be done before a tick ends. `gap`, `steady` and `joined` only
record.

**PermanentFiles** is the watcher's round and load statement by statement:
`Look` (the hold, once a round), `Check` (the file's mtime, when the round comes
to it), `Read...` (the text), `Stat` (the mtime to record, and the ids to
remove, from the ids this process loaded), an `Upsert` and a `Drop` per row,
`Record`. The file may be edited, merged into by the API, half written or moved
away; rows be deleted by the API; the hold be touched, released or grow stale;
the poller crash, the database fail. One file of the four is modelled: `Due`,
between `Look` and `Check`, also stands for the loads of the files before it,
which may raise (`DbError`). A text that is JSON but not an object (`Wrong`)
raises out of the load and ends the thread, or at a start the poller; an entry
without an id or an identifier is skipped and so not in the list. `meant` is the
list as its writers mean it, which a file that cannot be read does not change.
`Overlap` tells the deployment from the assumption that the file is not written
during a load.

**TrainWatch** is the train sweep for one entry over the runs of its train
number: `Fetch` (the entry as read, and an answer that may lag within the run),
`Persist` (`update_train_phase`), `Quiet`, `Suppress` or `Push` (the summary
against the last event of this run, then PushPolicy's decision on the slot),
`SweepLanded`; `Expire`, `Add`, `Delete` and a `Crash` in between. How a push is
stored, sent and recorded is AlertPipeline's matter and one step here.

Operators whose comment says *mutant* are plausible wrong versions of the
definition that follows. No specification uses them: they show that a property
would notice.

## 3. Runs: what is checked, with which bounds

| Run | Module, configuration | Expectation | Checks |
|---|---|---|---|
| `gate` | MCOooiGate, `_serial` | pass | GateTypeOK, EntitledPhase, LockCoversSource, PhaseForward, SwimStands, ImplementsLedger |
| `gate_backward` | MCOooiGate, `_backward` | violation | PhaseForward |
| `watch` | MCFlightWatch, `_watch` | pass | TypeOK, PhaseEarned, LandedSweepTruth, LandedIsSwept |
| `watch_inbound` | MCFlightWatch, `_inbound` | violation | LandedSweepTruth |
| `alert` | MCAlertPipeline, `_decided` | pass | TypeOK, DriftBounded, NoRepeat, HeartbeatSpaced |
| `tfr` | MCTfrAlerts, `_tfr` | pass | TypeOK, NothingSwallowed, CorrectedOnce, ImplementsMap, OncePerRetention, RolloutIsQuiet, ChangeReachesOperator |
| `push` | MCPushFallback, `_push` | pass | TypeOK, GapCovered, NoNeedlessFetch, ShedIsQuiet |
| `files` | MCPermanentFiles, `_files` | pass | TypeOK, OnlyDroppedLeave, HeldChangesWait, ChangesReachRows, DroppedLeave |
| `train` | MCTrainWatch, `_train` | pass | TypeOK, DelayTold, PhaseForward, LandedTold, TransientEnds |
| `train_new_run` | MCTrainWatch, `_new_run` | violation | NewRunHeard |
| `lanes` | MCLlmLanes, `_lanes` | pass | TypeOK, LocksHeld, LongRunnersExclude, SkippedBehindABrief, BriefDecides |
| `lanes_together` | MCLlmLanes, `_together` | violation | OneLongRunner |

Deadlock is checked in every run but `files`, `train` and `train_new_run`, where
the file may come to rest, and where a train's last run may be over.

**gate.** `Overlap = FALSE`. One entry, two callers (symmetric), two SWIM feeds,
two local receivers, every route coverage, and the claims of `MCClaims`: every
phase from the two sources that race in practice, and each phase that a rule of
the authority check singles out from ADS-B, FIDS, the airline, a local receiver
and inference. Entries do not share columns, so one is enough; two callers
exhaust the pairs of overlapping statements; two feeds tell "any fresh" from
"all fresh". It shows that every call takes effect in one step of OooiLedger or
not at all (*ImplementsLedger*), and:

- *EntitledPhase*: an assertive phase was written by SWIM, an aggregator or a
  local receiver; ON and IN never by ADS-B.
- *PhaseForward*, *LockCoversSource*: over any sequence of
  claims, outages, edits, removals and re-additions.
- *SwimStands*: a row SWIM has locked takes an assertive phase from a lesser
  source only through a call that judged SWIM down. That it was down *at the
  commit* is not promised: `swim_is_live` is read on its own connection before.

**watch.** `FairSpec`. One entry, in two scenarios that `Init` chooses from: a
transient watch through one leg, and a permanent one through two legs whose tail
has an inbound leg in the ACARS window. Surface radar covers the destination and
not the origin, so that both kinds of phase occur; SWIM comes and goes; one
restart of the poller.

- *PhaseEarned*: no order of sweeps, feed messages, outages, deletions and
  restarts writes an assertive phase the aircraft has not reached, airline times
  for an airport without surface radar excepted, which the code accepts.
- *LandedSweepTruth*: the landed sweep, deciding on its snapshot, does not
  remove a flight that has not landed.
- *LandedIsSwept* (liveness): a transient entry that shows IN is removed. The
  only fairness is `WF_vars(Poller)`: `WatchlistSweep.run_all` runs from the
  poller's scheduler every two minutes, each call is bounded by timeouts, and an
  exception in one entry's check is caught and the next is visited. No fairness
  is assumed of the feeds, the aircraft, SWIM or the operator, and restarts are
  finitely many (`MaxRestarts`): a poller that restarts in every tick sweeps
  nothing. The rows at IN
  always carry a source of tier above 0, which is what makes the sweep accept
  them: EntitledPhase is the reason.

**alert.** `Overlap = FALSE`: no hit on the same slot between a hit's read and
write. Two callers (symmetric), clock 0..2 with a reminder period of 2, and one
slot of each class: a TBFM runway ETA (values missing, 0, 3 and 5 under a
threshold of 4 and a bucket of 2: a move below the threshold in the bucket and
outside, one above it, and back), the airline's out and off times (two of its
four, the second missing at first; informative, so that no smaller move is told
at all), miles-in-trail (only an increase counts), an ops state, an approval, a
kind no rule is registered for. The store may fail at either transaction and
callers crash anywhere.

- *DriftBounded*: after any sequence of judged values, stores failing or not,
  what was last fired has the identity of what was last judged, each time both
  carry is within the threshold, and (where smaller moves are told) all are in
  their buckets: small moves of a time the last push carried do not add up
  unnoticed. Of a time it did not carry the code promises nothing
  (DeclaredMovesTold, section 5).
- *NoRepeat*, *HeartbeatSpaced*: a push repeats nothing unchanged, and reminders
  keep their period.

**lanes.** `FairSpec`. Two briefs (one promoted, one behind it), a report unit, a
synthesis script, two skills; `LongFirst = 1` and `Budget = 2`, so that a brief
has a round of each sort: long lane alone, both, both for the last time.

- *LocksHeld*: each lock is with exactly the process the code means. A report
  that holds `unit` waits for `long`, and the holder of `long` has its request in
  flight and waits for no lock: there is no cycle.
- *LongRunnersExclude*: of the four kinds only a script and a skill can have long
  requests in flight together. Every other pair shares a lock.
- *SkippedBehindABrief*: a brief exits 75 only while another brief is promoted.
- *BriefDecides* (liveness): a waiting brief takes a lane or exits, even if no
  lock is ever released. The fairness is `WF_vars` of the brief's own tries, its
  `while True` with a two-second sleep; none is assumed of anybody else. Whether
  a process that queues for `long` is ever served is not claimed: the lock is
  polled, and a release between two polls may go to another.

**tfr.** `FairSpec`. Five TFRs, one of each sort the code treats differently
(VIP, with a window that ends; SECURITY with presidential language, without
times; SECURITY; SECURITY with a widen correction; SECURITY with a reason in the
list item and a window that is over early), two texts, a clock of two with
`Retention = 1`, so that memories expire within the run. SECURITY without a
reason to push is not among them: nothing but the cutover looks at it.
Everything at once is beyond TLC; each day of `MCDays` lets one or two things
happen (a fault, an FAA change, an hour, the skill) to one or two TFRs, from a
first start and from a state volume with the baseline done. The interplay of the
skill with the pusher is that of two processes on one file, and a TFR never
meets another but in the file.

- *ImplementsMap*: PushDedup's file is DedupMap, in this composition and with
  death at any point.
- *NothingSwallowed*: what the file says was told was sent, or silenced by a
  cutover.
- *OncePerRetention*: a text goes out again only past the retention or after a
  fault between send and record. *CorrectedOnce*: corrections, once per start of
  the function. *RolloutIsQuiet*: a SECURITY TFR that stood before the rollout
  and none of whose windows is over pages nobody, whichever of classing fetch and
  cutover comes first, details lost and found again included. Of one past its end
  it is false (OnlyNewPush, section 5).
- *ChangeReachesOperator* (liveness): a VIP-class text does not stay unheard
  while its row is active. A window that ends while the pusher waits, for a
  marker or for ntfy, takes the alert with it. Fairness: `SF(PusherStep \/
  Dedup(Pusher))` - the loop runs every 30 s, catches what its functions
  raise, and a waiter for the flock gets it once it is free again and again;
  `WF(Dedup(Skill))` - the skill leaves the lock; `SF(GivesUp)` - a state file
  two hours (a day) old is given up. Faults are finitely many; nothing is
  assumed of the FAA or the fetch.

**push.** A heartbeat every tick (30 s), a window of three (90 s), a REST interval
of three, hold-off one and grace two, a replay budget of two, a stamp committed
within one tick, the poller's loop late by at most one. Two stamps in the pool
are what two threads can reorder; two faults let session and poller restart
together, a stamp be lost and either crash, or both reads of a round fail.
`Flaps = FALSE`: a connection reaches its first receive.

- *GapCovered*: a session drains or a fetch is made at the latest `Budget + Delay
  + MaxAge + Interval + Round` after it stopped, once the poller is past its
  start, whichever reads fail. The bound is tight: one less is violated.
- *NoNeedlessFetch*: no fetch beside a session that has drained for more than
  `Heartbeat + 2 * Delay`, in whatever order its stamps were written; tight as
  well. A round whose read of the heartbeat failed is excepted, as
  `push_is_healthy` means it ("fail safe toward polling"); `amtrak.py` 8 ("exactly
  one of the two is active at a time") does not except it.
- *ShedIsQuiet*: before the grace is over only a feed whose session has been
  there since the poller started is stood in for.

**files.** `FairSpec`. `Overlap = FALSE`, two entries in two editions, four
outside events (a change, a hold, a fault and one more), faults: crash and
database.

- *OnlyDroppedLeave*: rows go only when their entry was taken out; not for a
  file missing, half written or read again after a restart.
- *HeldChangesWait*: what is changed under a hold reaches no row, a load begun
  before the hold included, except by a start, or by the one round that had
  looked before the hold was touched and comes to the file after it was written
  (`slipped`; without that exception it is NothingGoesLive, section 5).
- *ChangesReachRows*, *DroppedLeave* (liveness): an entry in the file reaches
  its row; an entry taken out leaves. Fairness: `WF(Start)` (the unit
  restarts), `WF(Watch)` (the thread comes round every minute), `WF(Release \/
  Age)` (a hold is released, or is ignored when six hours old). A thread that a
  database error or a file of another shape has ended is excused
  (NoRestartNeeded, section 5).

**train.** `FairSpec`. A permanent watch over two runs, a transient one of the
present run; delays of 0, 20, 24 and 40 minutes: not late, late, late within the
bucket and the threshold of that, and very late, the priority that passes all
rules.

- *PhaseForward*: answers that lag within a run do not pull a phase back.
- *DelayTold*: what was last told in a run keeps up with what the sweep saw.
- *LandedTold*: a watch removed as landed is of a train that has arrived, and
  the operator was told so.
- *TransientEnds* (liveness): a transient watch ends. Fairness: time passes
  (`WF(Tick)`, `WF(NextRun)`), a sweep begun goes on (`WF` of its later steps),
  and the expiry, which shares the loop with the sweep, has its turn
  (`SF(Expire)`).

The runs that expect a violation are section 5.

## 4. Proofs

`OooiGate_proofs` proves about `OooiGate`, for any sets of entries, writers,
feeds, claims, receivers and routes (with the typing assumptions of OooiLedger
and `Overlap` Boolean):

| Theorem | Statement | Assumes |
|---|---|---|
| `TypeCorrect` | `Spec => []GateTypeOK` | - |
| `Entitlement` | `Spec => []EntitledPhase` | - (any interleaving) |
| `Refinement` | `Spec => ImplementsLedger` | `~Overlap` |
| `ForwardOnly` | `Spec => PhaseForward` | `~Overlap` |
| `LockOnlyRises` | `Spec => LockNeverLowered` | `~Overlap` |
| `LockCovers` | `Spec => []LockCoversSource` | `~Overlap` |
| `SwimHolds` | `Spec => SwimStands` | `~Overlap` |

The inductive invariant is `GateTypeOK /\ FreshTxn`. FreshTxn says what a
transaction still knows when it commits: that its claim passed the check on the
columns it read (`JudgedClaim`, always) and, without overlap, that at most one
call is open on an entry and the row is still the one it read (`SawRow`). The
type invariant alone does not bound what `Commit` may write, since it writes a
verdict reached two steps earlier. From it:

- *Entitlement* needs only JudgedClaim and the lemma that `Allowed` lets an
  assertive claim through only from an entitled source; the row's present
  content is irrelevant, hence no assumption on overlap.
- *Refinement*: the initial states are the ledger's; `Commit` is the ledger's
  AssertPhase, because under SawRow the columns it judged are the row's;
  EntryWrite is the ledger's own; every other step stutters.
- *ForwardOnly*, *LockOnlyRises* follow from SawRow (not regressive; the lock
  read is the row's) and *LockCovers* from the type invariant, SawRow and the
  lemma that an accepted claim leaves a lock of at least its tier.

- *SwimHolds*: a commit below a SWIM lock was judged on that lock (SawRow), and
  the authority check lets a lesser source past it only when SWIM was judged
  down, a local receiver by its escape included.

Without overlap the gate's guarantees come out; with it ForwardOnly is false
(`gate_backward`), so the assumption cannot be dropped.

`FlightWatch_proofs` proves about `FlightWatch`, for any entries, routes,
scenarios and bounds on restarts and legs:

| Theorem | Statement | Assumes |
|---|---|---|
| `TypeCorrect` | `Spec => []TypeOK` | - |
| `PermanentEntriesStay` | `Spec => PermanentKept` | - |
| `NoPhaseEarly` | `Spec => []PhaseEarned` | `TailsClear` |
| `SnapshotsStayTrue` | `Spec => []SnapshotTrue` | `TailsClear` |
| `SweepsOnlyLanded` | `Spec => []LandedSweepTruth` | `TailsClear` |

The lemma `RowsChange` sorts every step by what it does to the rows: nothing, a
gate call by a source that is truthful or is the airline, the removal of a
transient entry, or its addition. TypeOK is inductive with SweepIsTransient,
without which a removal could hit any entry; the two give PermanentEntriesStay.
TailsClear (no entry watched for the day is on a tail whose inbound leg is still
in the ACARS window) makes ACARS truthful about transient entries, and cannot be
dropped: `watch_inbound` is the counterexample. PhaseEarned alone is not
inductive: the sweep acts on the snapshot and the gate yields to radar by the
row's route, so the invariant adds SnapshotEarned and RouteKept. A step keeps a
row earned because a gate call writes only what a truthful source has seen or
what the airline says where the route has no radar (`AcceptedEarned`), and an
earned row stays so because only a permanent entry flies another leg (`Onward`).

`AlertPipeline_proofs` proves about `AlertPipeline`, for any callers, slots,
rules and hits, and any threshold, bucket and reminder period:

| Theorem | Statement | Assumes |
|---|---|---|
| `TypeCorrect` | `Spec => []TypeOK` | - |
| `FreshState` | `Spec => [](TypeOK /\ StateFresh)` | - |
| `DriftIsBounded` | `Spec => []DriftBounded` | `~Overlap` |
| `NothingRepeats` | `Spec => NoRepeat` | `~Overlap`, `TimedHits` |
| `RemindersSpaced` | `Spec => HeartbeatSpaced` | `~Overlap` |

The inductive invariant is `TypeOK /\ StateFresh`; each property is then a case
analysis of what `Outcome` answers when the values it was given are those last
fired. DriftIsBounded holds of rules with any number of times, coming and going
from hit to hit, and speaks of those the last push carried, which are the ones
the code compares. Store failures and crashes are allowed throughout: a hit
pushed because the store failed was not decided, and counts neither as judged
nor as fired. TimedHits (a change rule that does not insist on a time gets only
hits with one it compares) is what a kind without times breaks, see section 5;
with `Overlap` NoRepeat is false (section 5 as well).

`LlmLanes_proofs` proves about `LlmLanes`, for any sets of processes and any
waits:

| Theorem | Statement | Assumes |
|---|---|---|
| `TypeCorrect` | `Spec => []TypeOK` | - |
| `LocksAreHeld` | `Spec => [](TypeOK /\ LocksHeld)` | - |
| `OneIsPromoted` | `Spec => []OnePromoted` | - |
| `LongRunnersExcluded` | `Spec => []LongRunnersExclude` | - |
| `NeverTwo` | `Spec => []OneLongRunner` | no scripts, or no skills |
| `ReportsCostNoBrief` | `Spec => SkippedBehindABrief` | `LongFirst <= Budget` |

LocksHeld is inductive with TypeOK. It speaks of each process by itself
(`HeldBy`), and the lemma `OnlyActor` says once that a step of one process, which
moves a lock at most between itself and nobody, leaves the others' account of
their locks true; what is left is each action and its own process. The
exclusions follow state by state: two holders of one lock are the same process.
NeverTwo is the rule as the documentation has it, under the condition it needs
(`lanes_together` without it). The unit files say 60 and 600 seconds; the code
accepts any pair, and with a budget below the wait a brief never tries the hot
lane at all.

`TfrAlerts_proofs` proves about PushDedup, for any processes, slots, contents and
clock, deaths included, and about `TfrAlerts`, for any TFRs, texts, faults and
days:

| Theorem | Statement | Assumes |
|---|---|---|
| `DedupTypeCorrect` | `DedupSpec => []DedupTypeOK` | - |
| `CopiesAreFresh` | `DedupSpec => []CacheFresh` | `~Coarse` |
| `OneSharedMap` | `DedupSpec => ImplementsMap` | `~Coarse` |
| `TfrTypeCorrect` | `Spec => []TypeOK` | - |
| `AlertsUseTheFile` | `Spec => DedupSpec` | - |
| `AlertsShareOneMap` | `Spec => []CacheFresh /\ ImplementsMap` | `~Coarse` |
| `NoneSwallowed` | `Spec => []NothingSwallowed` | `~Coarse` |
| `CorrectionsGoOutOnce` | `Spec => []CorrectedOnce` | - |
| `SentOncePerRetention` | `Spec => OncePerRetention` | `~Coarse` |
| `RolloutPagesNobody` | `Spec => RolloutIsQuiet` | `~Coarse` |

CacheFresh is the invariant behind the refinement: a copy that would be served
is the file, and a writer holds the lock with a merge of the present file. It is
kept process by process (`FreshByProcess`), a replace being the only step that
disturbs another's copy, whose mtime it moves. Then a `Hit`, a `Reload` and a
`Replace` are DedupMap's Answer and Recorded, and every other step stutters.
Pusher and skill are shown to use the file only as PushDedup allows
(`AlertsUseTheFile`), so its theorems hold of them without being proved again.
NoneSwallowed needs to know what the pusher is recording: the invariants
`Calling` (a question or a record of the pusher is about the row it visits) and
`Giving` (what it records was sent, or it is silencing).

The other three rest on two lemmas that sort the steps: `LoopMoves` by what they
do to the pusher's loop (a visit leaves a TFR, a function begins, ends, or
fails) and `CallMoves` by what they do to its call (nothing, an answer from the
file, an alert given, the lock, the replace). LoopInv says that a function with
a marker runs only while that is not there, and visits a TFR once.

- *CorrectionsGoOutOnce*: who was corrected is no longer a candidate
  (`CorrectInv`), where the candidates are those of the state file or, while the
  function is at work, those it has still to visit and those it keeps.
- *SentOncePerRetention*: an alert given is on its way to the file, or there, or
  its retention is over (`RecordedInv`, with `WriteInv`: a record under way is the
  last alert given); so an answer to send is about another text or an old record
  (`AnswerInv`). The widen correction asks nobody: what it sent it has left
  behind, and its marker is there once it has ended (`WidenInv`). That the normal
  path does not send the same TFR meanwhile is `LeftRight`. Eviction is no
  exception: a record is evicted only after its retention (`SlotStep`).
- *RolloutPagesNobody*: while none of its windows is over a row of the TFR is in
  every list the pusher reads (`NoneOver`), so the cutover does not miss it; a
  text the FAA has left behind does not come back into
  the table, nor is it newer in a list read earlier or in a record under way
  (`Gone`, `Read`); what the cutover has left behind as it stood is in the file
  or on its way there (`Cut`), and stays so until the retention is over
  (`InFileStep`).

`PermanentFiles_proofs` proves about any entries, editions and faults:

| Theorem | Statement | Assumes |
|---|---|---|
| `TypeCorrect` | `Spec => []TypeOK` | - |
| `RowsKept` | `Spec => OnlyDroppedLeave` | `Settled` |
| `HoldHolds` | `Spec => HeldChangesWait` | `Settled` |

`Settled` is `~Overlap`, and no merge into a file that cannot be read; without
either both fail (section 5). The invariant LoadIsMeant says that a file that can
be read holds what its writers mean, that a load in progress has read just that,
and that a round under way under a hold, which looked before it, is about the
list of before the hold or has slipped past. HoldHolds thus says that the gap
between the look at the hold and the files is the only one.

`PushFallback_proofs` proves about any heartbeat, window, intervals, grace,
budget, delay and number of faults, with the typing assumptions of PushFallback
and the one inequality of `FallbackAssumption`, `MaxAge >= Heartbeat + 2 * Delay`:
a heartbeat and two stamps fit into the window (30 s and 90 s in the code):

| Theorem | Statement | Assumes |
|---|---|---|
| `FallbackTypeCorrect` | `Spec => []TypeOK` | - |
| `FetchIsNeeded` | `Spec => NoNeedlessFetch` | - |
| `GapIsCovered` | `Spec => []GapCovered` | `~Flaps` |
| `RestartIsQuiet` | `Spec => ShedIsQuiet` | - |

None of the three is inductive, as each speaks of the fetch and the session and
not of the row and the pool between them. FetchIsNeeded adds `SteadyInv`: a
"down" in the pool is older than the session's draining, what a "healthy" one has
read is no older than itself, so the row lags behind the session by a beat and a
stamp at most, or the next beat is already in the pool; a look that failed knows
nothing of the row and is excepted. GapIsCovered adds `GapInv`: a
gap that a stamp in the pool, the row, or the poller's schedule stands for is
bounded by the part of the sum spent so far. RestartIsQuiet adds `Told`: whoever
knows of a session, the row, a stamp or the poller's last look, knows of one that
has joined. GapIsCovered needs `~Flaps` (section 5).

`TrainWatch_proofs` proves about any watches, delays and number of runs, with
the thresholds of the code:

| Theorem | Statement | Assumes |
|---|---|---|
| `TrainTypeCorrect` | `Spec => []TypeOK` | - |
| `PhaseGoesForward` | `Spec => PhaseForward` | - |
| `DelayIsTold` | `Spec => []DelayTold` | `EdgeAtLate` |
| `LandedIsTold` | `Spec => LandedTold` | `OfTheFirstRun` |

The invariants behind the last two are `LastHeard` (the row's last event, if it
is of this run, is the last push, and so is the one a sweep has read before it
asked the feed), `SlotTold` (a slot written in this run is backed by the last
push, but for a very late one, which leaves no trace in the slot) and `ArriveInv`
(the row of a transient watch lives in its own run; who was told of an arrival
was told the truth). `EdgeAtLate` says that a bucket of the policy begins at
the 15 minutes from which a train counts as late. `push_policy_registry.py` has
buckets of 5; with buckets of 10 the theorem is false, a train 18 minutes late
passing for one of 12, and nothing in the code ties the two numbers together.
`OfTheFirstRun` leaves out a transient watch of a later run, of which LandedTold
is false (section 5).

Some theorems are about properties no run lists, to keep the runs few: they are
consequences of ones that are (LockNeverLowered of ImplementsLedger,
OnePromoted of LocksHeld) or strengthenings (SnapshotTrue, CacheFresh). The
definitions are in the modules.

The invariants of the proofs were checked by TLC on the instances of section 3
before they were proved.

Only model-checked: liveness under fairness, which is beyond the prover
(LandedIsSwept, BriefDecides, ChangeReachesOperator, ChangesReachRows,
DroppedLeave, TransientEnds). Every invariant and every action property of a
passing run, and both refinements, are theorems. TypeCorrect, Entitlement and
FreshState hold of every interleaving; the other theorems about the gate and the
alerts, of those without overlap.

## 5. Where the code and its documentation disagree

Found while modelling; each has a run whose counterexample shows it.

| Run | What the code does | What is said of it |
|---|---|---|
| `gate_backward` | two overlapping gate calls judge from the same read; the later commit writes the earlier phase | `db.py` 7301: "OOOI only ever moves FORWARD (...) never backward regardless of source" |
| `watch_inbound` | the ACARS query is by tail over two hours: the IN of the previous leg removes this flight's entry before departure | `watchlist.py` 853: "Remove transient flight entries that are confirmed landed" |
| `train_new_run` | the policy slot of a train watch outlives the run, and the new run's first push is judged against the last run's delay | `tests/poller/test_train_events_per_run.py` 34: "test_en_route_fires_on_a_new_run_despite_an_old_late_event"; `poller/main.py` 2225-2229 in the same sense |
| `lanes_together` | a synthesis script holds the unit lock only, a poller skill the generation lock only: both have a long request in flight | `local-llm-synthesize.sh` 34-36: "No 2 long runners can run together either EVER"; `llama_pool.py` 29 in the same sense |

The modules also state what the documentation says and the code does not keep,
without a listed run; each is violated when it is put in place of the properties
of the configuration named (MarkedWasHeard, SurfaceOutTracked and GapCovered as
INVARIANT, the others as PROPERTY):

| Property, how to see it | What the code does | What is said of it |
|---|---|---|
| NoRepeat, `MCAlertPipeline_decided` with `Overlap = TRUE` | two containers read an empty slot and both fire (`push_policy.py` 214) | `push_policy.py` 12: "the same OFF seen by three sources is decided once, wherever it arrives" |
| MarkedWasHeard, `MCAlertPipeline_decided` | a push that failed on both topics is recorded as `ntfy_fired=1` (`watchlist.py` 821); no caller ever writes 0, so the retry sweep has nothing to do | `db.py` 3030: "1 = pushed, 0 = push pending" |
| OverdueHonest, `MCFlightWatch_watch` | a gate refusal because a later phase is already on record falls through to the "departure overdue" push (`poller/main.py` 1456) | `poller/main.py` 1424: "'overdue' when nothing did" |
| SurfaceOutTracked, `MCFlightWatch_watch` with `Scenarios <- BellwetherOnly`, `Route <- RadarAtBoth` | nothing resets a permanent entry's phase: the next leg's OUT, OFF and ON are refused as regressions (`db.py` 7330) | `poller/main.py` 626: "transient and permanent entries alike" |
| AgainOnlyIfChanged, `MCTfrAlerts_tfr` | past the seven days of retention a standing TFR counts as never seen and is pushed again (`push_dedup.py` 226) | `pusher/main.py` 412: once, "again only if the FAA changes the TFR" |
| DeclaredMovesTold, `MCAlertPipeline_decided` | of a rule with several times only those on both sides are compared, and a hit held back is not stored: a time that first appears after the push moves any distance untold (`push_policy.py` 262; `tfms_ooooi` has four) | `push_policy_registry.py` 20-22: "a declared time moving by at least its threshold (...) -> p4 (or `on_threshold`)" |
| OnlyNewPush, `MCTfrAlerts_tfr` with `Days <- MCOverstays` | a TFR past its end is not in the list the cutover silences (`db.py` 1143); a poller that restarts and cannot fetch its detail stores it without an end, and it is pushed unchanged | `pusher/main.py` 290-292: "only SECURITY TFRs that appear (or that the FAA changes) afterwards push" |
| NothingGoesLive, `MCPermanentFiles_files` | the hold is looked at once a round (`hot_reload_hold.py` 58), then four files are come to in turn: one written in between, under the hold, goes live | `hot_reload_hold.py` 10-12: "while HOLD_FILE exists, the periodic hot-reload is skipped"; `poller/main.py` 2586-2587: "cannot go live before its rollout" |
| NoRestartNeeded, `MCPermanentFiles_files` | a file that is JSON and not an object (`watchlist.py` 1301) or a database error in a periodic load (1269) ends the watcher's thread | `shared/watchlist_README.md` 20: "changes are picked up within ~65 seconds, no restart needed" |
| OnlyDroppedLeave, `MCPermanentFiles_files` with `Faults = {"merge_broken"}` | a merge into a file that cannot be parsed takes it for empty (`web/routes/watchlist.py` 1044), and the next load drops the other rows | `web/routes/watchlist.py` 1077: "Existing entries (by id) are skipped - no duplicates, no overwrites" |
| ChangesReachRows (and OnlyDroppedLeave, HeldChangesWait), `MCPermanentFiles_files` with `Overlap = TRUE` | the text is read before the mtime that is recorded for it: an edit in between is missed until the next one (`watchlist.py` 1299) | the same README line |
| LandedTold, `MCTrainWatch_train` with `Watches <- NextRunOnly` | a transient watch of tomorrow's run is swept by today's arrival, whose text it was sent | `sweep_landed_trains`: removed as landed |
| GapCovered, `MCPushFallback_push` with `Flaps = TRUE` | a connection is stamped healthy before its first receive: one that is lost each time keeps the poller away while nothing is drained | `failover.py` 8-11: "If the heartbeat is stale - connection dropped, ingest crashed (...) - the poller resumes polling" |

Seen while reading, without a run of their own:

- A brief may be promoted although the long lane came free between its two tries
  (`brief_lane.py` 11: "the long lane preferred while both are free").
- With a promoted brief beside a report both slots are taken, and a hot or chat
  request waits (`llama_pool.py` 26-27: the second slot "is always available to
  them"); a script beside a skill and a promoted brief are three.
- The poller kills a skill after 2000 s, its request in flight included
  (`llama_pool.py` 38: "Nothing automated cancels an in-flight generation").
- The runner's chat posts a report persona's request without the lock
  (`runner/main.py` 2501-2508).

- With overlap SwimStands fails in the same way as PhaseForward (`db.py`
  4864-4868 promises the opposite).
- The dead sweep removes an entry that was seen after the sweep's snapshot
  (`watchlist.py` 851-1002).
- The slot is stored before the send, so a push that is lost still moves the
  value later hits are compared with (`push_policy.py` 15-16: "the last value
  the operator actually saw").
- A change rule whose hits carry no time fires `first_usable_value` on every hit
  (`push_policy.py` 262-265; `tdls_clearance` in `smes_parser.py` 1825).
- The local escape of the authority check does not look at the lock's tier
  (comment near `db.py` 7008); the local sources and `record_oooi_local_track`
  have no caller at this commit. They are modelled as the gate would treat them.
- An UPDATE of a row deleted meanwhile changes nothing and the call still
  returns True.
- `_check_flight_aeroapi` calls `_evaluate_flight_status`, which is not defined
  (`poller/main.py` 844). That path is disabled by default and is not modelled.
- A train 30 minutes late or more is pushed at priority 5, which passes the
  policy without a trace: its recovery is judged against an older value
  (`poller/main.py` 2379). DelayTold allows for it.
- A train at its origin with the destination's status "Enroute" is announced as
  en route before it departs; a suppressed train hit writes a history row every
  sweep; of several runs amtraker lists, the first is taken.
- `tfr_security_cutover` runs before `push_vip_tfrs` and silences SECURITY rows
  with presidential language that were not yet pushed (`pusher/main.py` 292).
- A crash between the records and the marker of the VIP baseline makes a new
  baseline, of the rows of that moment; corrections may be sent again after a
  crash; a failing baseline leaves no marker and is tried at the next start only.
- Two replaces of the dedup file within one tick of the file system's clock leave
  a stale copy served (`Coarse = TRUE`). `mark_tfr_notified` has no reader.
- Ids taken out of a watchlist file while the poller is down stay in the rows.
  Two concurrent merges lose one: the read-modify-write has no lock.
- `_ReplayGate.behind` stays set after an old message ends a backlog on a quiet
  feed, so that the next live message may wait in a pause (`swim_client.py`
  89: live traffic "is never gated"). The pause budget is per connection. The
  bandwidth priority is not looked at during a replay pause.
- A message whose handler raised is acknowledged all the same (`swim_client.py`
  785-798).
- A late `_stamp_down` may stand over a newer healthy stamp until the next
  heartbeat, and a late `_stamp_healthy` clear the error of a suspension for up
  to 90 s; both within the bounds of `push`.

## 6. What is not modelled, and why

Status and reason for each component are in `PROJECT.json`. In short: fetchers,
skills, reports, the runner, the second brain and the demo edition read and write
tables of their own, a row at a time, and have no protocol between processes;
XML decoding, scoring and geometry are conversions; signatures and tokens are
cryptography and lookups; scripts and unit files, but for the model server's
locks, are outside the program. In the
modelled components: names, times and positions are reduced to what decisions
compare; identity resolution, gates, inbound aircraft and the FDPS plan and tail
checks of a flight visit are left out, as they write columns no modelled decision
reads; the texts of pushes are left out. Of the alert path, the older dedup by
content for kinds without a rule is left out, and the result of a push-fed
feed's own REST fetch. Of the SWIM client, the triage that drops old
messages of a backlog, the byte counters and the acknowledgement modes are left
out; of the pusher, the CPS, weather and landing pushes, one state file each; of
the watchlist files, the read cache of entries and what a round does to the three
other files but delay and fail; of trains, the keyed API that is
off by default, and the vessel and drone watchers, which keep no phase.

The map covers a small share of the repository's lines, and more modelling will
not make it a large one: most of them are SQL upserts and queries, XML decoding,
report and page building, and batch jobs over tables of their own. The parts
modelled are those where more than one process, or a process and its own restart,
decide about the same state.

## 7. Plan

Done: OooiAuthority, OooiLedger, OooiGate; FlightWatch; PushPolicy,
AlertPipeline; LlmLanes; DedupMap, PushDedup, TfrAlerts; PermanentFiles;
TrainWatch; PushFallback; and proofs of every safety property their passing runs
check (section 4).

Left, in order:

1. The gate under overlap restricted to writers of equal tier, and a refinement
   of OooiLedger by FlightWatch's rows.
2. *Approvals*: the life of a signed approval and of an OAuth grant: single use.
3. *NtfySend*: attempts, the fallback server, the retry on an authorisation
   error; composed with AlertPipeline's Send.
4. The read cache of entries and its generation; the maintenance window's
   wrap-around, with the dispatcher that queues reports behind it.
5. Splitting FlightWatch's accepted phase from its push and a removal from its
   history row, to say what a restart loses.

Runs stay few: one passing run per composed component, and one per disagreement
worth keeping.
