----------------------------- MODULE TrainWatch -----------------------------
(***************************************************************************)
(* The watch of one train: the five-minute train sweep of the poller        *)
(* (_check_train_amtraker, src/poller/main.py), the phase it keeps          *)
(* (update_train_phase), the push it asks for (watchlist_event_hit through  *)
(* push_policy), and what ends a transient watch: the landed and dead       *)
(* sweep, its expiry, the web API.                                          *)
(*                                                                          *)
(* A train number runs again and again; amtraker lists one run at a time,   *)
(* sometimes not at all, sometimes a little behind.  A sweep and its push   *)
(* take seconds: a run does not end within one.  How a push is stored,      *)
(* sent and recorded step by step is AlertPipeline's matter.                *)
(***************************************************************************)
EXTENDS PushPolicy

CONSTANTS Watches,     \* the entries to consider: [tier, of], of is the run
                       \* a transient watch is for (its date is in its id)
          Delays,      \* minutes behind schedule
          MaxRuns      \* bound on the runs

ASSUME TrainAssumption ==
    /\ Watches \subseteq [tier : {"transient", "permanent"}, of : 1 .. MaxRuns]
    /\ Delays \subseteq Nat /\ Delays # {}
    /\ MaxRuns \in Nat \ {0}

VARIABLES run, stage,          \* the train: its newest run, and how far it is
          clock,               \* where the entry's scheduled arrival lies
          watch,               \* the entry's tier and run, fixed
          row,                 \* its row in watchlist_entries
          slot,                \* its row in push_policy_state
          sweep,               \* what the train sweep is doing
          told,                \* the last push about this run of the train
          seen,                \* the last answer in it with something to say
          earlier              \* slot was last written in an earlier run

world == <<run, stage>>
ghosts == <<told, seen, earlier>>
vars == <<world, clock, watch, row, slot, sweep, ghosts>>

Late == 15
VeryLate == 30

Stages == 1 .. 5       \* Predeparture, origin Departed, next stop the destination,
                       \* at its Station, Completed
NotListed == 0

NoPhase == -1          \* else scheduled, departed, approaching, arrived: 0 .. 3
NoRow   == [phase |-> NoPhase]
NoEvent == [kind |-> "none", delay |-> NoTime, run |-> 0]

Kinds    == {"late", "arrived", "en route"}
Times    == Delays \cup {NoTime}
Events   == {NoEvent} \cup [kind : Kinds, delay : Times, run : 1 .. MaxRuns]
Rows     == [phase : NoPhase .. 3, last : Events]
Answers  == [stage : Stages, delay : Times, full : BOOLEAN]
Idents   == {"predeparture", "active", "completed"} \X {"enroute", "station", "unknown"}

Idle   == [pc |-> "idle"]
Landed == [pc |-> "landed"]
Steps  == [pc : {"persist", "classify"}, last : Events, answer : Answers]

TypeOK ==
    /\ run \in 1 .. MaxRuns /\ stage \in {NotListed} \cup Stages
    /\ clock \in {"early", "overdue", "expired"}
    /\ watch \in Watches
    /\ row \in {NoRow} \cup Rows
    /\ slot \in {NoPrior} \cup [ident : Idents, times : [{"delay_min"} -> Times], at : {0}]
    /\ sweep \in {Idle, Landed} \cup Steps
    /\ told \in Events /\ seen \in Events
    /\ earlier \in BOOLEAN

NewRow == [phase |-> NoPhase, last |-> NoEvent]
Transient == watch.tier = "transient"

Init ==
    /\ run = 1 /\ stage = NotListed
    /\ clock = "early"
    /\ watch \in Watches
    /\ row = IF Transient THEN NoRow ELSE NewRow
    /\ slot = NoPrior
    /\ sweep = Idle
    /\ told = NoEvent /\ seen = NoEvent /\ earlier = FALSE

-----------------------------------------------------------------------------
(* The train.                                                               *)

Advance ==
    /\ stage < 5
    /\ stage' = stage + 1
    /\ UNCHANGED <<run, clock, watch, row, slot, sweep, ghosts>>

(* The next run, hours after the sweeps and the expiry of the last.         *)
NextRun ==
    /\ run < MaxRuns
    /\ sweep = Idle
    /\ Transient /\ watch.of = run => row = NoRow
    /\ run' = run + 1 /\ stage' = NotListed
    /\ clock' = "early"
    /\ told' = NoEvent /\ seen' = NoEvent
    /\ earlier' = (slot # NoPrior)
    /\ UNCHANGED <<watch, row, slot, sweep>>

(* One hour, then three, past the scheduled arrival of a transient watch.   *)
Tick ==
    /\ Transient /\ row # NoRow /\ watch.of = run
    /\ clock # "expired"
    /\ clock' = IF clock = "early" THEN "overdue" ELSE "expired"
    /\ UNCHANGED <<world, watch, row, slot, sweep, ghosts>>

-----------------------------------------------------------------------------
(* The web API: add_train_watchlist, remove_watchlist_entry.                *)

Add ==
    /\ Transient /\ row = NoRow
    /\ run <= watch.of /\ clock # "expired"
    /\ row' = NewRow
    /\ UNCHANGED <<world, clock, watch, slot, sweep, ghosts>>

Delete ==
    /\ Transient /\ row # NoRow
    /\ row' = NoRow
    /\ UNCHANGED <<world, clock, watch, slot, sweep, ghosts>>

-----------------------------------------------------------------------------
(* _check_train_amtraker                                                    *)

(* get_watchlist_entries leaves out what has expired.                       *)
Visible == row # NoRow /\ ~(Transient /\ clock = "expired")

(* What amtraker may say: where the train is, or was a little while ago in  *)
(* this run, and how late; without its times, or without its stations.      *)
Feed == {a \in Answers : a.stage <= stage /\ (~a.full => a.delay = NoTime)}

(* _train_last_event_for_run: an event of an earlier run does not count.    *)
LastOfThisRun == IF row.last.run = run THEN row.last ELSE NoEvent

(* The entry, as read when the sweep began, and the answer for its number.  *)
Fetch ==
    /\ sweep = Idle /\ Visible
    /\ \E a \in Feed : sweep' = [pc |-> "persist", last |-> LastOfThisRun, answer |-> a]
    /\ UNCHANGED <<world, clock, watch, row, slot, ghosts>>

FetchNothing ==
    /\ sweep = Idle /\ Visible
    /\ sweep' = Landed
    /\ UNCHANGED <<world, clock, watch, row, slot, ghosts>>

Phase_Completed(a) ==  \* mutant: Completed is a phase after arrived
    IF a.full \/ a.stage \in {1, 5} THEN a.stage - 1 ELSE NoPhase

(* _derive_train_phase                                                      *)
Phase(a) ==
    CASE a.stage = 1 -> 0
      [] a.stage = 5 \/ (a.stage = 4 /\ a.full) -> 3
      [] a.stage \in {2, 3} /\ a.full -> a.stage - 1
      [] OTHER -> NoPhase

Persist_Any ==         \* mutant: any phase the feed reports is written
    /\ sweep.pc = "persist"
    /\ row' = IF row # NoRow /\ Phase(sweep.answer) # NoPhase
              THEN [row EXCEPT !.phase = Phase(sweep.answer)] ELSE row
    /\ sweep' = [sweep EXCEPT !.pc = "classify"]
    /\ UNCHANGED <<world, clock, watch, slot, ghosts>>

(* update_train_phase: forward only.                                        *)
Persist ==
    /\ sweep.pc = "persist"
    /\ row' = IF row # NoRow /\ Phase(sweep.answer) > row.phase
              THEN [row EXCEPT !.phase = Phase(sweep.answer)] ELSE row
    /\ sweep' = [sweep EXCEPT !.pc = "classify"]
    /\ UNCHANGED <<world, clock, watch, slot, ghosts>>

TrainState(a) == IF a.stage = 1 THEN "predeparture"
                 ELSE IF a.stage = 5 THEN "completed" ELSE "active"
DestStatus(a) == IF ~a.full THEN "unknown" ELSE IF a.stage >= 4 THEN "station" ELSE "enroute"

Arrived(a) == DestStatus(a) = "station"
EnRoute(a) == TrainState(a) = "active" \/ DestStatus(a) = "enroute"

Silent == NoEvent

(* What there is to say, given the last thing said in this run.             *)
Summary(a, last) ==
    LET event(kind, d) == [kind |-> kind, delay |-> d, run |-> run]
    IN CASE a.delay >= Late -> event("late", a.delay)
         [] a.delay < Late /\ Arrived(a) -> event("arrived", a.delay)
         [] a.delay < Late /\ ~Arrived(a) /\ EnRoute(a) /\ last = NoEvent
              -> event("en route", NoTime)
         [] OTHER -> Silent

(* The registry's rule for rail / train_sweep, and the hit it judges.       *)
Rule == [cls |-> "change", first |-> 4, onThreshold |-> 4, below |-> 3,
         requireTime |-> FALSE, pastWhileGround |-> FALSE, tighten |-> FALSE,
         heartbeat |-> FALSE]

Hit(a) == [ident |-> <<TrainState(a), DestStatus(a)>>, times |-> [delay_min |-> a.delay]]

Decision_Identity(a) == \* mutant: the delay does not count as a change
    IF a.delay >= VeryLate THEN "hot" ELSE IdentityOutcome(slot, Hit(a))

(* push_policy.decide: a priority of 5 passes and leaves no trace.          *)
Decision(a) ==
    IF a.delay >= VeryLate THEN "hot" ELSE Outcome(Rule, slot, Hit(a), FALSE, 0)

Noticed(a) == IF Summary(a, NoEvent) = Silent THEN seen ELSE Summary(a, NoEvent)

Due == Summary(sweep.answer, sweep.last)

(* Nothing to say, or the same text again.                                  *)
Quiet ==
    /\ sweep.pc = "classify"
    /\ Due \in {Silent, sweep.last}
    /\ sweep' = Landed
    /\ seen' = Noticed(sweep.answer)
    /\ UNCHANGED <<world, clock, watch, row, slot, told, earlier>>

(* watchlist_event_hit for an entry that is still there: the policy holds   *)
(* the push back, ...                                                       *)
Something == sweep.pc = "classify" /\ Due \notin {Silent, sweep.last}

Suppress_Marks ==      \* mutant: the last event is recorded though nothing was sent
    /\ Something
    /\ Visible /\ Decision(sweep.answer) \in Suppressions
    /\ row' = [row EXCEPT !.last = Due]
    /\ sweep' = Landed
    /\ seen' = Noticed(sweep.answer)
    /\ UNCHANGED <<world, clock, watch, slot, told, earlier>>

Suppress ==
    /\ Something
    /\ Visible => Decision(sweep.answer) \in Suppressions
    /\ sweep' = Landed
    /\ seen' = IF Visible THEN Noticed(sweep.answer) ELSE seen
    /\ UNCHANGED <<world, clock, watch, row, slot, told, earlier>>

(* ... or sends it; only a push that was sent is the entry's last event.    *)
Push ==
    /\ Something
    /\ Visible /\ Decision(sweep.answer) \notin Suppressions
    /\ row' = [row EXCEPT !.last = Due]
    /\ slot' = IF Decision(sweep.answer) = "hot" THEN slot ELSE Fired(Hit(sweep.answer), 0)
    /\ earlier' = (earlier /\ Decision(sweep.answer) = "hot")
    /\ told' = Due
    /\ seen' = Noticed(sweep.answer)
    /\ sweep' = Landed
    /\ UNCHANGED <<world, clock, watch>>

-----------------------------------------------------------------------------
(* sweep_landed_trains, right after the checks: a transient entry whose     *)
(* last event says it arrived, or that never had one, an hour past its      *)
(* scheduled arrival, and that amtraker does not know when asked once more. *)
SaidArrived == row.last.kind = "arrived"
NeverHeard  == row.last = NoEvent /\ clock # "early"

SweepLanded ==
    /\ sweep = Landed
    /\ Transient /\ Visible
    /\ \/ SaidArrived
       \/ NeverHeard       \* and the answer is no, or there is none
    /\ row' = NoRow
    /\ sweep' = Idle
    /\ UNCHANGED <<world, clock, watch, slot, ghosts>>

SweepLeaves ==
    /\ sweep = Landed
    /\ (Transient /\ Visible) => ~SaidArrived /\ (NeverHeard => stage # NotListed)
    /\ sweep' = Idle
    /\ UNCHANGED <<world, clock, watch, row, slot, ghosts>>

Expire_Heard ==        \* mutant: expiry is left to the landed sweep once the train ran
    /\ sweep = Idle
    /\ Transient /\ row # NoRow /\ clock = "expired"
    /\ row.last = NoEvent
    /\ row' = NoRow
    /\ UNCHANGED <<world, clock, watch, slot, sweep, ghosts>>

(* sweep_expired_transient, in the same loop.                               *)
Expire ==
    /\ sweep = Idle
    /\ Transient /\ row # NoRow /\ clock = "expired"
    /\ row' = NoRow
    /\ UNCHANGED <<world, clock, watch, slot, sweep, ghosts>>

(* The poller restarts.                                                     *)
Crash ==
    /\ sweep # Idle
    /\ sweep' = Idle
    /\ UNCHANGED <<world, clock, watch, row, slot, ghosts>>

Sweep ==
    \/ Fetch \/ FetchNothing \/ Persist \/ Quiet \/ Suppress \/ Push
    \/ SweepLanded \/ SweepLeaves

Next ==
    \/ Advance \/ NextRun \/ Tick
    \/ Add \/ Delete
    \/ Sweep \/ Expire \/ Crash

Spec == Init /\ [][Next]_vars

(* Time passes, and the sweep's loop goes on; between two of its rounds the *)
(* expiry gets its turn.                                                    *)
FairSpec ==
    /\ Spec
    /\ WF_vars(Tick) /\ WF_vars(NextRun) /\ SF_vars(Expire)
    /\ WF_vars(Persist \/ Quiet \/ Suppress \/ Push \/ SweepLanded \/ SweepLeaves)

-----------------------------------------------------------------------------
(* Properties.                                                              *)

(* The phase of a row that stays never moves back, however far the feed's   *)
(* answers lag ("A poll that arrives late and still reports 'Enroute' must  *)
(* not pull a train back out of 'arrived'", update_train_phase).            *)
PhaseForward ==
    [][(row # NoRow /\ row' # NoRow) => row'.phase >= row.phase]_vars

(* A watch removed as landed is of a train that has arrived, and its        *)
(* operator was told so: the sweep believes the text of the last push.      *)
LandedTold ==
    [][(row # NoRow /\ row' = NoRow /\ sweep = Landed /\ sweep' # sweep /\ SaidArrived)
          => /\ watch.of = run /\ stage >= 4
             /\ told.kind = "arrived"]_vars

(* What the operator last heard keeps up with what the sweep last saw: a    *)
(* run with something to say has been spoken of, and a delay seen is within *)
(* the threshold of the one told -- or less than a very late one told,      *)
(* which leaves no trace in the slot.  Unless the slot's values are still   *)
(* those of an earlier run: see NewRunHeard.                                *)
KeepsUpWith(d) ==
    /\ told.kind = "late"
    /\ \/ told.delay >= VeryLate /\ d <= told.delay
       \/ told.delay < d + Threshold /\ d < told.delay + Threshold

DelayTold ==
    (seen # NoEvent /\ ~earlier) =>
        told # NoEvent /\ (seen.kind = "late" => KeepsUpWith(seen.delay))

(* Every run with something to say is spoken of, whatever the last event or *)
(* the slot hold of an earlier one ("en route fires on a new run despite an *)
(* old late event", test_train_events_per_run).                             *)
NewRunHeard == seen # NoEvent => told # NoEvent

(* A transient watch ends, whatever the feed says and whether or not its    *)
(* train runs.                                                              *)
TransientEnds == (Transient /\ row # NoRow) ~> row = NoRow
=============================================================================
