---------------------------- MODULE PushFallback ----------------------------
(***************************************************************************)
(* Push and poll for one feed that has both: the session of a SWIM feed     *)
(* (_NmsFeedSession, src/ingest/swim_client.py) stamps a heartbeat row      *)
(* through a pool of two threads (src/ingest/failover.py); the poller's     *)
(* fetch loop (FetchLoop.maybe_run, src/poller/main.py) leaves its REST     *)
(* fetch out while that row is fresh.  The two share nothing but the row.   *)
(*                                                                          *)
(* Time goes in ticks, and times are ages; whatever a thread does within    *)
(* seconds it does before the next tick.  What brings the data is either a  *)
(* session that drains its queue, a quiet queue included, or a REST fetch,  *)
(* which is made and not waited for: whether it succeeds is its fetcher's   *)
(* affair, the loop logs a failure and waits for the next period.           *)
(***************************************************************************)
EXTENDS Integers, Sequences

CONSTANTS Heartbeat,   \* HEARTBEAT_INTERVAL
          MaxAge,      \* FALLBACK_MAX_AGE
          Interval,    \* of the REST fetch
          Holdoff,     \* POLLER_STARTUP_HOLDOFF_S, and the loop's stagger slot
          Grace,       \* POLLER_STARTUP_PUSH_GRACE_S, less that slot
          Budget,      \* REPLAY_MAX_PAUSE_SECONDS
          Delay,       \* longest a stamp takes, from its submission to its commit
          Round,       \* longest the poller's loop takes to come round to the fetch
          Flaps,       \* a connection may be lost before its first receive
          MaxJobs,     \* bound on the stamps in the pool, whose queue has none
          MaxFaults    \* bound on failed stamps and reads, crashes and restarts

ASSUME FallbackAssumption ==
    /\ {Heartbeat, Interval, Delay, MaxJobs} \subseteq Nat \ {0}
    /\ {Holdoff, Grace, Budget, Round, MaxFaults} \subseteq Nat
    /\ MaxAge \in Nat /\ MaxAge >= Heartbeat + 2 * Delay
    /\ Flaps \in BOOLEAN

VARIABLES ses,         \* where the session's thread is
          beat,        \* ticks since last_hb
          spent,       \* ticks this connection has spent paused in a replay
          pool,        \* _db_pool: the stamps submitted and not yet done
          stamp,       \* the feed's row of feed_state
          poller,      \* ticks it is up, ticks until the fetch is due, what it does
          faults,      \* bound
          gap,         \* ticks since the data was last brought, or a fetch made
          steady,      \* ticks the session drains without a break
          joined       \* it was connected since the poller started

vars == <<ses, beat, spent, pool, stamp, poller, faults, gap, steady, joined>>

Connected == ses \in {"connected", "draining", "replay", "suspended"}
Beating   == ses \in {"draining", "replay"}

Least(a, b) == IF a < b THEN a ELSE b
Grown(a, cap) == Least(a + 1, cap)

(* Ages past these caps make no difference.                                 *)
Old     == MaxAge + 1
Up      == Holdoff + Grace + Interval + Round
Settled == Heartbeat + 2 * Delay                   \* see NoNeedlessFetch
Covered == Budget + Delay + MaxAge + Interval + Round      \* see GapCovered

Ops  == {"healthy", "down"}
Jobs == [op : Ops, wait : 0 .. Delay, at : {"queued"}]
          \cup [op : Ops, wait : 0 .. Delay, at : {"ready"}, age : 0 .. Old, since : BOOLEAN]

TypeOK ==
    /\ ses \in {"dead", "away", "held", "connected", "draining", "replay", "suspended"}
    /\ beat \in 0 .. Heartbeat /\ spent \in 0 .. Budget
    /\ pool \in Seq(Jobs) /\ Len(pool) <= MaxJobs
    /\ stamp \in [age : 0 .. Old, error : BOOLEAN, since : BOOLEAN]
    /\ poller \in [pc : {"idle", "stale", "unread"}, up : 0 .. Up,
                   next : -Round .. Holdoff + Interval]
    /\ faults \in 0 .. MaxFaults
    /\ gap \in 0 .. Covered + 1 /\ steady \in 0 .. Settled + 1
    /\ joined \in BOOLEAN

Starting == [pc |-> "idle", up |-> 0, next |-> Holdoff]

Init ==
    /\ ses = "away" /\ beat = 0 /\ spent = 0
    /\ pool = <<>>
    /\ stamp = [age |-> Old, error |-> FALSE, since |-> FALSE]     \* or no row at all
    /\ poller = Starting
    /\ faults = 0 /\ gap = 0 /\ steady = 0 /\ joined = FALSE

Fault == faults < MaxFaults /\ faults' = faults + 1

-----------------------------------------------------------------------------
(* The session's thread.                                                    *)

Submit(op) ==
    /\ Len(pool) < MaxJobs
    /\ pool' = Append(pool, [op |-> op, wait |-> 0, at |-> "queued"])

Drains == ses' = "draining" /\ gap' = 0

(* _run_loop: the operator's bandwidth priority holds the feed back ...     *)
Hold ==
    /\ ses = "away"
    /\ ses' = "held"
    /\ Submit("down")
    /\ UNCHANGED <<beat, spent, stamp, poller, faults, gap, steady, joined>>

LetGo ==
    /\ ses = "held"
    /\ ses' = "away"
    /\ UNCHANGED <<beat, spent, pool, stamp, poller, faults, gap, steady, joined>>

(* ... or it connects; a failed attempt is an exception it catches.         *)
ConnectFails ==
    /\ ses = "away"
    /\ Submit("down")
    /\ UNCHANGED <<ses, beat, spent, stamp, poller, faults, gap, steady, joined>>

Connect ==
    /\ ses = "away"
    /\ ses' = "connected" /\ beat' = 0 /\ spent' = 0
    /\ Submit("healthy")
    /\ joined' = TRUE
    /\ UNCHANGED <<stamp, poller, faults, gap, steady>>

(* receive_message, with a message or after its timeout without one         *)
FirstReceive ==
    /\ ses = "connected"
    /\ Drains
    /\ UNCHANGED <<beat, spent, pool, stamp, poller, faults, steady, joined>>

ReplayPause_NoBudget ==    \* mutant: the pause does not use the budget up
    /\ ses = "draining"
    /\ ses' = "replay"
    /\ steady' = 0
    /\ UNCHANGED <<beat, spent, pool, stamp, poller, faults, gap, joined>>

(* A message of a backlog, and the host is loaded: the replay pauses, its   *)
(* heartbeats go on, until the load is down or the budget used.             *)
ReplayPause ==
    /\ ses = "draining"
    /\ spent < Budget
    /\ ses' = "replay"
    /\ steady' = 0
    /\ UNCHANGED <<beat, spent, pool, stamp, poller, faults, gap, joined>>

ReplayResume ==
    /\ ses = "replay"
    /\ Drains
    /\ UNCHANGED <<beat, spent, pool, stamp, poller, faults, steady, joined>>

(* The bandwidth priority again, while connected.                           *)
Suspend ==
    /\ ses = "draining"
    /\ ses' = "suspended"
    /\ Submit("down")
    /\ steady' = 0
    /\ UNCHANGED <<beat, spent, stamp, poller, faults, gap, joined>>

Resume ==
    /\ ses = "suspended"
    /\ Drains /\ beat' = 0
    /\ Submit("healthy")
    /\ UNCHANGED <<spent, stamp, poller, faults, steady, joined>>

Beat ==
    /\ Beating /\ beat >= Heartbeat
    /\ beat' = 0
    /\ Submit("healthy")
    /\ UNCHANGED <<ses, spent, stamp, poller, faults, gap, steady, joined>>

(* The connection is lost, or a receive fails.                              *)
Lost ==
    /\ Connected /\ (ses = "connected" => Flaps)
    /\ ses' = "away"
    /\ Submit("down")
    /\ steady' = 0
    /\ UNCHANGED <<beat, spent, stamp, poller, faults, gap, joined>>

Crash ==
    /\ ses # "dead" /\ (ses = "connected" => Flaps) /\ Fault
    /\ ses' = "dead"
    /\ pool' = <<>>
    /\ steady' = 0
    /\ UNCHANGED <<beat, spent, stamp, poller, gap, joined>>

Restart ==
    /\ ses = "dead"
    /\ ses' = "away"
    /\ UNCHANGED <<beat, spent, pool, stamp, poller, faults, gap, steady, joined>>

-----------------------------------------------------------------------------
(* The pool: two threads take the stamps in the order of their submission   *)
(* and finish them in any.                                                  *)

Taken == 1 .. Least(2, Len(pool))
Without(i) == SubSeq(pool, 1, i - 1) \o SubSeq(pool, i + 1, Len(pool))

Read_Bumps(op) == [age |-> 0, since |-> TRUE]     \* mutant: mark_push_down moves fetched_at

(* time.time() in mark_push_healthy; the SELECT in mark_push_down           *)
Read(op) == IF op = "healthy" THEN [age |-> 0, since |-> TRUE]
            ELSE [age |-> stamp.age, since |-> stamp.since]

Take(i) ==
    /\ pool[i].at = "queued"
    /\ pool' = [pool EXCEPT ![i] =
                  [op |-> @.op, wait |-> @.wait, at |-> "ready",
                   age |-> Read(@.op).age, since |-> Read(@.op).since]]
    /\ UNCHANGED <<ses, beat, spent, stamp, poller, faults, gap, steady, joined>>

(* upsert_feed                                                              *)
Commit(i) ==
    /\ pool[i].at = "ready"
    /\ stamp' = [age |-> pool[i].age, error |-> pool[i].op = "down", since |-> pool[i].since]
    /\ pool' = Without(i)
    /\ UNCHANGED <<ses, beat, spent, poller, faults, gap, steady, joined>>

(* The database fails: the stamp is dropped without a word.                 *)
StampFails(i) ==
    /\ Fault
    /\ pool' = Without(i)
    /\ steady' = 0
    /\ UNCHANGED <<ses, beat, spent, stamp, poller, gap, joined>>

Pool == \E i \in Taken : Take(i) \/ Commit(i) \/ StampFails(i)

-----------------------------------------------------------------------------
(* The poller.                                                              *)

Healthy_AnyAge == ~stamp.error                     \* mutant: the age is not looked at

Healthy_OneBeat == ~stamp.error /\ stamp.age < Heartbeat    \* mutant: a window of one beat

(* push_is_healthy, when it can read the rows                               *)
Healthy == ~stamp.error /\ stamp.age <= MaxAge

(* push_grace_active                                                        *)
InGrace == poller.up < Holdoff + Grace /\ ~stamp.since

Due == poller.pc = "idle" /\ poller.next <= 0

Judging == poller.pc \in {"stale", "unread"}

Deferred_Twice == [poller EXCEPT !.pc = "idle", !.next = 2 * Interval]   \* mutant: a period is left out

Deferred == [poller EXCEPT !.pc = "idle", !.next = Interval]

(* maybe_run: push owns the data, ...                                       *)
Defer ==
    /\ Due /\ Healthy
    /\ poller' = Deferred
    /\ UNCHANGED <<ses, beat, spent, pool, stamp, faults, gap, steady, joined>>

Stale ==
    /\ Due /\ ~Healthy
    /\ poller' = [poller EXCEPT !.pc = "stale"]
    /\ UNCHANGED <<ses, beat, spent, pool, stamp, faults, gap, steady, joined>>

Unread_Trusts ==    \* mutant: what cannot be read is taken for healthy
    /\ Due /\ Fault
    /\ poller' = Deferred
    /\ UNCHANGED <<ses, beat, spent, pool, stamp, gap, steady, joined>>

(* The read fails: "fail safe toward polling".                              *)
Unread ==
    /\ Due /\ Fault
    /\ poller' = [poller EXCEPT !.pc = "unread"]
    /\ UNCHANGED <<ses, beat, spent, pool, stamp, gap, steady, joined>>

(* ... or may yet come back from a restart it shared with the poller, for   *)
(* which a second read that fails (push_last_seen) is taken too, ...        *)
Graced ==
    /\ Judging /\ poller.up < Holdoff + Grace
    /\ \/ InGrace /\ UNCHANGED faults
       \/ Fault
    /\ poller' = Deferred
    /\ UNCHANGED <<ses, beat, spent, pool, stamp, gap, steady, joined>>

(* ... or has to be stood in for.                                           *)
Fetch ==
    /\ Judging /\ ~InGrace
    /\ poller' = Deferred
    /\ gap' = 0
    /\ UNCHANGED <<ses, beat, spent, pool, stamp, faults, steady, joined>>

(* The poller restarts, perhaps with the ingest (a lockdown's shed).        *)
PollerRestart ==
    /\ Fault
    /\ poller' = Starting
    /\ stamp' = [stamp EXCEPT !.since = FALSE]
    /\ pool' = [i \in DOMAIN pool |->
                  IF pool[i].at = "ready" THEN [pool[i] EXCEPT !.since = FALSE] ELSE pool[i]]
    /\ joined' = (Connected \/ \E i \in DOMAIN pool : pool[i].op = "healthy")
    /\ UNCHANGED <<ses, beat, spent, gap, steady>>

-----------------------------------------------------------------------------
(* Nobody owes an action: every thread has done what it does within         *)
(* seconds, no stamp is overdue, and the poller's loop is not too late.     *)
Quiet ==
    /\ ses # "connected"
    /\ Beating => beat < Heartbeat
    /\ ses = "replay" => spent < Budget
    /\ \A i \in DOMAIN pool : pool[i].wait < Delay
    /\ poller.pc = "idle" /\ poller.next > -Round

Aged(job) == IF job.at = "ready"
             THEN [job EXCEPT !.wait = @ + 1, !.age = Grown(@, Old)]
             ELSE [job EXCEPT !.wait = @ + 1]

Tick ==
    /\ Quiet
    /\ beat' = Grown(beat, Heartbeat)
    /\ spent' = IF ses = "replay" THEN spent + 1 ELSE spent
    /\ pool' = [i \in DOMAIN pool |-> Aged(pool[i])]
    /\ stamp' = [stamp EXCEPT !.age = Grown(@, Old)]
    /\ poller' = [poller EXCEPT !.up = Grown(@, Up), !.next = @ - 1]
    /\ gap' = IF ses = "draining" THEN 0 ELSE Grown(gap, Covered + 1)
    /\ steady' = IF ses = "draining" THEN Grown(steady, Settled + 1) ELSE 0
    /\ UNCHANGED <<ses, faults, joined>>

Session ==
    \/ Hold \/ LetGo \/ ConnectFails \/ Connect \/ FirstReceive
    \/ ReplayPause \/ ReplayResume \/ Suspend \/ Resume \/ Beat
    \/ Lost \/ Crash \/ Restart

Poller == Defer \/ Stale \/ Unread \/ Graced \/ Fetch \/ PollerRestart

Next == Session \/ Pool \/ Poller \/ Tick

Spec == Init /\ [][Next]_vars

-----------------------------------------------------------------------------
(* Properties.                                                              *)

(* The data is brought by one or the other: however stamps overtake each    *)
(* other or fail, reads fail, and session and ingest come and go, no longer *)
(* than the sum of the windows passes without a draining session or a fetch *)
(* made, once the poller is past its start ("If the heartbeat is stale --   *)
(* connection dropped, ingest crashed, container down -- the poller resumes *)
(* polling", failover.py).  A connection lost before its first receive, time *)
(* after time, is outside of it (Flaps).                                    *)
GapCovered == gap > Covered => poller.up < Up

(* And not by both: no REST fetch once a session drains and its stamps have *)
(* settled, however they overtook each other before ("exactly one of the    *)
(* two is active", src/ingest/amtrak.py), unless the poller could not read  *)
(* the heartbeat this very time ("Defaults to False (poll) on any           *)
(* uncertainty -- fail safe toward polling", failover.py).                  *)
NoNeedlessFetch == [][Fetch => (steady <= Settled \/ poller.pc = "unread")]_vars

(* A restart of both is no reason to fetch: before the grace is over only a *)
(* session that has been there since the poller started is stood in for     *)
(* ("a heartbeat that predates THIS poller process is not evidence the push *)
(* feed is down", poller/main.py).                                          *)
ShedIsQuiet == [][(Fetch /\ poller.up < Holdoff + Grace) => joined]_vars
=============================================================================
