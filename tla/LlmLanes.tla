------------------------------ MODULE LlmLanes ------------------------------
(***************************************************************************)
(* Who may have a generation in flight on the one model server, which has   *)
(* two slots.  Three flocks decide:                                         *)
(*   unit   long-runner-unit.lock, held by a scheduled unit for its life    *)
(*   hot    hot-lane-unit.lock, held by a promoted brief for its life       *)
(*   long   long-runner.lock, held for one generation                       *)
(* A process is one of                                                      *)
(*   Briefs   the operational briefs, started through brief_lane.py         *)
(*   Units    the other scheduled reports, started through flock(1)         *)
(*   Scripts  local-llm-synthesize.sh: the unit lock around one request     *)
(*   Skills   the poller's skills and the council responder: no unit lock   *)
(* Requests of the hot and chat tiers take no lock and are left out.        *)
(***************************************************************************)
EXTENDS Naturals

CONSTANTS Briefs, Units, Scripts, Skills,
          LongFirst,   \* rounds a brief tries the long lane alone
          Budget,      \* rounds a brief tries at all
          Nobody       \* the holder of a free lock

Scheduled == Briefs \cup Units \cup Scripts
Procs     == Scheduled \cup Skills

ASSUME LanesAssumption ==
    /\ LongFirst \in Nat /\ Budget \in Nat
    /\ Nobody \notin Procs
    /\ Briefs \cap (Units \cup Scripts \cup Skills) = {}
    /\ Units \cap (Scripts \cup Skills) = {}
    /\ Scripts \cap Skills = {}

VARIABLES unit, hot, long,   \* lock -> its holder
          pc,                \* process -> what it is doing
          waited,            \* brief -> rounds waited (`waited`, LongFirst, Budget: in polls)
          lane,              \* process -> its CTDC_LLM_LANE
          said               \* brief -> lane of the line it printed, if it did

vars == <<unit, hot, long, pc, waited, lane, said>>

Trying == {"long", "hot"}                     \* a brief, in acquire
Active == {"running", "queue", "posting"}     \* its program runs

TypeOK ==
    /\ unit \in Scheduled \cup {Nobody}
    /\ hot \in Briefs \cup {Nobody}
    /\ long \in Procs \cup {Nobody}
    /\ pc \in [Procs -> {"off", "flock"} \cup Trying \cup Active]
    /\ waited \in [Briefs -> 0 .. Budget]
    /\ lane \in [Procs -> {"hot", "unset"}]
    /\ said \in [Briefs -> {"nothing", "long", "hot", "none"}]

Init ==
    /\ unit = Nobody /\ hot = Nobody /\ long = Nobody
    /\ pc = [p \in Procs |-> "off"]
    /\ waited = [b \in Briefs |-> 0]
    /\ lane = [p \in Procs |-> "unset"]
    /\ said = [b \in Briefs |-> "nothing"]

-----------------------------------------------------------------------------
(* Starting and stopping.                                                   *)

(* A brief may have inherited the override; only its program looks at it.   *)
StartBrief(b) ==
    /\ pc[b] = "off"
    /\ pc' = [pc EXCEPT ![b] = "long"]
    /\ waited' = [waited EXCEPT ![b] = 0]
    /\ \E inherited \in {"hot", "unset"} : lane' = [lane EXCEPT ![b] = inherited]
    /\ said' = [said EXCEPT ![b] = "nothing"]
    /\ UNCHANGED <<unit, hot, long>>

StartFlock(p) ==
    /\ pc[p] = "off"
    /\ pc' = [pc EXCEPT ![p] = "flock"]
    /\ UNCHANGED <<unit, hot, long, waited, lane, said>>

StartSkill(k) ==
    /\ pc[k] = "off"
    /\ pc' = [pc EXCEPT ![k] = "running"]
    /\ UNCHANGED <<unit, hot, long, waited, lane, said>>

Freed(lock, p) == IF lock = p THEN Nobody ELSE lock

(* The program ends, fails, gives up waiting, or is killed (by its timeout, *)
(* by systemd, by a restart of its container): its flocks go with it.       *)
End_KeepsLong(p) ==          \* mutant: the lock outlives its holder
    /\ pc[p] # "off"
    /\ pc' = [pc EXCEPT ![p] = "off"]
    /\ unit' = Freed(unit, p)
    /\ hot' = Freed(hot, p)
    /\ UNCHANGED <<long, waited, lane, said>>

End(p) ==
    /\ pc[p] # "off"
    /\ pc' = [pc EXCEPT ![p] = "off"]
    /\ unit' = Freed(unit, p)
    /\ hot' = Freed(hot, p)
    /\ long' = Freed(long, p)
    /\ UNCHANGED <<waited, lane, said>>

-----------------------------------------------------------------------------
(* acquire and main of brief_lane.py.                                       *)

(* exec of the brief in the long lane, an inherited override removed        *)
RunLong(b) ==
    /\ unit' = b
    /\ pc' = [pc EXCEPT ![b] = "running"]
    /\ lane' = [lane EXCEPT ![b] = "unset"]
    /\ said' = [said EXCEPT ![b] = "long"]
    /\ UNCHANGED <<hot, long, waited>>

(* exec of the brief in the hot lane, the override set                      *)
RunHot(b) ==
    /\ hot' = b
    /\ pc' = [pc EXCEPT ![b] = "running"]
    /\ lane' = [lane EXCEPT ![b] = "hot"]
    /\ said' = [said EXCEPT ![b] = "hot"]
    /\ UNCHANGED <<unit, long, waited>>

(* the end of a round: exit 75, or sleep and start over                     *)
NextRound_RestartsClock(b) ==    \* mutant: t0 is taken in every round
    IF waited[b] >= Budget
    THEN /\ pc' = [pc EXCEPT ![b] = "off"]
         /\ said' = [said EXCEPT ![b] = "none"]
         /\ UNCHANGED <<unit, hot, long, waited, lane>>
    ELSE /\ pc' = [pc EXCEPT ![b] = "long"]
         /\ waited' = [waited EXCEPT ![b] = 0]
         /\ UNCHANGED <<unit, hot, long, lane, said>>

NextRound_OneMore(b) ==          \* mutant: > for >=
    IF waited[b] > Budget
    THEN /\ pc' = [pc EXCEPT ![b] = "off"]
         /\ said' = [said EXCEPT ![b] = "none"]
         /\ UNCHANGED <<unit, hot, long, waited, lane>>
    ELSE /\ pc' = [pc EXCEPT ![b] = "long"]
         /\ waited' = [waited EXCEPT ![b] = @ + 1]
         /\ UNCHANGED <<unit, hot, long, lane, said>>

NextRound(b) ==
    IF waited[b] >= Budget
    THEN /\ pc' = [pc EXCEPT ![b] = "off"]
         /\ said' = [said EXCEPT ![b] = "none"]
         /\ UNCHANGED <<unit, hot, long, waited, lane>>
    ELSE /\ pc' = [pc EXCEPT ![b] = "long"]
         /\ waited' = [waited EXCEPT ![b] = @ + 1]
         /\ UNCHANGED <<unit, hot, long, lane, said>>

TryLong_BudgetFirst(b) ==    \* mutant: the budget is looked at before the hot lane
    /\ pc[b] = "long"
    /\ \/ unit = Nobody /\ RunLong(b)
       \/ /\ unit # Nobody /\ waited[b] >= LongFirst /\ waited[b] < Budget
          /\ pc' = [pc EXCEPT ![b] = "hot"]
          /\ UNCHANGED <<unit, hot, long, waited, lane, said>>
       \/ unit # Nobody /\ (waited[b] < LongFirst \/ waited[b] >= Budget) /\ NextRound(b)

TryLong(b) ==
    /\ pc[b] = "long"
    /\ \/ unit = Nobody /\ RunLong(b)
       \/ /\ unit # Nobody /\ waited[b] >= LongFirst
          /\ pc' = [pc EXCEPT ![b] = "hot"]
          /\ UNCHANGED <<unit, hot, long, waited, lane, said>>
       \/ unit # Nobody /\ waited[b] < LongFirst /\ NextRound(b)

TryHot(b) ==
    /\ pc[b] = "hot"
    /\ \/ hot = Nobody /\ RunHot(b)
       \/ hot # Nobody /\ NextRound(b)

(* flock(1): the unit's program, or the script's one request, runs with the *)
(* lock held.                                                               *)
TakeUnit(p) ==
    /\ pc[p] = "flock" /\ unit = Nobody
    /\ unit' = p
    /\ pc' = [pc EXCEPT ![p] = IF p \in Scripts THEN "posting" ELSE "running"]
    /\ UNCHANGED <<hot, long, waited, lane, said>>

-----------------------------------------------------------------------------
(* One generation: ollama_post_with_retry, around long_runner_lock.         *)

Generate_TrustsUnitLock(p) ==    \* mutant: a unit's lock is taken to be enough
    /\ pc[p] = "running"
    /\ pc' = [pc EXCEPT ![p] = IF lane[p] = "hot" \/ unit = p THEN "posting" ELSE "queue"]
    /\ UNCHANGED <<unit, hot, long, waited, lane, said>>

Generate(p) ==
    /\ pc[p] = "running"
    /\ pc' = [pc EXCEPT ![p] = IF lane[p] = "hot" THEN "posting" ELSE "queue"]
    /\ UNCHANGED <<unit, hot, long, waited, lane, said>>

Post(p) ==
    /\ pc[p] = "queue" /\ long = Nobody
    /\ long' = p
    /\ pc' = [pc EXCEPT ![p] = "posting"]
    /\ UNCHANGED <<unit, hot, waited, lane, said>>

(* answered, refused or timed out; a script has nothing left to do (End)    *)
Answered(p) ==
    /\ pc[p] = "posting" /\ p \notin Scripts
    /\ pc' = [pc EXCEPT ![p] = "running"]
    /\ long' = Freed(long, p)
    /\ UNCHANGED <<unit, hot, waited, lane, said>>

-----------------------------------------------------------------------------
Next ==
    \/ \E b \in Briefs : StartBrief(b) \/ TryLong(b) \/ TryHot(b)
    \/ \E p \in Units \cup Scripts : StartFlock(p) \/ TakeUnit(p)
    \/ \E k \in Skills : StartSkill(k)
    \/ \E p \in Procs : Generate(p) \/ Post(p) \/ Answered(p) \/ End(p)

Spec == Init /\ [][Next]_vars

(* acquire's loop sleeps two seconds and tries again: nothing else is       *)
(* assumed to move, neither the holders of the locks nor the server.        *)
FairSpec == Spec /\ \A b \in Briefs : WF_vars(TryLong(b) \/ TryHot(b))

-----------------------------------------------------------------------------
(* Properties.                                                              *)

HoldsUnit(p) ==
    \/ p \in Units /\ pc[p] \in Active
    \/ p \in Scripts /\ pc[p] = "posting"
    \/ p \in Briefs /\ pc[p] \in Active /\ lane[p] = "unset"

Promoted(p) == p \in Briefs /\ pc[p] \in Active /\ lane[p] = "hot"

LongRunner(p) == pc[p] = "posting" /\ lane[p] = "unset"

(* A lock is held by whoever the code thinks holds it, and by nobody else:  *)
(* the unit lock by the report or brief that runs in the long lane, the hot *)
(* lock by the promoted brief, the generation lock by the one whose request *)
(* is in flight.  Whoever holds the generation lock waits for no lock, and  *)
(* who has ended holds none, so no wait is for ever.                        *)
LocksHeld ==
    /\ \A p \in Procs :
         /\ unit = p <=> HoldsUnit(p)
         /\ hot = p <=> Promoted(p)
         /\ long = p <=> LongRunner(p) /\ p \notin Scripts
    /\ \A p \in Procs \ Briefs : lane[p] = "unset" /\ pc[p] \notin Trying
    /\ \A p \in Scripts : pc[p] \in {"off", "flock", "posting"}
    /\ \A p \in Briefs \cup Skills : pc[p] # "flock"
    /\ \A p \in Procs : pc[p] = "queue" => lane[p] = "unset"

(* At most one request at a time goes around the generation lock on the     *)
(* strength of a promotion (llm.py, ollama_post_with_retry), whatever       *)
(* environment the briefs were started with.                                *)
OnePromoted ==
    \A p, q \in Procs :
        (pc[p] = "posting" /\ lane[p] = "hot" /\ pc[q] = "posting" /\ lane[q] = "hot") => p = q

(* "one long runner in flight, ever, across every container on the box"     *)
(* (llama_pool.py) "No 2 long runners can run together either EVER"         *)
(* (local-llm-synthesize.sh).                                               *)
OneLongRunner ==
    \A p, q \in Procs : LongRunner(p) /\ LongRunner(q) => p = q

(* What the locks do give: two long runners in flight are a script, which   *)
(* has only the unit lock, and a skill, which has only the generation lock. *)
LongRunnersExclude ==
    \A p, q \in Procs :
        LongRunner(p) /\ LongRunner(q) /\ p # q
            => \/ p \in Scripts /\ q \in Skills
               \/ p \in Skills /\ q \in Scripts

(* A brief gives up (exit 75) only while another brief is promoted: reports *)
(* alone, however long they run, cost it the wait and never the run (the    *)
(* hourly skips brief_lane.py was written to end).                          *)
SkippedBehindABrief ==
    [][\A b \in Briefs : said[b] # "none" /\ said'[b] = "none"
           => \E c \in Briefs \ {b} : Promoted(c)]_vars

(* A brief that waits for a lane gets one or says so and exits, even if no  *)
(* lock is ever released.                                                   *)
BriefDecides ==
    \A b \in Briefs : pc[b] \in Trying ~> pc[b] \notin Trying
=============================================================================
