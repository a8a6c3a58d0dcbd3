------------------------ MODULE AlertPipeline_proofs ------------------------
(***************************************************************************)
(* Proofs about AlertPipeline for every set of callers, slots, rules and    *)
(* hits, and every threshold, bucket, reminder period and fault.  The       *)
(* inductive invariant is TypeOK /\ StateFresh.                             *)
(***************************************************************************)
EXTENDS AlertPipeline, TLAPS

USE PipelineAssumption, ScaleAssumption DEF PipelineAssumption, ScaleAssumption

(* The arithmetic of the thresholds is on the values of times there are.    *)
Timed(x) == \A k \in Usable(x.times) : x.times[k] \in Nat

LEMMA HitTimes == \A h \in Hits : Timed(h)
<1> SUFFICES ASSUME NEW h \in Hits PROVE Timed(h)
  OBVIOUS
<1>1. PICK s \in Slots : h.times \in [TimesOf[s] -> Nat \cup {NoTime}]
  BY DEF Hits
<1> QED
  BY <1>1 DEF Timed, Usable

LEMMA RuleType == \A s \in Slots : RuleOf[s] \in Rules
  OBVIOUS

-----------------------------------------------------------------------------
(* What the decision can answer.                                            *)

LEMMA OutcomeType ==
  ASSUME NEW rule, NEW prior, NEW hit, NEW airborne, NEW n
  PROVE  Outcome(rule, prior, hit, airborne, n) \in Outcomes \ Passthroughs
<1>1. IdentityOutcome(prior, hit) \in Outcomes \ Passthroughs
  BY DEF IdentityOutcome, Outcomes, Suppressions, Passthroughs
<1>2. OpsOutcome(rule, prior, hit, n) \in Outcomes \ Passthroughs
  BY DEF OpsOutcome, Outcomes, Suppressions, Passthroughs
<1>3. ChangeOutcome(rule, prior, hit, airborne, n) \in Outcomes \ Passthroughs
  BY DEF ChangeOutcome, Outcomes, Suppressions, Passthroughs
<1> QED
  BY <1>1, <1>2, <1>3 DEF Outcome

(* "below" has a priority whenever the decision uses it.                    *)
LEMMA BelowIsSent ==
  ASSUME NEW rule, NEW prior, NEW hit, NEW airborne, NEW n,
         Outcome(rule, prior, hit, airborne, n) = "moved_below"
  PROVE  rule.below # NotSent
<1>1. IdentityOutcome(prior, hit) # "moved_below"
  BY DEF IdentityOutcome
<1>2. OpsOutcome(rule, prior, hit, n) # "moved_below"
  BY DEF OpsOutcome
<1>3. ChangeOutcome(rule, prior, hit, airborne, n) = "moved_below" => rule.below # NotSent
  BY DEF ChangeOutcome
<1> QED
  BY <1>1, <1>2, <1>3 DEF Outcome

LEMMA PriorityType ==
  ASSUME NEW rule \in Rules, NEW outcome \in Outcomes \ Suppressions, NEW requested \in Requests,
         outcome = "moved_below" => rule.below # NotSent
  PROVE  PriorityFor(rule, outcome, requested) \in 3 .. 5
  BY DEF PriorityFor, Rules, Outcomes, Suppressions, Passthroughs, Requests, NotSent

(* A push that is neither a passthrough nor a reminder has something new to *)
(* say, when change rules that do not insist on a time get one all the same.*)
LEMMA FiringIsNews ==
  ASSUME NEW rule \in Rules, NEW prior, NEW hit, NEW airborne, NEW n,
         Timed(hit), prior # NoPrior => Timed(prior),
         rule.cls \notin {"approval", "unregistered"},
         rule.cls = "change" /\ ~rule.requireTime => Usable(hit.times) # {},
         Outcome(rule, prior, hit, airborne, n) \notin Suppressions \cup {"still_active_heartbeat"}
  PROVE  \/ prior = NoPrior
         \/ prior.ident # hit.ident
         \/ rule.cls = "change" /\ prior.times # hit.times
<1>1. CASE rule.cls \in {"milestone", "status"}
  BY <1>1 DEF Outcome, IdentityOutcome, Suppressions
<1>2. CASE rule.cls = "ops"
  BY <1>2 DEF Outcome, OpsOutcome, Suppressions
<1>3. CASE rule.cls = "change"
  <2> SUFFICES ASSUME prior # NoPrior, prior.ident = hit.ident, prior.times = hit.times
               PROVE  FALSE
    BY <1>3
  <2>1. Outcome(rule, prior, hit, airborne, n) = ChangeOutcome(rule, prior, hit, airborne, n)
    BY <1>3 DEF Outcome
  <2>2. Usable(hit.times) # {} /\ Compared(prior, hit) = Usable(hit.times)
    BY <1>3, <2>1 DEF ChangeOutcome, Suppressions, Compared
  <2>3. \A k \in Compared(prior, hit) :
          ~(Moved(rule, hit.times[k], prior.times[k]) >= Threshold)
    BY <2>2 DEF Moved, Timed
  <2>4. ~HasMoved(rule, prior, hit)
    BY <2>3 DEF HasMoved
  <2> QED
    BY <2>1, <2>2, <2>4 DEF ChangeOutcome, Suppressions
<1> QED
  BY <1>1, <1>2, <1>3 DEF Rules

(* What an unchanged ops state is pushed for is a reminder that is due.     *)
LEMMA ReminderIsDue ==
  ASSUME NEW rule, rule.cls = "ops", NEW prior, NEW hit, NEW airborne, NEW n,
         Outcome(rule, prior, hit, airborne, n) \notin Suppressions
  PROVE  \/ prior = NoPrior
         \/ prior.ident # hit.ident
         \/ n - prior.at >= Heartbeat
  BY DEF Outcome, OpsOutcome, Suppressions

(* What is withheld as unchanged is close to what was told.                 *)
LEMMA WithheldIsClose ==
  ASSUME NEW rule \in Rules, NEW prior, NEW hit, NEW airborne, NEW n,
         Timed(hit), prior # NoPrior => Timed(prior),
         Outcome(rule, prior, hit, airborne, n) \in {"unchanged", "unchanged_within_bucket"}
  PROVE  KeepsUp(rule, prior, hit)
<1>1. CASE rule.cls \in {"milestone", "status"}
  BY <1>1 DEF Outcome, IdentityOutcome, KeepsUp
<1>2. CASE rule.cls = "ops"
  BY <1>2 DEF Outcome, OpsOutcome, KeepsUp
<1>3. CASE rule.cls \notin {"milestone", "status", "ops"}
  <2>1. ChangeOutcome(rule, prior, hit, airborne, n) \in {"unchanged", "unchanged_within_bucket"}
    BY <1>3 DEF Outcome
  <2>2. /\ prior # NoPrior /\ prior.ident = hit.ident
        /\ ~HasMoved(rule, prior, hit)
        /\ ~(/\ InBuckets(hit.times) # InBuckets(prior.times)
             /\ rule.below # NotSent /\ ~rule.tighten)
    BY <2>1 DEF ChangeOutcome
  <2>3. ASSUME NEW k \in Compared(prior, hit)
        PROVE  /\ hit.times[k] < prior.times[k] + Threshold
               /\ ~rule.tighten => prior.times[k] < hit.times[k] + Threshold
    <3>1. hit.times[k] \in Nat /\ prior.times[k] \in Nat
      BY <2>2 DEF Compared, Timed
    <3>2. ~(Moved(rule, hit.times[k], prior.times[k]) >= Threshold)
      BY <2>2 DEF HasMoved
    <3> QED
      BY <3>1, <3>2 DEF Moved
  <2> QED
    BY <2>2, <2>3 DEF KeepsUp
<1> QED
  BY <1>1, <1>2, <1>3

-----------------------------------------------------------------------------
(* Types.                                                                   *)

LEMMA RowType ==
  /\ NoPrior \in SlotRow
  /\ \A h \in Hits : \A t \in 0 .. MaxNow : Fired(h, t) \in SlotRow
  /\ \A r \in SlotRow : r # NoPrior => Timed(r)
<1>1. \A h \in Hits : \A t \in 0 .. MaxNow : Fired(h, t).times = h.times
  BY DEF Fired
<1> QED
  BY <1>1, HitTimes DEF SlotRow, Timed

LEMMA HitType == \A s \in Slots : \A h \in HitsOf[s] : h \in Hits
  BY DEF Hits

(* What the program counter of a caller says of its other fields.           *)
LEMMA AtWork ==
  ASSUME TypeOK, NEW c \in Callers
  PROVE  /\ callers[c].pc = "judge" => callers[c] \in Judging
         /\ callers[c].pc = "send" => callers[c] \in Sending
         /\ callers[c].pc = "record" => callers[c] \in Recording
  BY DEF TypeOK, Idle, Judging, Sending, Recording

LEMMA InitType == Init => TypeOK
  BY RowType DEF Init, TypeOK

(* A push that fires.                                                       *)
LEMMA FireType ==
  ASSUME TypeOK, NEW c \in Callers, NEW s \in Slots, NEW h \in Hits,
         NEW requested \in Requests, NEW outcome \in Outcomes \ Suppressions,
         outcome = "moved_below" => RuleOf[s].below # NotSent,
         Fire(c, s, h, outcome, requested)
  PROVE  /\ callers' \in [Callers -> {Idle} \cup Judging \cup Sending \cup Recording]
         /\ fired' \in [Slots -> SlotRow]
         /\ news' \in {Nothing} \cup [outcome : Outcomes, slot : Slots, hit : Hits]
<1>1. PriorityFor(RuleOf[s], outcome, requested) \in 3 .. 5
  BY RuleType, PriorityType
<1>2. [pc |-> "send", slot |-> s, hit |-> h,
       priority |-> PriorityFor(RuleOf[s], outcome, requested)] \in Sending
  BY <1>1 DEF Sending
<1>3. Fired(h, now) \in SlotRow
  BY RowType DEF TypeOK
<1>4. [outcome |-> outcome, slot |-> s, hit |-> h]
        \in [outcome : Outcomes, slot : Slots, hit : Hits]
  OBVIOUS
<1> QED
  BY <1>2, <1>3, <1>4 DEF Fire, TypeOK

(* What a caller is about to decide.                                        *)
LEMMA JudgedType ==
  ASSUME TypeOK, NEW c \in Callers, callers[c].pc = "judge", NEW airborne \in BOOLEAN
  PROVE  /\ callers[c].slot \in Slots /\ callers[c].hit \in Hits
         /\ callers[c].requested \in Requests /\ callers[c].prior \in SlotRow
         /\ RuleOf[callers[c].slot] \in Rules
         /\ Judged(c, airborne) \in Outcomes \ Passthroughs
         /\ Judged(c, airborne) = "moved_below" => RuleOf[callers[c].slot].below # NotSent
<1>1. callers[c] \in Judging
  BY AtWork
<1>2. /\ callers[c].slot \in Slots /\ callers[c].hit \in Hits
      /\ callers[c].requested \in Requests /\ callers[c].prior \in SlotRow
  BY <1>1 DEF Judging
<1> QED
  BY <1>2, RuleType, OutcomeType, BelowIsSent DEF Judged

LEMMA StepType == TypeOK /\ [Next]_vars => TypeOK'
<1> SUFFICES ASSUME TypeOK, [Next]_vars PROVE TypeOK'
  OBVIOUS
<1> USE DEF ghosts
<1>1. ASSUME Tick PROVE TypeOK'
  BY <1>1 DEF Tick, TypeOK
<1>2. ASSUME RetrySweep PROVE TypeOK'
  <2>1. PICK ok \in SUBSET Pending :
          /\ history' = [s \in Slots |-> IF s \in ok THEN [history[s] EXCEPT !.fired = 1]
                                                     ELSE history[s]]
          /\ heard' = [s \in Slots |-> IF s \in ok THEN history[s].hit ELSE heard[s]]
    BY <1>2 DEF RetrySweep
  <2>2. \A s \in ok : history[s] \in [fired : {0, 1, 2}, hit : Hits]
    BY DEF Pending, NoRow, TypeOK
  <2>3. \A s \in ok : /\ [history[s] EXCEPT !.fired = 1] \in [fired : {0, 1, 2}, hit : Hits]
                      /\ history[s].hit \in Hits
    BY <2>2
  <2> QED
    BY <1>2, <2>1, <2>3 DEF RetrySweep, TypeOK
<1>3. ASSUME NEW c \in Callers, NEW s \in busy, NEW h \in HitsOf[s], NEW requested \in Requests,
             PassHit(c, s, h, requested)
      PROVE  TypeOK'
  <2>1. s \in Slots /\ h \in Hits
    BY HitType DEF TypeOK
  <2>2. PICK outcome \in Passthrough(s, requested) : Fire(c, s, h, outcome, requested)
    BY <1>3 DEF PassHit
  <2>3. outcome \in Passthroughs
    BY <2>2 DEF Passthrough, Passthroughs
  <2>4. outcome \in Outcomes \ Suppressions /\ outcome # "moved_below"
    BY <2>3 DEF Passthroughs, Outcomes, Suppressions
  <2> QED
    BY <1>3, <2>1, <2>2, <2>4, FireType DEF PassHit, TypeOK
<1>4. ASSUME NEW c \in Callers, NEW s \in busy, NEW h \in HitsOf[s], NEW requested \in Requests,
             LoadHit(c, s, h, requested)
      PROVE  TypeOK'
  <2>1. s \in Slots /\ h \in Hits
    BY HitType DEF TypeOK
  <2>2. [pc |-> "judge", slot |-> s, hit |-> h, requested |-> requested,
         prior |-> slots[s]] \in Judging
    BY <2>1 DEF Judging, TypeOK
  <2> QED
    BY <1>4, <2>2 DEF LoadHit, TypeOK
<1>5. ASSUME NEW c \in Callers, NEW airborne \in BOOLEAN, Suppress(c, airborne) PROVE TypeOK'
  <2>1. callers[c].slot \in Slots /\ callers[c].hit \in Hits
    BY <1>5, JudgedType DEF Suppress
  <2>2. [pc |-> "record", slot |-> callers[c].slot, hit |-> callers[c].hit, fired |-> 2]
          \in Recording
    BY <2>1 DEF Recording
  <2>3. offered' \in [Slots -> {NoPrior} \cup Hits]
    BY <1>5, <2>1 DEF Suppress, NowOffered, TypeOK
  <2> QED
    BY <1>5, <2>2, <2>3 DEF Suppress, TypeOK
<1>6. ASSUME NEW c \in Callers, NEW airborne \in BOOLEAN, Store(c, airborne) PROVE TypeOK'
  <2>1. /\ callers[c].slot \in Slots /\ callers[c].hit \in Hits
        /\ callers[c].requested \in Requests
        /\ Judged(c, airborne) \in Outcomes \ Suppressions
        /\ Judged(c, airborne) = "moved_below" => RuleOf[callers[c].slot].below # NotSent
    BY <1>6, JudgedType DEF Store
  <2>2. Fire(c, callers[c].slot, callers[c].hit, Judged(c, airborne), callers[c].requested)
    BY <1>6 DEF Store
  <2>3. offered' \in [Slots -> {NoPrior} \cup Hits]
    BY <1>6, <2>1 DEF Store, NowOffered, TypeOK
  <2>4. slots' \in [Slots -> SlotRow]
    BY <1>6, <2>1, RowType DEF Store, TypeOK
  <2> QED
    BY <1>6, <2>1, <2>2, <2>3, <2>4, FireType DEF Store, TypeOK
<1>7. ASSUME NEW c \in Callers, NEW airborne \in BOOLEAN, StoreFails(c, airborne) PROVE TypeOK'
  <2>1. /\ callers[c].slot \in Slots /\ callers[c].hit \in Hits
        /\ callers[c].requested \in Requests
    BY <1>7, JudgedType DEF StoreFails
  <2>2. /\ "state_unavailable" \in Outcomes \ Suppressions
        /\ "state_unavailable" # "moved_below"
    BY DEF Outcomes, Suppressions, Passthroughs
  <2>3. Fire(c, callers[c].slot, callers[c].hit, "state_unavailable", callers[c].requested)
    BY <1>7 DEF StoreFails
  <2> QED
    BY <1>7, <2>1, <2>2, <2>3, FireType DEF StoreFails, TypeOK
<1>8. ASSUME NEW c \in Callers, Send(c) PROVE TypeOK'
  <2>1. callers[c].slot \in Slots /\ callers[c].hit \in Hits
    BY <1>8, AtWork DEF Send, Sending
  <2>2. [pc |-> "record", slot |-> callers[c].slot, hit |-> callers[c].hit, fired |-> 1]
          \in Recording
    BY <2>1 DEF Recording
  <2> QED
    BY <1>8, <2>1, <2>2 DEF Send, TypeOK
<1>9. ASSUME NEW c \in Callers, RecordHit(c) PROVE TypeOK'
  <2>1. callers[c].slot \in Slots /\ callers[c].hit \in Hits /\ callers[c].fired \in {1, 2}
    BY <1>9, AtWork DEF RecordHit, Recording
  <2> QED
    BY <1>9, <2>1 DEF RecordHit, TypeOK
<1>10. ASSUME NEW c \in Callers, Crash(c) PROVE TypeOK'
  BY <1>10 DEF Crash, TypeOK
<1>11. ASSUME UNCHANGED vars PROVE TypeOK'
  BY <1>11 DEF vars, TypeOK
<1> QED
  BY <1>1, <1>2, <1>3, <1>4, <1>5, <1>6, <1>7, <1>8, <1>9, <1>10, <1>11 DEF Next

(* Every slot, caller and history row keeps its type: no push goes out with *)
(* a priority outside 3 .. 5, whatever the rules and the faults.            *)
THEOREM TypeCorrect == Spec => []TypeOK
  BY InitType, StepType, PTL DEF Spec

-----------------------------------------------------------------------------
(* StateFresh is inductive.                                                 *)

(* A caller that stops judging, or never was, takes nothing from the others.*)
LEMMA FewerJudging ==
  ASSUME TypeOK, StateFresh, slots' = slots, fired' = fired,
         NEW c \in Callers, callers'[c].pc # "judge",
         \A d \in Callers : d # c => callers'[d] = callers[d]
  PROVE  StateFresh'
<1>1. \A d \in Callers, s \in Slots : JudgingSlot(d, s)' =>
        d # c /\ JudgingSlot(d, s) /\ callers'[d] = callers[d]
  BY DEF JudgingSlot
<1> QED
  BY <1>1 DEF StateFresh

LEMMA StepFresh == TypeOK /\ StateFresh /\ [Next]_vars => StateFresh'
<1> SUFFICES ASSUME TypeOK, StateFresh, [Next]_vars PROVE StateFresh'
  OBVIOUS
<1> USE DEF ghosts
<1>1. ASSUME Tick \/ RetrySweep \/ UNCHANGED vars PROVE StateFresh'
  <2>1. slots' = slots /\ fired' = fired /\ callers' = callers
    BY <1>1 DEF Tick, RetrySweep, vars
  <2> QED
    BY <2>1 DEF StateFresh, JudgingSlot
<1>2. ASSUME NEW c \in Callers, NEW s \in busy, NEW h \in HitsOf[s], NEW requested \in Requests,
             PassHit(c, s, h, requested)
      PROVE  StateFresh'
  <2>1. PICK outcome \in Passthroughs : Fire(c, s, h, outcome, requested)
    BY <1>2 DEF PassHit, Passthrough, Passthroughs
  <2> QED
    BY <1>2, <2>1, FewerJudging DEF PassHit, Fire, TypeOK
<1>3. ASSUME NEW c \in Callers, NEW s \in busy, NEW h \in HitsOf[s], NEW requested \in Requests,
             LoadHit(c, s, h, requested)
      PROVE  StateFresh'
  <2>1. /\ slots' = slots /\ fired' = fired
        /\ \A d \in Callers : d # c => callers'[d] = callers[d]
        /\ callers'[c].pc = "judge" /\ callers'[c].slot = s /\ callers'[c].prior = slots[s]
        /\ callers'[c].hit = h /\ Judges(s)
    BY <1>3 DEF LoadHit, TypeOK
  <2>2. ~Overlap => \A d \in Callers : ~JudgingSlot(d, s)
    BY <1>3 DEF LoadHit, Quiet
  <2>3. \A d \in Callers, r \in Slots : JudgingSlot(d, r)' =>
          \/ d = c /\ r = s
          \/ d # c /\ JudgingSlot(d, r) /\ callers'[d] = callers[d]
    BY <2>1 DEF JudgingSlot
  <2> QED
    BY <2>1, <2>2, <2>3 DEF StateFresh
<1>4. ASSUME NEW c \in Callers, NEW airborne \in BOOLEAN, Suppress(c, airborne) PROVE StateFresh'
  <2>1. callers'[c].pc # "judge"
    BY <1>4 DEF Suppress, Idle, TypeOK
  <2> QED
    BY <1>4, <2>1, FewerJudging DEF Suppress, TypeOK
<1>5. ASSUME NEW c \in Callers, NEW airborne \in BOOLEAN, Store(c, airborne) PROVE StateFresh'
  <2>1. /\ callers[c].slot \in Slots /\ Judged(c, airborne) \notin Passthroughs
        /\ JudgingSlot(c, callers[c].slot)
    BY <1>5, JudgedType DEF Store, JudgingSlot
  <2>2. /\ slots' = [slots EXCEPT ![callers[c].slot] = Fired(callers[c].hit, now)]
        /\ fired' = [fired EXCEPT ![callers[c].slot] = Fired(callers[c].hit, now)]
        /\ callers'[c].pc # "judge"
        /\ \A d \in Callers : d # c => callers'[d] = callers[d]
    BY <1>5, <2>1 DEF Store, Fire, TypeOK
  <2>3. \A d \in Callers, r \in Slots : JudgingSlot(d, r)' =>
          d # c /\ JudgingSlot(d, r) /\ callers'[d] = callers[d]
    BY <2>2 DEF JudgingSlot
  <2>4. slots' = fired'
    BY <2>2 DEF StateFresh
  <2>5. ~Overlap => \A d \in Callers, r \in Slots : JudgingSlot(d, r)' =>
          r # callers[c].slot /\ slots'[r] = slots[r]
    BY <2>1, <2>2, <2>3 DEF StateFresh, TypeOK
  <2> QED
    BY <2>3, <2>4, <2>5 DEF StateFresh
<1>6. ASSUME NEW c \in Callers, NEW airborne \in BOOLEAN, StoreFails(c, airborne)
      PROVE  StateFresh'
  <2>1. "state_unavailable" \in Passthroughs
    BY DEF Passthroughs
  <2> QED
    BY <1>6, <2>1, FewerJudging DEF StoreFails, Fire, TypeOK
<1>7. ASSUME NEW c \in Callers, Send(c) PROVE StateFresh'
  BY <1>7, FewerJudging DEF Send, TypeOK
<1>8. ASSUME NEW c \in Callers, RecordHit(c) \/ Crash(c) PROVE StateFresh'
  <2>1. slots' = slots /\ fired' = fired /\ callers' = [callers EXCEPT ![c] = Idle]
    BY <1>8 DEF RecordHit, Crash
  <2> QED
    BY <2>1, FewerJudging DEF Idle, TypeOK
<1> QED
  BY <1>1, <1>2, <1>3, <1>4, <1>5, <1>6, <1>7, <1>8 DEF Next

(* The slot holds what was last fired, whatever fails; without overlap a    *)
(* decision is taken on the slot's own row.                                 *)
THEOREM FreshState == Spec => [](TypeOK /\ StateFresh)
<1>1. Init => StateFresh
  BY DEF Init, StateFresh, JudgingSlot, Idle
<1> QED
  BY <1>1, InitType, StepType, StepFresh, PTL DEF Spec

-----------------------------------------------------------------------------
(* The properties, when no other hit on a slot overlaps the judging of one. *)

(* A hit is judged against the values last fired for its slot.              *)
LEMMA DecidedOnFired ==
  ASSUME TypeOK, StateFresh, ~Overlap, NEW c \in Callers, callers[c].pc = "judge",
         NEW airborne \in BOOLEAN
  PROVE  LET s == callers[c].slot
             h == callers[c].hit
         IN /\ s \in Slots /\ RuleOf[s] \in Rules /\ Judges(s)
            /\ h \in HitsOf[s] /\ Timed(h)
            /\ fired[s] # NoPrior => Timed(fired[s])
            /\ Judged(c, airborne) = Outcome(RuleOf[s], fired[s], h, airborne, now)
<1> DEFINE s == callers[c].slot
<1>1. /\ s \in Slots /\ RuleOf[s] \in Rules /\ JudgingSlot(c, s)
  BY JudgedType DEF JudgingSlot
<1>2. /\ Judges(s) /\ callers[c].hit \in HitsOf[s]
      /\ callers[c].prior = fired[s]
  BY <1>1 DEF StateFresh
<1>3. Timed(callers[c].hit)
  BY <1>1, <1>2, HitType, HitTimes
<1>4. fired[s] # NoPrior => Timed(fired[s])
  BY <1>1, RowType DEF TypeOK
<1> QED
  BY <1>1, <1>2, <1>3, <1>4 DEF Judged

(* Only Store fires a push that is no passthrough.                          *)
LEMMA WhoFires ==
  ASSUME TypeOK, Next, news' # Nothing, news'.outcome \notin Passthroughs
  PROVE  \E c \in Callers, airborne \in BOOLEAN :
            /\ Store(c, airborne) /\ callers[c].pc = "judge"
            /\ news' = [outcome |-> Judged(c, airborne), slot |-> callers[c].slot,
                        hit |-> callers[c].hit]
            /\ Judged(c, airborne) \notin Suppressions
<1>1. ASSUME NEW c \in Callers, NEW s \in busy, NEW h \in HitsOf[s], NEW requested \in Requests,
             PassHit(c, s, h, requested)
      PROVE  FALSE
  <2>1. PICK outcome \in Passthroughs : Fire(c, s, h, outcome, requested)
    BY <1>1 DEF PassHit, Passthrough, Passthroughs
  <2> QED
    BY <2>1 DEF Fire
<1>2. ASSUME NEW c \in Callers, NEW airborne \in BOOLEAN, StoreFails(c, airborne) PROVE FALSE
  BY <1>2 DEF StoreFails, Fire, Passthroughs
<1>3. ASSUME NEW c \in Callers, NEW airborne \in BOOLEAN, Store(c, airborne)
      PROVE  /\ callers[c].pc = "judge"
             /\ news' = [outcome |-> Judged(c, airborne), slot |-> callers[c].slot,
                         hit |-> callers[c].hit]
             /\ Judged(c, airborne) \notin Suppressions
  BY <1>3 DEF Store, Fire
<1>4. ~Tick /\ ~RetrySweep
  BY DEF Tick, RetrySweep
<1>5. ASSUME NEW c \in Callers, Send(c) \/ RecordHit(c) \/ Crash(c) PROVE FALSE
  BY <1>5 DEF Send, RecordHit, Crash
<1>6. ASSUME NEW c \in Callers, NEW s \in busy, NEW h \in HitsOf[s], NEW requested \in Requests,
             LoadHit(c, s, h, requested)
      PROVE  FALSE
  BY <1>6 DEF LoadHit
<1>7. ASSUME NEW c \in Callers, NEW airborne \in BOOLEAN, Suppress(c, airborne) PROVE FALSE
  BY <1>7 DEF Suppress
<1> QED
  BY <1>1, <1>2, <1>3, <1>4, <1>5, <1>6, <1>7 DEF Next

(* The change rules that accept hits without a time get none: the registry  *)
(* has kinds for which the code cannot promise this.                        *)
TimedHits ==
  \A s \in Slots : RuleOf[s].cls = "change" /\ ~RuleOf[s].requireTime =>
                     \A h \in HitsOf[s] : Usable(h.times) # {}

(* An unchanged value is not pushed again, reminders and passthroughs       *)
(* apart.                                                                   *)
THEOREM NothingRepeats == ~Overlap /\ TimedHits => (Spec => NoRepeat)
<1> SUFFICES ASSUME ~Overlap, TimedHits PROVE Spec => NoRepeat
  OBVIOUS
<1> DEFINE A == (/\ news' # Nothing
                 /\ news'.outcome \notin Passthroughs \cup {"still_active_heartbeat"})
                => LET last == fired[news'.slot] IN
                     \/ last = NoPrior
                     \/ last.ident # news'.hit.ident
                     \/ RuleOf[news'.slot].cls = "change" /\ last.times # news'.hit.times
<1>1. TypeOK /\ StateFresh /\ Next => A
  <2> SUFFICES ASSUME TypeOK, StateFresh, Next, news' # Nothing,
                      news'.outcome \notin Passthroughs \cup {"still_active_heartbeat"}
               PROVE  LET last == fired[news'.slot] IN
                        \/ last = NoPrior
                        \/ last.ident # news'.hit.ident
                        \/ RuleOf[news'.slot].cls = "change" /\ last.times # news'.hit.times
    OBVIOUS
  <2>1. PICK c \in Callers, airborne \in BOOLEAN :
          /\ callers[c].pc = "judge"
          /\ news' = [outcome |-> Judged(c, airborne), slot |-> callers[c].slot,
                      hit |-> callers[c].hit]
          /\ Judged(c, airborne) \notin Suppressions
    BY WhoFires
  <2> DEFINE s == callers[c].slot
             h == callers[c].hit
  <2>2. /\ s \in Slots /\ RuleOf[s] \in Rules /\ Judges(s)
        /\ h \in HitsOf[s] /\ Timed(h)
        /\ fired[s] # NoPrior => Timed(fired[s])
        /\ Judged(c, airborne) = Outcome(RuleOf[s], fired[s], h, airborne, now)
    BY <2>1, DecidedOnFired
  <2>3. RuleOf[s].cls = "change" /\ ~RuleOf[s].requireTime => Usable(h.times) # {}
    BY <2>2 DEF TimedHits
  <2>4. Outcome(RuleOf[s], fired[s], h, airborne, now)
          \notin Suppressions \cup {"still_active_heartbeat"}
    BY <2>1, <2>2
  <2>5. RuleOf[s] \in Rules /\ RuleOf[s].cls \notin {"approval", "unregistered"}
    BY <2>2 DEF Judges
  <2>6. Timed(h) /\ (fired[s] # NoPrior => Timed(fired[s]))
    BY <2>2
  <2>7. \/ fired[s] = NoPrior
        \/ fired[s].ident # h.ident
        \/ RuleOf[s].cls = "change" /\ fired[s].times # h.times
    <3> HIDE DEF s, h
    <3> QED BY ONLY <2>3, <2>4, <2>5, <2>6, FiringIsNews
  <2> QED
    BY <2>1, <2>7
<1>2. TypeOK /\ StateFresh /\ [Next]_vars => [A]_vars
  BY <1>1
<1> QED
  BY <1>2, FreshState, PTL DEF NoRepeat, Spec

(* Pushes about an ops state that has not changed are a reminder period     *)
(* apart.                                                                   *)
THEOREM RemindersSpaced == ~Overlap => (Spec => HeartbeatSpaced)
<1> SUFFICES ASSUME ~Overlap PROVE Spec => HeartbeatSpaced
  OBVIOUS
<1> DEFINE A == (/\ news' # Nothing
                 /\ news'.outcome \notin Passthroughs
                 /\ RuleOf[news'.slot].cls = "ops")
                => LET last == fired[news'.slot] IN
                     \/ last = NoPrior
                     \/ last.ident # news'.hit.ident
                     \/ now - last.at >= Heartbeat
<1>1. TypeOK /\ StateFresh /\ Next => A
  <2> SUFFICES ASSUME TypeOK, StateFresh, Next, news' # Nothing,
                      news'.outcome \notin Passthroughs, RuleOf[news'.slot].cls = "ops"
               PROVE  LET last == fired[news'.slot] IN
                        \/ last = NoPrior
                        \/ last.ident # news'.hit.ident
                        \/ now - last.at >= Heartbeat
    OBVIOUS
  <2>1. PICK c \in Callers, airborne \in BOOLEAN :
          /\ callers[c].pc = "judge"
          /\ news' = [outcome |-> Judged(c, airborne), slot |-> callers[c].slot,
                      hit |-> callers[c].hit]
          /\ Judged(c, airborne) \notin Suppressions
    BY WhoFires
  <2> DEFINE s == callers[c].slot
             h == callers[c].hit
  <2>2. Judged(c, airborne) = Outcome(RuleOf[s], fired[s], h, airborne, now)
    BY <2>1, DecidedOnFired
  <2>3. RuleOf[s].cls = "ops"
    BY <2>1
  <2>4. fired[s] = NoPrior \/ fired[s].ident # h.ident \/ now - fired[s].at >= Heartbeat
    BY <2>1, <2>2, <2>3, ReminderIsDue
  <2> QED
    BY <2>1, <2>4
<1>2. TypeOK /\ StateFresh /\ [Next]_vars => [A]_vars
  BY <1>1
<1> QED
  BY <1>2, FreshState, PTL DEF HeartbeatSpaced, Spec

-----------------------------------------------------------------------------
(* What was last fired never drifts away from what was last judged.         *)

LEMMA FiredIsPrior == \A h, t : Fired(h, t) # NoPrior
<1> SUFFICES ASSUME NEW h, NEW t PROVE Fired(h, t) # NoPrior
  OBVIOUS
<1>1. DOMAIN Fired(h, t) = {"ident", "times", "at"} /\ DOMAIN NoPrior = {"ident"}
  BY DEF Fired, NoPrior
<1> QED
  BY <1>1

LEMMA KeepsUpWithItself ==
  ASSUME NEW rule, NEW h, Timed(h), NEW t
  PROVE  KeepsUp(rule, Fired(h, t), h)
<1>1. Fired(h, t).ident = h.ident /\ Fired(h, t).times = h.times
  BY DEF Fired
<1> QED
  BY <1>1, FiredIsPrior DEF KeepsUp, Compared, Timed

LEMMA StepDrift ==
  TypeOK /\ StateFresh /\ ~Overlap /\ DriftBounded /\ [Next]_vars => DriftBounded'
<1> SUFFICES ASSUME TypeOK, StateFresh, ~Overlap, DriftBounded, [Next]_vars
             PROVE  DriftBounded'
  OBVIOUS
<1>1. ASSUME fired' = fired, offered' = offered PROVE DriftBounded'
  BY <1>1 DEF DriftBounded
<1>2. ASSUME NEW c \in Callers, NEW airborne \in BOOLEAN, Suppress(c, airborne)
      PROVE  DriftBounded'
  <2> DEFINE s == callers[c].slot
             h == callers[c].hit
  <2>1. callers[c].pc = "judge" /\ Judged(c, airborne) \in Suppressions /\ fired' = fired
        /\ offered' = NowOffered(c, Judged(c, airborne))
    BY <1>2 DEF Suppress
  <2>2. CASE Judged(c, airborne) \in {"no_usable_value", "past_while_on_ground"}
    BY <1>1, <2>1, <2>2 DEF NowOffered
  <2>3. CASE Judged(c, airborne) \in {"unchanged", "unchanged_within_bucket"}
    <3>1. /\ s \in Slots /\ RuleOf[s] \in Rules /\ Timed(h)
          /\ fired[s] # NoPrior => Timed(fired[s])
          /\ Judged(c, airborne) = Outcome(RuleOf[s], fired[s], h, airborne, now)
      BY <2>1, DecidedOnFired
    <3>2. KeepsUp(RuleOf[s], fired[s], h)
      BY <2>3, <3>1, WithheldIsClose
    <3>3. offered' = [offered EXCEPT ![s] = h]
      BY <2>1, <2>3 DEF NowOffered
    <3> SUFFICES ASSUME NEW u \in Slots, offered'[u] # NoPrior
                 PROVE  KeepsUp(RuleOf[u], fired'[u], offered'[u])
      BY DEF DriftBounded
    <3>4. fired'[u] = fired[u] /\ offered'[u] = IF u = s THEN h ELSE offered[u]
      BY <2>1, <3>3 DEF TypeOK
    <3>5. CASE u = s
      BY <3>2, <3>4, <3>5
    <3>6. CASE u # s
      BY <3>4, <3>6 DEF DriftBounded
    <3> QED
      BY <3>5, <3>6
  <2> QED
    BY <2>1, <2>2, <2>3 DEF Suppressions
<1>3. ASSUME NEW c \in Callers, NEW airborne \in BOOLEAN, Store(c, airborne)
      PROVE  DriftBounded'
  <2> DEFINE s == callers[c].slot
             h == callers[c].hit
  <2>1. /\ callers[c].pc = "judge" /\ Judged(c, airborne) \notin Suppressions
        /\ offered' = NowOffered(c, Judged(c, airborne))
        /\ Fire(c, s, h, Judged(c, airborne), callers[c].requested)
    BY <1>3 DEF Store
  <2>2. s \in Slots /\ Timed(h) /\ Judged(c, airborne) \notin Passthroughs
    BY <2>1, DecidedOnFired, JudgedType
  <2>3. fired' = [fired EXCEPT ![s] = Fired(h, now)]
    BY <2>1, <2>2 DEF Fire
  <2>4. offered' = [offered EXCEPT ![s] = h]
    BY <2>1 DEF NowOffered, Suppressions
  <2> QED
    BY <2>2, <2>3, <2>4, KeepsUpWithItself DEF DriftBounded, TypeOK
<1>4. ASSUME NEW c \in Callers, NEW s \in busy, NEW h \in HitsOf[s], NEW requested \in Requests,
             PassHit(c, s, h, requested)
      PROVE  DriftBounded'
  <2>1. PICK outcome \in Passthroughs : Fire(c, s, h, outcome, requested)
    BY <1>4 DEF PassHit, Passthrough, Passthroughs
  <2> QED
    BY <1>1, <1>4, <2>1 DEF PassHit, Fire
<1>5. ASSUME NEW c \in Callers, NEW airborne \in BOOLEAN, StoreFails(c, airborne)
      PROVE  DriftBounded'
  BY <1>1, <1>5 DEF StoreFails, Fire, Passthroughs
<1>6. CASE Tick \/ RetrySweep \/ UNCHANGED vars
  BY <1>1, <1>6 DEF Tick, RetrySweep, vars, ghosts
<1>7. ASSUME NEW c \in Callers, Send(c) \/ RecordHit(c) \/ Crash(c)
      PROVE  DriftBounded'
  BY <1>1, <1>7 DEF Send, RecordHit, Crash, ghosts
<1>8. ASSUME NEW c \in Callers, NEW s \in busy, NEW h \in HitsOf[s], NEW requested \in Requests,
             LoadHit(c, s, h, requested)
      PROVE  DriftBounded'
  BY <1>1, <1>8 DEF LoadHit, ghosts
<1> QED
  BY <1>2, <1>3, <1>4, <1>5, <1>6, <1>7, <1>8 DEF Next

(* Small moves do not add up unnoticed: what was last judged for a slot is  *)
(* within the threshold of what was last fired for it, in every time that   *)
(* push carried, and where smaller moves count in the same buckets.  (Of a  *)
(* time it did not carry this is false: DeclaredMovesTold.)                 *)
THEOREM DriftIsBounded == ~Overlap => (Spec => []DriftBounded)
<1> SUFFICES ASSUME ~Overlap PROVE Spec => []DriftBounded
  OBVIOUS
<1>1. Init => DriftBounded
  BY DEF Init, DriftBounded
<1>2. TypeOK /\ StateFresh /\ DriftBounded /\ [Next]_vars => DriftBounded'
  BY StepDrift
<1> QED
  BY <1>1, <1>2, FreshState, PTL DEF Spec
=============================================================================
