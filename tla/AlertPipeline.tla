--------------------------- MODULE AlertPipeline ---------------------------
(***************************************************************************)
(* watchlist_event_hit (src/shared/watchlist.py) from the moment a caller   *)
(* has something to say to the history row it leaves: the policy's read of  *)
(* push_policy_state, its decision and write of that state, the ntfy posts, *)
(* the row, and the pusher's retry sweep over those rows.  The callers are  *)
(* the poller, the ingest parsers, the pusher and the web process, each in  *)
(* a container of its own; the state table is shared.                       *)
(*                                                                          *)
(* Overlap = TRUE is the deployment.  Overlap = FALSE assumes that a hit    *)
(* finds no other hit on its slot between the read and the write of the     *)
(* state; sends and history rows overlap freely all the same.               *)
(***************************************************************************)
EXTENDS PushPolicy

CONSTANTS Callers,
          Slots,       \* (kind, entity, sub id) of the pushes
          RuleOf,      \* slot -> the registry's rule for its kind
          TimesOf,     \* slot -> the times that rule compares
          HitsOf,      \* slot -> the [ident, times] hits callers bring
          Days,        \* the sets of slots that hits arrive for in one behaviour
          Overlap,
          Faults,      \* what may fail: subset of {"store", "ntfy", "crash"}
          MaxNow       \* bound on the clock

ASSUME PipelineAssumption ==
    /\ RuleOf \in [Slots -> Rules]
    /\ \A s \in Slots : \A h \in HitsOf[s] : h.times \in [TimesOf[s] -> Nat \cup {NoTime}]
    /\ Days \subseteq SUBSET Slots
    /\ Overlap \in BOOLEAN
    /\ Faults \subseteq {"store", "ntfy", "crash"}
    /\ MaxNow \in Nat

VARIABLES now,
          busy,        \* the slots hits arrive for, fixed
          slots,       \* slot -> its row of push_policy_state
          callers,     \* caller -> the hit it is working on
          history,     \* slot -> its newest watchlist_history row
          heard,       \* slot -> the last hit that reached the operator
          fired,       \* slot -> the last hit the policy fired a push for, and when
          offered,     \* slot -> the last hit the policy judged by its values
          news         \* what the last step fired

vars == <<now, busy, slots, callers, history, heard, fired, offered, news>>
ghosts == <<heard, fired, offered>>

Idle    == [pc |-> "idle"]
Nothing == [outcome |-> "nothing"]
NoRow   == [fired |-> -1]

Hits == UNION {HitsOf[s] : s \in Slots}
Requests == {3, 5}     \* an ordinary priority and VIP/POTUS

SlotRow == {NoPrior} \cup {Fired(h, t) : h \in Hits, t \in 0 .. MaxNow}

Judging   == [pc : {"judge"}, slot : Slots, hit : Hits, requested : Requests, prior : SlotRow]
Sending   == [pc : {"send"}, slot : Slots, hit : Hits, priority : 3 .. 5]
Recording == [pc : {"record"}, slot : Slots, hit : Hits, fired : {1, 2}]

TypeOK ==
    /\ now \in 0 .. MaxNow
    /\ busy \subseteq Slots
    /\ slots \in [Slots -> SlotRow]
    /\ fired \in [Slots -> SlotRow]
    /\ heard \in [Slots -> {NoPrior} \cup Hits]
    /\ offered \in [Slots -> {NoPrior} \cup Hits]
    /\ history \in [Slots -> {NoRow} \cup [fired : {0, 1, 2}, hit : Hits]]
    /\ callers \in [Callers -> {Idle} \cup Judging \cup Sending \cup Recording]
    /\ news \in {Nothing} \cup [outcome : Outcomes, slot : Slots, hit : Hits]

Init ==
    /\ now = 0
    /\ busy \in Days
    /\ slots = [s \in Slots |-> NoPrior]
    /\ callers = [c \in Callers |-> Idle]
    /\ history = [s \in Slots |-> NoRow]
    /\ heard = [s \in Slots |-> NoPrior]
    /\ fired = [s \in Slots |-> NoPrior]
    /\ offered = [s \in Slots |-> NoPrior]
    /\ news = Nothing

JudgingSlot(c, s) == callers[c].pc = "judge" /\ callers[c].slot = s

Quiet(s) == Overlap \/ \A c \in Callers : ~JudgingSlot(c, s)

Tick ==
    /\ now < MaxNow
    /\ now' = now + 1
    /\ news' = Nothing
    /\ UNCHANGED <<busy, slots, callers, history, ghosts>>

-----------------------------------------------------------------------------
(* push_policy.decide *)

(* A push goes out with this outcome.  A passthrough is no decision about   *)
(* the slot and leaves no trace in it.                                      *)
Fire(c, s, h, outcome, requested) ==
    /\ callers' = [callers EXCEPT ![c] =
                     [pc |-> "send", slot |-> s, hit |-> h,
                      priority |-> PriorityFor(RuleOf[s], outcome, requested)]]
    /\ fired' = IF outcome \in Passthroughs THEN fired
                ELSE [fired EXCEPT ![s] = Fired(h, now)]
    /\ news' = [outcome |-> outcome, slot |-> s, hit |-> h]

Judges(s) == RuleOf[s].cls \notin {"approval", "unregistered"}

(* A kind the registry does not know goes out as asked for; whether the     *)
(* older dedup by content (_check_dedup) drops the hit instead is PushDedup's *)
(* matter: such a hit is here one that does not come.                       *)
Passthrough(s, requested) ==
    CASE RuleOf[s].cls = "unregistered" -> {"unregistered"}
      [] RuleOf[s].cls # "unregistered" /\ requested >= 5 -> {"hot"}
      [] RuleOf[s].cls = "approval" /\ requested < 5 -> {"approval"}
      [] OTHER -> IF "store" \in Faults THEN {"state_unavailable"} ELSE {}

(* The entry is looked up, and the slot's state is read in a transaction of *)
(* its own, unless the request passes without it.                           *)
PassHit(c, s, h, requested) ==
    /\ callers[c] = Idle /\ Quiet(s)
    /\ \E outcome \in Passthrough(s, requested) : Fire(c, s, h, outcome, requested)
    /\ UNCHANGED <<now, busy, slots, history, heard, offered>>

LoadHit(c, s, h, requested) ==
    /\ callers[c] = Idle /\ Quiet(s)
    /\ requested < 5 /\ Judges(s)
    /\ callers' = [callers EXCEPT ![c] = [pc |-> "judge", slot |-> s, hit |-> h,
                                          requested |-> requested, prior |-> slots[s]]]
    /\ news' = Nothing
    /\ UNCHANGED <<now, busy, slots, history, ghosts>>

Judged(c, airborne) ==
    Outcome(RuleOf[callers[c].slot], callers[c].prior, callers[c].hit, airborne, now)

(* What the decision leaves the operator to have been told about: a hit     *)
(* without a usable value, or already past, is not news.                    *)
NowOffered(c, outcome) ==
    IF outcome \in {"no_usable_value", "past_while_on_ground"} THEN offered
    ELSE [offered EXCEPT ![callers[c].slot] = callers[c].hit]

(* The policy withholds the push: "unchanged" leaves nothing, the other     *)
(* suppressions a history row.                                              *)
Suppress(c, airborne) ==
    /\ callers[c].pc = "judge"
    /\ LET outcome == Judged(c, airborne) IN
         /\ outcome \in Suppressions
         /\ callers' = [callers EXCEPT ![c] =
                          IF outcome = "unchanged" THEN Idle
                          ELSE [pc |-> "record", slot |-> @.slot, hit |-> @.hit, fired |-> 2]]
         /\ offered' = NowOffered(c, outcome)
    /\ news' = Nothing
    /\ UNCHANGED <<now, busy, slots, history, heard, fired>>

(* mutant: the slot's values are not written when a push fires *)
Store_Forgets(c, airborne) ==
    /\ callers[c].pc = "judge"
    /\ LET t == callers[c]
           outcome == Judged(c, airborne) IN
         /\ outcome \notin Suppressions
         /\ Fire(c, t.slot, t.hit, outcome, t.requested)
         /\ UNCHANGED slots
         /\ offered' = NowOffered(c, outcome)
    /\ UNCHANGED <<now, busy, history, heard>>

(* The push fires: its values are stored first, in a second transaction.    *)
Store(c, airborne) ==
    /\ callers[c].pc = "judge"
    /\ LET t == callers[c]
           outcome == Judged(c, airborne) IN
         /\ outcome \notin Suppressions
         /\ Fire(c, t.slot, t.hit, outcome, t.requested)
         /\ slots' = [slots EXCEPT ![t.slot] = Fired(t.hit, now)]
         /\ offered' = NowOffered(c, outcome)
    /\ UNCHANGED <<now, busy, history, heard>>

(* The second transaction fails: sent at the requested priority.            *)
StoreFails(c, airborne) ==
    /\ "store" \in Faults
    /\ callers[c].pc = "judge"
    /\ LET t == callers[c]
           outcome == Judged(c, airborne) IN
         /\ outcome \notin Suppressions
         /\ Fire(c, t.slot, t.hit, "state_unavailable", t.requested)
    /\ UNCHANGED <<now, busy, slots, history, heard, offered>>

-----------------------------------------------------------------------------
(* _fire_ntfy_dual: up to three attempts on either topic, then the outcome  *)
(* is logged and dropped.                                                   *)
Send(c) ==
    /\ callers[c].pc = "send"
    /\ \E delivered \in IF "ntfy" \in Faults THEN BOOLEAN ELSE {TRUE} :
         heard' = IF delivered THEN [heard EXCEPT ![callers[c].slot] = callers[c].hit]
                               ELSE heard
    /\ callers' = [callers EXCEPT ![c] = [pc |-> "record", slot |-> @.slot,
                                          hit |-> @.hit, fired |-> 1]]
    /\ news' = Nothing
    /\ UNCHANGED <<now, busy, slots, history, fired, offered>>

(* insert_watchlist_history *)
RecordHit(c) ==
    /\ callers[c].pc = "record"
    /\ history' = [history EXCEPT ![callers[c].slot] =
                     [fired |-> callers[c].fired, hit |-> callers[c].hit]]
    /\ callers' = [callers EXCEPT ![c] = Idle]
    /\ news' = Nothing
    /\ UNCHANGED <<now, busy, slots, ghosts>>

Crash(c) ==
    /\ "crash" \in Faults /\ callers[c] # Idle
    /\ callers' = [callers EXCEPT ![c] = Idle]
    /\ news' = Nothing
    /\ UNCHANGED <<now, busy, slots, history, ghosts>>

(* push_watchlist_retries: the rows with ntfy_fired = 0 are sent again.     *)
Pending == {s \in Slots : history[s].fired = 0}

RetrySweep ==
    /\ \E ok \in SUBSET Pending :
         /\ history' = [s \in Slots |-> IF s \in ok THEN [history[s] EXCEPT !.fired = 1]
                                                    ELSE history[s]]
         /\ heard' = [s \in Slots |-> IF s \in ok THEN history[s].hit ELSE heard[s]]
    /\ news' = Nothing
    /\ UNCHANGED <<now, busy, slots, callers, fired, offered>>

Next ==
    \/ Tick \/ RetrySweep
    \/ \E c \in Callers :
         \/ \E s \in busy : \E h \in HitsOf[s], requested \in Requests :
              PassHit(c, s, h, requested) \/ LoadHit(c, s, h, requested)
         \/ \E airborne \in BOOLEAN :
              Suppress(c, airborne) \/ Store(c, airborne) \/ StoreFails(c, airborne)
         \/ Send(c) \/ RecordHit(c) \/ Crash(c)

Spec == Init /\ [][Next]_vars

-----------------------------------------------------------------------------
(* Properties.                                                              *)

(* The slot's row holds the values last fired, whatever fails; and the row  *)
(* a decision is taken on is still the slot's when no other hit on it       *)
(* overlaps.  Inductive with TypeOK.                                        *)
StateFresh ==
    /\ slots = fired
    /\ \A c \in Callers, s \in Slots : JudgingSlot(c, s) =>
          Judges(s) /\ callers[c].hit \in HitsOf[s]
    /\ ~Overlap => \A c \in Callers, s \in Slots : JudgingSlot(c, s) =>
          /\ callers[c].prior = slots[s]
          /\ \A d \in Callers : JudgingSlot(d, s) => d = c

(* What was judged keeps up with what was told: the values last fired for a *)
(* slot have the identity of those it last judged, each time on both sides  *)
(* moved by less than the threshold since, and where smaller moves count    *)
(* none has changed its bucket, come or gone.  A slow drift cannot creep    *)
(* past the operator ("slow drift accumulates against the last value ...",  *)
(* push_policy) -- of a time that the last push carried: for the others see *)
(* DeclaredMovesTold.                                                       *)
KeepsUp(rule, told, judged) ==
    /\ told # NoPrior
    /\ told.ident = judged.ident
    /\ rule.cls = "change" =>
          /\ \A k \in Compared(told, judged) :
               /\ judged.times[k] < told.times[k] + Threshold
               /\ ~rule.tighten => told.times[k] < judged.times[k] + Threshold
          /\ rule.below # NotSent /\ ~rule.tighten =>
               InBuckets(told.times) = InBuckets(judged.times)

DriftBounded ==
    \A s \in Slots : offered[s] # NoPrior => KeepsUp(RuleOf[s], fired[s], offered[s])

(* "a declared time moving by at least its threshold ... -> p4 (or          *)
(* `on_threshold`)" (push_policy_registry), whichever of the rule's times   *)
(* it is: one that moves that far between two hits in a row, and that the   *)
(* last push did not carry, is pushed.                                      *)
MovesUntold(s, before, after) ==
    /\ before # NoPrior /\ before # after
    /\ RuleOf[s].cls = "change" /\ ~RuleOf[s].tighten
    /\ \E k \in Compared(before, after) \ Usable(fired[s].times) :
         Moved(RuleOf[s], after.times[k], before.times[k]) >= Threshold

DeclaredMovesTold ==
    [][\A s \in Slots : MovesUntold(s, offered[s], offered'[s]) => news' # Nothing]_vars

(* An unchanged value is not pushed again ("unchanged -> suppressed",       *)
(* push_policy_registry; "the same OFF seen by three sources is decided     *)
(* once, wherever it arrives", push_policy), heartbeats and passthroughs    *)
(* apart.                                                                   *)
NoRepeat ==
    [][(/\ news' # Nothing
        /\ news'.outcome \notin Passthroughs \cup {"still_active_heartbeat"})
       => LET last == fired[news'.slot] IN
            \/ last = NoPrior
            \/ last.ident # news'.hit.ident
            \/ RuleOf[news'.slot].cls = "change" /\ last.times # news'.hit.times]_vars

(* Pushes about an ops state that has not changed are a heartbeat period    *)
(* apart.                                                                   *)
HeartbeatSpaced ==
    [][(/\ news' # Nothing
        /\ news'.outcome \notin Passthroughs
        /\ RuleOf[news'.slot].cls = "ops")
       => LET last == fired[news'.slot] IN
            \/ last = NoPrior
            \/ last.ident # news'.hit.ident
            \/ now - last.at >= Heartbeat]_vars

(* "1 = pushed" (insert_watchlist_history): a row marked 1 is about         *)
(* something the operator has received.                                     *)
MarkedWasHeard ==
    \A s \in Slots : history[s].fired = 1 => heard[s] = history[s].hit
=============================================================================
