----------------------------- MODULE PushPolicy -----------------------------
(***************************************************************************)
(* The decision of src/common/push_policy.py: given the rule of a push's    *)
(* kind, the values last fired for its slot and the hit at hand, which rule *)
(* applies and with what priority the push goes out, if at all.  Only       *)
(* operators over values; AlertPipeline is the state machine around them.   *)
(*                                                                          *)
(* Instants, minutes and miles are natural numbers on one scale.  A hit, and *)
(* what was last fired, carries a function from the times its rule compares *)
(* to their values: some rules compare several (the airline's out, off, on  *)
(* and in), and a hit need not have them all.                               *)
(***************************************************************************)
EXTENDS Integers

CONSTANTS Threshold,   \* the move that is news (eta_move_min, mit_tighten, ...)
          BucketSize,  \* time_bucket_min
          Grace,       \* past_grace_min
          Heartbeat    \* heartbeat_min

ASSUME ScaleAssumption ==
    /\ Threshold \in Nat \ {0} /\ BucketSize \in Nat \ {0}
    /\ Grace \in Nat /\ Heartbeat \in Nat \ {0}

NoTime  == -1          \* the hit, or the slot, has no usable value for this time
NotSent == 0           \* Decision.priority is None
NoPrior == [ident |-> "no prior"]

Rules == [cls : {"milestone", "status", "ops", "change", "approval", "unregistered"},
          first : {3, 4}, onThreshold : {3, 4}, below : {NotSent, 3},
          requireTime : BOOLEAN, pastWhileGround : BOOLEAN,
          tighten : BOOLEAN, heartbeat : BOOLEAN]

Suppressions == {"unchanged", "unchanged_within_bucket", "no_usable_value",
                 "past_while_on_ground"}

(* Decisions that leave no trace in the slot.                               *)
Passthroughs == {"hot", "approval", "state_unavailable", "unregistered"}

Outcomes == Suppressions \cup Passthroughs \cup
    {"first", "identity_changed", "state_changed", "still_active_heartbeat",
     "first_usable_value", "moved", "moved_below"}

Usable(times) == {k \in DOMAIN times : times[k] # NoTime}

(* What the semantic hash keeps of the times: also which of them there are. *)
InBucket(t) == IF t = NoTime THEN NoTime ELSE t \div BucketSize
InBuckets(times) == [k \in DOMAIN times |-> InBucket(times[k])]

(* Only a tightened miles-in-trail counts as a move.                        *)
Moved(rule, new, old) ==
    IF rule.tighten \/ new >= old THEN new - old ELSE old - new

(* The values compared are those on both sides; one of them moving enough   *)
(* will do.                                                                 *)
Compared(prior, hit) == Usable(prior.times) \cap Usable(hit.times)

HasMoved_All(rule, prior, hit) ==      \* mutant: the smallest move decides
    \A k \in Compared(prior, hit) : Moved(rule, hit.times[k], prior.times[k]) >= Threshold

HasMoved(rule, prior, hit) ==
    \E k \in Compared(prior, hit) : Moved(rule, hit.times[k], prior.times[k]) >= Threshold

IdentityOutcome(prior, hit) ==
    CASE prior = NoPrior -> "first"
      [] prior # NoPrior /\ prior.ident = hit.ident -> "unchanged"
      [] OTHER -> "identity_changed"

(* mutant: the reminder ignores how long ago the last push was *)
OpsOutcome_Eager(rule, prior, hit, now) ==
    CASE prior = NoPrior -> "first"
      [] prior # NoPrior /\ prior.ident # hit.ident -> "state_changed"
      [] OTHER -> IF rule.heartbeat THEN "still_active_heartbeat" ELSE "unchanged"

OpsOutcome(rule, prior, hit, now) ==
    CASE prior = NoPrior -> "first"
      [] prior # NoPrior /\ prior.ident # hit.ident -> "state_changed"
      [] OTHER -> IF rule.heartbeat /\ now - prior.at >= Heartbeat
                  THEN "still_active_heartbeat" ELSE "unchanged"

(* Every value the hit has is over.                                         *)
Past(hit, now) ==
    /\ Usable(hit.times) # {}
    /\ \A k \in Usable(hit.times) : hit.times[k] < now - Grace

(* A change of the declared values against those last fired.                *)
ChangeOutcome(rule, prior, hit, airborne, now) ==
    CASE rule.requireTime /\ Usable(hit.times) = {} -> "no_usable_value"
      [] rule.pastWhileGround /\ ~airborne /\ Past(hit, now) -> "past_while_on_ground"
      [] OTHER ->
           CASE prior = NoPrior -> "first"
             [] prior # NoPrior /\ prior.ident # hit.ident -> "identity_changed"
             [] OTHER ->
                  IF Compared(prior, hit) = {} THEN "first_usable_value"
                  ELSE IF HasMoved(rule, prior, hit) THEN "moved"
                  ELSE IF /\ InBuckets(hit.times) # InBuckets(prior.times)
                          /\ rule.below # NotSent /\ ~rule.tighten
                       THEN "moved_below" ELSE "unchanged_within_bucket"

(* _decide_stateful *)
Outcome(rule, prior, hit, airborne, now) ==
    CASE rule.cls \in {"milestone", "status"} -> IdentityOutcome(prior, hit)
      [] rule.cls = "ops" -> OpsOutcome(rule, prior, hit, now)
      [] OTHER -> ChangeOutcome(rule, prior, hit, airborne, now)

(* mutant: a move over the threshold gets the priority of one below it *)
PriorityFor_BelowForMoved(rule, outcome, requested) ==
    CASE outcome \in Suppressions -> NotSent
      [] outcome = "approval" -> IF requested > 4 THEN requested ELSE 4
      [] outcome \in {"hot", "state_unavailable", "unregistered"} -> requested
      [] outcome = "moved_below" -> rule.below
      [] outcome = "still_active_heartbeat" -> 3
      [] outcome = "state_changed" -> 4
      [] outcome = "first" -> rule.first
      [] outcome = "identity_changed" ->
           IF rule.cls = "change" THEN rule.onThreshold ELSE rule.first
      [] OTHER -> rule.below

PriorityFor(rule, outcome, requested) ==
    CASE outcome \in Suppressions -> NotSent
      [] outcome = "approval" -> IF requested > 4 THEN requested ELSE 4
      [] outcome \in {"hot", "state_unavailable", "unregistered"} -> requested
      [] outcome = "moved_below" -> rule.below
      [] outcome = "still_active_heartbeat" -> 3
      [] outcome = "state_changed" -> 4
      [] outcome = "first" -> rule.first
      [] outcome = "identity_changed" ->
           IF rule.cls = "change" THEN rule.onThreshold ELSE rule.first
      [] OTHER -> rule.onThreshold

(* What _store leaves in the slot: the times this hit has, and no other.    *)
Fired(hit, now) == [ident |-> hit.ident, times |-> hit.times, at |-> now]
=============================================================================
