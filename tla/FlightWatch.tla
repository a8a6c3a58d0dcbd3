---------------------------- MODULE FlightWatch ----------------------------
(***************************************************************************)
(* The life of a watched flight: the poller's two-minute flight sweep (a    *)
(* snapshot of the entries, one check per entry, then the landed/dead sweep *)
(* on a second snapshot), the SMES and TFMS parsers that write phases in    *)
(* their own containers meanwhile, the web process that adds and removes    *)
(* entries, and the aircraft itself, which decides what the sources can     *)
(* truthfully say.                                                          *)
(*                                                                          *)
(* A call of the OOOI gate is one step of OooiLedger here; OooiGate has its *)
(* interleavings.  An entry keeps its route.                                *)
(***************************************************************************)
EXTENDS OooiLedger, FiniteSets

CONSTANTS Scenarios,   \* which entries have an expiry (the others are permanent),
                       \* and whose aircraft has just flown another leg
          Route,       \* entry -> whether SMES covers its origin, destination
          MaxRestarts, \* bound on poller restarts
          MaxLegs      \* bound on the legs of a permanent entry

ASSUME ScenariosAssumption ==
    Scenarios \subseteq [transient : SUBSET Entries, sameTail : SUBSET Entries]
ASSUME RouteAssumption == Route \in [Entries -> [origin : BOOLEAN, destination : BOOLEAN]]
ASSUME BoundsAssumption == MaxRestarts \in Nat /\ MaxLegs \in Nat \ {0}

VARIABLES transient,  \* entries of the transient tier, fixed
          actual,     \* entry -> the phase its aircraft is really in
          leg,        \* entry -> which leg of the flight number this is
          inbound,    \* entries whose tail's inbound leg is in the ACARS window
          swimLive,   \* what swim_is_live answers
          tick,       \* "idle" | "check" | "sweep": where the poller is
          snapshot,   \* the rows the poller read when this part began
          todo,       \* entries the poller has still to visit in this part
          restarts,
          emitted     \* what the last step pushed or recorded in the history

vars == <<rows, transient, actual, leg, inbound, swimLive, tick, snapshot, todo, restarts, emitted>>

pollerVars == <<tick, snapshot, todo, restarts>>
worldVars  == <<transient, actual, leg, inbound, swimLive>>

Nothing == [kind |-> "nothing"]

Event(kind, e, p, s) == [kind |-> kind, entry |-> e, phase |-> p, source |-> s]

Kinds == {"oooi", "seeded", "inferred", "overdue", "swept_landed", "swept_dead", "expired"}

TypeOK ==
    /\ LedgerTypeOK
    /\ transient \subseteq Entries
    /\ actual \in [Entries -> Phases]
    /\ leg \in [Entries -> 1 .. MaxLegs]
    /\ inbound \subseteq Entries
    /\ swimLive \in BOOLEAN
    /\ tick \in {"idle", "check", "sweep"}
    /\ snapshot \in [Entries -> Row \cup {Absent}]
    /\ todo \subseteq Entries
    /\ restarts \in 0 .. MaxRestarts
    /\ emitted \in {Nothing} \cup
                     [kind : Kinds, entry : Entries, phase : Phases, source : Sources \cup {NoSource}]

Init ==
    /\ \E s \in Scenarios : transient = s.transient /\ inbound = s.sameTail
    /\ rows = [e \in Entries |-> IF e \in transient THEN Absent ELSE NewRow(Route[e])]
    /\ actual = [e \in Entries |-> "pre_departure"]
    /\ leg = [e \in Entries |-> 1]
    /\ swimLive = TRUE
    /\ tick = "idle"
    /\ snapshot = [e \in Entries |-> Absent]
    /\ todo = {}
    /\ restarts = 0
    /\ emitted = Nothing

-----------------------------------------------------------------------------
(* A gate call: whether it is accepted, and the rows after it.              *)
Accepted(e, p, s) == Present(e) /\ Accepts(rows[e], p, s, swimLive)

After(e, p, s) ==
    IF Accepted(e, p, s)
    THEN [rows EXCEPT ![e] = Asserted(@, p, s, @.lockTier)]
    ELSE rows

(* What a truthful source may have seen of the flight by now.  The airline's*)
(* posted times (tfms_airline) are not bound by it.                         *)
HasReached(e, p) == PhaseIndex(p) <= PhaseIndex(actual[e])

(* get_latest_phase: the newest OOOI message of the last two hours from this *)
(* flight number or this TAIL, so possibly one of the tail's previous leg.  *)
AcarsAnswers(e) ==
    {NoPhase} \cup {p \in {"out", "off", "on", "in"} : e \in inbound \/ HasReached(e, p)}

-----------------------------------------------------------------------------
(* The world.                                                               *)
Fly(e) ==
    /\ \E p \in Phases : /\ PhaseIndex(p) = PhaseIndex(actual[e]) + 1
                         /\ actual' = [actual EXCEPT ![e] = p]
    /\ emitted' = Nothing
    /\ UNCHANGED <<rows, transient, leg, inbound, swimLive, pollerVars>>

InboundAges(e) ==
    /\ e \in inbound
    /\ inbound' = inbound \ {e}
    /\ emitted' = Nothing
    /\ UNCHANGED <<rows, transient, actual, leg, swimLive, pollerVars>>

(* The next day's departure of a permanently watched flight number.         *)
NextLeg(e) ==
    /\ e \notin transient /\ actual[e] = "in" /\ leg[e] < MaxLegs
    /\ actual' = [actual EXCEPT ![e] = "pre_departure"]
    /\ leg' = [leg EXCEPT ![e] = @ + 1]
    /\ emitted' = Nothing
    /\ UNCHANGED <<rows, transient, inbound, swimLive, pollerVars>>

SwimChanges ==
    /\ swimLive' = ~swimLive
    /\ emitted' = Nothing
    /\ UNCHANGED <<rows, transient, actual, leg, inbound, pollerVars>>

-----------------------------------------------------------------------------
(* The ingest containers.                                                   *)

(* check_smes_watchlist_oooi: surface radar saw the event.                  *)
SmesEvent(e, p) ==
    /\ p \in {"out", "off", "on", "in"} /\ HasReached(e, p) /\ SmesCovers(Route[e], p)
    /\ rows' = After(e, p, "smes")
    /\ emitted' = IF Accepted(e, p, "smes") THEN Event("oooi", e, p, "smes") ELSE Nothing
    /\ UNCHANGED <<worldVars, pollerVars>>

(* _handle_flight_times: the latest airline milestone whose posted time has *)
(* passed, which the aircraft may not have reached.  Its general event hit  *)
(* does not depend on the phase and is left out.                            *)
TfmsTimes(e, p) ==
    /\ p \in {"out", "off", "on", "in"}
    /\ rows' = After(e, p, "tfms_airline")
    /\ emitted' = Nothing
    /\ UNCHANGED <<worldVars, pollerVars>>

-----------------------------------------------------------------------------
(* The web process.                                                         *)

(* add_flight_watchlist: upsert, then the departure TFMS already knows.     *)
AddFlight(e, known) ==
    /\ e \in transient
    /\ LET row == IF Present(e) THEN rows[e] ELSE NewRow(Route[e])
           seeds == known # NoPhase /\ Accepts(row, known, "tfms_airline", swimLive)
       IN /\ rows' = [rows EXCEPT ![e] =
                        IF seeds THEN Asserted(row, known, "tfms_airline", row.lockTier)
                                 ELSE row]
          /\ emitted' = IF seeds THEN Event("seeded", e, known, "tfms_airline") ELSE Nothing
    /\ UNCHANGED <<worldVars, pollerVars>>

DeleteFlight(e) ==
    /\ e \in transient
    /\ Remove(e)
    /\ emitted' = Nothing
    /\ UNCHANGED <<worldVars, pollerVars>>

(* sweep_expired_transient: auto_remove_at has passed.                      *)
Expire(e) ==
    /\ e \in transient
    /\ Remove(e)
    /\ emitted' = Event("expired", e, "pre_departure", NoSource)
    /\ UNCHANGED <<worldVars, pollerVars>>

-----------------------------------------------------------------------------
(* The poller's flight sweep.                                               *)

Live == {e \in Entries : Present(e)}

StartTick ==
    /\ tick = "idle"
    /\ tick' = IF Live = {} THEN "idle" ELSE "check"
    /\ snapshot' = rows
    /\ todo' = Live
    /\ emitted' = Nothing
    /\ UNCHANGED <<rows, worldVars, restarts>>

Visited(e) ==
    /\ todo' = todo \ {e}
    /\ UNCHANGED <<tick, snapshot, restarts, worldVars>>

LastPhase(e) ==
    IF snapshot[e].phase = NoPhase THEN "pre_departure" ELSE snapshot[e].phase

(* event_map pairs every phase with each later one.                         *)
IsTransition(last, p) == PhaseIndex(last) < PhaseIndex(p)

(* _check_flight_airplanes_live with a position in hand.  ACARS, when it    *)
(* answers, names the phase; otherwise the track suggests one, of which only*)
(* OFF can go on, and only when FDPS has the plan active.                   *)
CheckTracked(e) ==
    /\ tick = "check" /\ e \in todo
    /\ \E acars \in AcarsAnswers(e), track \in Phases, fdps \in BOOLEAN :
         LET p == IF acars # NoPhase THEN acars ELSE track
             s == IF acars # NoPhase THEN "acars"
                  ELSE IF p = "off" /\ fdps THEN "fdps" ELSE NoSource
             writes == s # NoSource /\ IsTransition(LastPhase(e), p)
         IN /\ fdps => HasReached(e, "off")
            /\ rows' = IF writes THEN After(e, p, s) ELSE rows
            /\ emitted' = IF writes /\ Accepted(e, p, s) THEN Event("oooi", e, p, s)
                          ELSE Nothing
    /\ Visited(e)

(* _departure_overdue_check: ask ACARS, then FDPS, then the airline's own   *)
(* OFF time; when none of them gets OFF past the gate, push "overdue" (to   *)
(* nobody when the entry is gone).  Only transient entries have a schedule. *)
CheckOverdue(e) ==
    /\ tick = "check" /\ e \in todo \cap transient
    /\ LastPhase(e) = "pre_departure"
    /\ \E acars \in AcarsAnswers(e), fdps, airline \in BOOLEAN :
         LET s == CASE acars \in {"off", "on", "in"} -> "acars"
                    [] acars \notin {"off", "on", "in"} /\ fdps -> "fdps"
                    [] acars \notin {"off", "on", "in"} /\ ~fdps /\ airline -> "tfms_airline"
                    [] OTHER -> NoSource
             done == s # NoSource /\ Accepted(e, "off", s)
         IN /\ fdps => HasReached(e, "off")
            /\ rows' = IF done THEN After(e, "off", s) ELSE rows
            /\ emitted' = CASE done -> Event("oooi", e, "off", s)
                            [] ~done /\ Present(e) -> Event("overdue", e, "pre_departure", s)
                            [] OTHER -> Nothing
    /\ Visited(e)

(* _check_flight_schedule_inference: the schedule says arrived and ACARS    *)
(* agrees; recorded in the history, never written as a phase.  The code's   *)
(* once-per-entry guard is left out: the model may record it again.         *)
CheckInferred(e) ==
    /\ tick = "check" /\ e \in todo \cap transient
    /\ LastPhase(e) \in {"off", "on"}
    /\ \E acars \in AcarsAnswers(e) :
         emitted' = IF acars \in {"on", "in"} /\ Present(e)
                    THEN Event("inferred", e, "in", "schedule_inference") ELSE Nothing
    /\ UNCHANGED rows
    /\ Visited(e)

(* Dark, and no schedule window applies.                                    *)
CheckDark(e) ==
    /\ tick = "check" /\ e \in todo
    /\ emitted' = Nothing
    /\ UNCHANGED rows
    /\ Visited(e)

(* sweep_landed_flights reads the transient entries anew.                   *)
StartSweep ==
    /\ tick = "check" /\ todo = {}
    /\ tick' = "sweep"
    /\ snapshot' = rows
    /\ todo' = Live \cap transient
    /\ emitted' = Nothing
    /\ UNCHANGED <<rows, worldVars, restarts>>

DeleteRow(e) == rows' = [rows EXCEPT ![e] = Absent]

(* mutant: only a SWIM landing is swept *)
SweepLanded_SwimOnly(e) ==
    /\ tick = "sweep" /\ e \in todo
    /\ snapshot[e].phase = "in"
    /\ IF Tier(snapshot[e].source) >= 40
       THEN /\ DeleteRow(e)
            /\ emitted' = Event("swept_landed", e, "in", snapshot[e].source)
       ELSE UNCHANGED rows /\ emitted' = Nothing
    /\ Visited(e)

SweepLanded(e) ==
    /\ tick = "sweep" /\ e \in todo
    /\ snapshot[e].phase = "in"
    /\ IF Tier(snapshot[e].source) > 0
       THEN /\ DeleteRow(e)
            /\ emitted' = Event("swept_landed", e, "in", snapshot[e].source)
       ELSE UNCHANGED rows /\ emitted' = Nothing
    /\ Visited(e)

(* mutant: any ACARS answer at all counts as a landing *)
SweepStale_AnyAnswer(e) ==
    /\ tick = "sweep" /\ e \in todo
    /\ snapshot[e].phase \in {NoPhase, "pre_departure"}
    /\ \E acars \in AcarsAnswers(e) :
         /\ DeleteRow(e)
         /\ emitted' = IF acars = NoPhase
                       THEN Event("swept_dead", e, "pre_departure", NoSource)
                       ELSE Event("swept_landed", e, "in", "acars")
    /\ Visited(e)

(* One hour past arrival, never seen, no anomaly in the history: one more   *)
(* ACARS query decides.                                                     *)
SweepStale(e) ==
    /\ tick = "sweep" /\ e \in todo
    /\ snapshot[e].phase \in {NoPhase, "pre_departure"}
    /\ \E acars \in AcarsAnswers(e) :
         \/ /\ acars = NoPhase
            /\ DeleteRow(e)
            /\ emitted' = Event("swept_dead", e, "pre_departure", NoSource)
         \/ /\ acars = "in"
            /\ DeleteRow(e)
            /\ emitted' = Event("swept_landed", e, "in", "acars")
         \/ /\ acars \notin {NoPhase, "in"}
            /\ rows' = After(e, acars, "acars")
            /\ emitted' = Nothing
    /\ Visited(e)

(* Not landed, and not stale or with an anomaly on record.                  *)
SweepKeeps(e) ==
    /\ tick = "sweep" /\ e \in todo
    /\ snapshot[e].phase # "in"
    /\ emitted' = Nothing
    /\ UNCHANGED rows
    /\ Visited(e)

EndTick ==
    /\ tick = "sweep" /\ todo = {}
    /\ tick' = "idle"
    /\ emitted' = Nothing
    /\ UNCHANGED <<rows, worldVars, snapshot, todo, restarts>>

PollerRestart ==
    /\ tick # "idle" /\ restarts < MaxRestarts
    /\ tick' = "idle" /\ todo' = {}
    /\ restarts' = restarts + 1
    /\ emitted' = Nothing
    /\ UNCHANGED <<rows, worldVars, snapshot>>

Visit(e) ==
    \/ CheckTracked(e) \/ CheckOverdue(e) \/ CheckInferred(e) \/ CheckDark(e)
    \/ SweepLanded(e) \/ SweepStale(e) \/ SweepKeeps(e)

Poller == StartTick \/ StartSweep \/ EndTick \/ \E e \in Entries : Visit(e)

Next ==
    \/ Poller \/ PollerRestart \/ SwimChanges
    \/ \E e \in Entries :
         \/ Fly(e) \/ InboundAges(e) \/ NextLeg(e) \/ DeleteFlight(e) \/ Expire(e)
         \/ \E p \in Phases : SmesEvent(e, p) \/ TfmsTimes(e, p)
         \/ \E known \in {NoPhase, "out", "off"} : AddFlight(e, known)

Spec == Init /\ [][Next]_vars

(* The poller's loop runs its sweep every FLIGHT_SWEEP_INTERVAL and visits  *)
(* every entry of the list it read.                                         *)
FairSpec == Spec /\ WF_vars(Poller)

-----------------------------------------------------------------------------
(* Properties.                                                              *)

(* A row shows an assertive phase only when the aircraft has reached it, or *)
(* the airline posted it for an airport surface radar does not cover: no    *)
(* order of sweeps, feed messages, SWIM outages, deletions and restarts     *)
(* lets a phase in early (the UAL599 and UAL1791 premature landings of      *)
(* _handle_flight_times).                                                   *)
AirlineOnly(e, p, s) == s = "tfms_airline" /\ ~SmesCovers(Route[e], p)

Earned(e, row) ==
    row.phase \in AssertivePhases =>
        HasReached(e, row.phase) \/ AirlineOnly(e, row.phase, row.source)

PhaseEarned == \A e \in transient : Earned(e, rows[e])

(* What the poller knows is old but was true: a transient entry does not    *)
(* outlive its leg, its row keeps its route, and the landed sweep works     *)
(* through transient entries only.  Inductive with TypeOK and PhaseEarned.  *)
SnapshotEarned   == \A e \in transient : Earned(e, snapshot[e])
RouteKept        == \A e \in Entries : Present(e) => /\ rows[e].origin = Route[e].origin
                                                   /\ rows[e].destination = Route[e].destination
SweepIsTransient == tick = "sweep" => todo \subseteq transient

SnapshotTrue == SnapshotEarned /\ RouteKept /\ SweepIsTransient

(* "Remove transient flight entries that are confirmed landed"              *)
(* (sweep_landed_flights): what the sweep removes as landed has landed.     *)
LandedSweepTruth ==
    emitted.kind = "swept_landed" =>
        actual[emitted.entry] = "in" \/ AirlineOnly(emitted.entry, "in", emitted.source)

(* A landed flight's entry is removed, whatever the sources did meanwhile.  *)
LandedIsSwept ==
    \A e \in Entries : (e \in transient /\ rows[e].phase = "in") ~> ~Present(e)

(* The flight sweep removes no permanent entry, however many legs it sees.  *)
PermanentKept ==
    [][\A e \in Entries \ transient : Present(e) => Present(e)']_vars

(* "Returns the source that confirmed OFF or 'overdue' when nothing did":   *)
(* no "departure overdue, not observed" for a departure on record.          *)
OverdueHonest ==
    [][emitted'.kind = "overdue" =>
         rows[emitted'.entry].phase \notin AssertivePhases]_vars

(* "Triggers: OUT, OFF, ON, IN ... transient and permanent entries alike":  *)
(* an OUT that surface radar sees as it happens, and that the row does not  *)
(* show yet, is one the gate accepts.                                       *)
SurfaceOutTracked ==
    \A e \in Entries :
        (Present(e) /\ actual[e] = "out" /\ rows[e].phase # "out") => Accepted(e, "out", "smes")
=============================================================================
