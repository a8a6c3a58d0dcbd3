------------------------ MODULE FlightWatch_proofs ------------------------
(***************************************************************************)
(* Proofs about FlightWatch for every set of entries, routes and scenarios  *)
(* and every bound on restarts and legs.  TypeOK and SweepIsTransient are   *)
(* inductive together; RouteKept, PhaseEarned and SnapshotEarned are        *)
(* inductive on top of them when no transient entry's tail has an inbound   *)
(* leg in the ACARS window.                                                 *)
(***************************************************************************)
EXTENDS FlightWatch, TLAPS

USE ScenariosAssumption, RouteAssumption, BoundsAssumption
    DEF ScenariosAssumption, RouteAssumption, BoundsAssumption

(* What a gate call leaves in a row; a row there is is not the absent one.   *)
LEMMA AssertedType ==
  ASSUME NEW row \in Row, NEW c \in [phase : Phases, source : Sources], NEW held
  PROVE  Asserted(row, c.phase, c.source, held) \in Row
<1>1. Tier(c.source) \in {NoTier, 10, 20, 30, 40}
  BY DEF Tier, NoTier
<1> DEFINE tier == IF TakesLock(c.phase, c.source, held) THEN Tier(c.source) ELSE row.lockTier
<1>2. tier \in {NoTier, 10, 20, 30, 40}
  <2>1. row.lockTier \in {NoTier, 10, 20, 30, 40}
    BY DEF Row
  <2> QED
    BY <1>1, <2>1
<1>3. Asserted(row, c.phase, c.source, held) =
        [row EXCEPT !.phase = c.phase, !.source = c.source, !.lockTier = tier]
  BY DEF Asserted
<1> HIDE DEF tier
<1> QED
  BY <1>2, <1>3 DEF Row

LEMMA NotAbsent == \A row \in Row : row # Absent
<1>1. Absent.phase = "absent"
  BY DEF Absent
<1>2. \A row \in Row : row.phase # "absent"
  BY DEF Row, Phases, NoPhase
<1> QED
  BY <1>1, <1>2

-----------------------------------------------------------------------------
(* How a step may change the rows: a gate call by a source that, unless its *)
(* aircraft's inbound leg is about, is either the airline or truthful; the  *)
(* removal of a transient entry; its addition.                              *)

Truthful(e, p, s) == e \in transient \ inbound => HasReached(e, p) \/ s = "tfms_airline"

GateCall ==
    \E e \in Entries, p \in Phases, s \in Sources :
        rows' = After(e, p, s) /\ Truthful(e, p, s)

Removal == \E e \in transient : rows' = [rows EXCEPT ![e] = Absent]

Addition == \E e \in transient, known \in {NoPhase, "out", "off"} : AddFlight(e, known)

Sound == TypeOK /\ SweepIsTransient

LEMMA AcarsTruthful ==
  ASSUME NEW e \in Entries, NEW p \in AcarsAnswers(e)
  PROVE  /\ p \in {NoPhase, "out", "off", "on", "in"}
         /\ p # NoPhase /\ e \notin inbound => HasReached(e, p)
  BY DEF AcarsAnswers

LEMMA RowsChange ==
  ASSUME Sound, [Next]_vars
  PROVE  rows' = rows \/ (actual' = actual /\ (GateCall \/ Removal \/ Addition))
<1> USE DEF worldVars, pollerVars
<1>1. CASE StartTick \/ StartSweep \/ EndTick \/ PollerRestart \/ SwimChanges \/ UNCHANGED vars
  BY <1>1 DEF StartTick, StartSweep, EndTick, PollerRestart, SwimChanges, vars
<1>2. ASSUME NEW e \in Entries, Fly(e) \/ InboundAges(e) \/ NextLeg(e) PROVE rows' = rows
  BY <1>2 DEF Fly, InboundAges, NextLeg
<1>3. ASSUME NEW e \in Entries, DeleteFlight(e) \/ Expire(e) PROVE actual' = actual /\ Removal
  BY <1>3 DEF DeleteFlight, Expire, Remove, Removal
<1>4. ASSUME NEW e \in Entries, NEW p \in Phases, SmesEvent(e, p)
      PROVE  actual' = actual /\ GateCall
  <2>1. "smes" \in Sources
    BY DEF Sources, SwimSources
  <2> QED
    BY <1>4, <2>1 DEF SmesEvent, GateCall, Truthful
<1>5. ASSUME NEW e \in Entries, NEW p \in Phases, TfmsTimes(e, p)
      PROVE  actual' = actual /\ GateCall
  <2>1. "tfms_airline" \in Sources
    BY DEF Sources, SwimSources
  <2> QED
    BY <1>5, <2>1 DEF TfmsTimes, GateCall, Truthful
<1>6. ASSUME NEW e \in Entries, NEW known \in {NoPhase, "out", "off"}, AddFlight(e, known)
      PROVE  actual' = actual /\ Addition
  BY <1>6 DEF AddFlight, Addition
<1>7. ASSUME NEW e \in Entries, CheckInferred(e) \/ CheckDark(e) \/ SweepKeeps(e)
      PROVE  rows' = rows
  BY <1>7 DEF CheckInferred, CheckDark, SweepKeeps
<1>8. ASSUME NEW e \in Entries, CheckTracked(e)
      PROVE  rows' = rows \/ (actual' = actual /\ GateCall)
  <2>1. PICK acars \in AcarsAnswers(e), track \in Phases, fdps \in BOOLEAN :
          LET p == IF acars # NoPhase THEN acars ELSE track
              s == IF acars # NoPhase THEN "acars"
                   ELSE IF p = "off" /\ fdps THEN "fdps" ELSE NoSource
          IN /\ fdps => HasReached(e, "off")
             /\ rows' = IF s # NoSource /\ IsTransition(LastPhase(e), p)
                        THEN After(e, p, s) ELSE rows
    BY <1>8 DEF CheckTracked
  <2>2. actual' = actual
    BY <1>8 DEF CheckTracked, Visited
  <2>3. CASE acars # NoPhase
    <3>1. acars \in Phases /\ "acars" \in Sources
      BY <2>3, AcarsTruthful DEF Phases, Sources, Aggregators
    <3>2. Truthful(e, acars, "acars")
      BY <2>3, AcarsTruthful DEF Truthful
    <3>3. rows' = rows \/ rows' = After(e, acars, "acars")
      BY <2>1, <2>3
    <3> QED
      BY <2>2, <3>1, <3>2, <3>3 DEF GateCall
  <2>4. CASE acars = NoPhase
    <3>1. "off" \in Phases /\ "fdps" \in Sources
      BY DEF Phases, Sources, SwimSources
    <3>2. rows' = rows \/ (rows' = After(e, "off", "fdps") /\ HasReached(e, "off"))
      BY <2>1, <2>4
    <3> QED
      BY <2>2, <3>1, <3>2 DEF GateCall, Truthful
  <2> QED
    BY <2>3, <2>4
<1>9. ASSUME NEW e \in Entries, CheckOverdue(e)
      PROVE  rows' = rows \/ (actual' = actual /\ GateCall)
  <2>1. PICK acars \in AcarsAnswers(e), fdps \in BOOLEAN, airline \in BOOLEAN :
          LET s == CASE acars \in {"off", "on", "in"} -> "acars"
                     [] acars \notin {"off", "on", "in"} /\ fdps -> "fdps"
                     [] acars \notin {"off", "on", "in"} /\ ~fdps /\ airline -> "tfms_airline"
                     [] OTHER -> NoSource
          IN /\ fdps => HasReached(e, "off")
             /\ rows' = IF s # NoSource /\ Accepted(e, "off", s) THEN After(e, "off", s) ELSE rows
    BY <1>9 DEF CheckOverdue
  <2>2. actual' = actual
    BY <1>9 DEF CheckOverdue, Visited
  <2>3. "off" \in Phases /\ {"acars", "fdps", "tfms_airline"} \subseteq Sources
    BY DEF Phases, Sources, SwimSources, Aggregators
  <2>4. CASE acars \in {"off", "on", "in"}
    <3>1. acars # NoPhase
      BY <2>4 DEF NoPhase
    <3>2. e \notin inbound => HasReached(e, acars)
      BY <3>1, AcarsTruthful
    <3>3. actual[e] \in Phases
      BY DEF Sound, TypeOK
    <3>4. Truthful(e, "off", "acars")
      BY <2>4, <3>2, <3>3 DEF Truthful, HasReached, PhaseIndex, Phases
    <3>5. rows' = rows \/ rows' = After(e, "off", "acars")
      BY <2>1, <2>4
    <3> QED
      BY <2>2, <2>3, <3>4, <3>5 DEF GateCall
  <2>5. CASE acars \notin {"off", "on", "in"}
    <3>1. \/ rows' = rows
          \/ rows' = After(e, "off", "fdps") /\ HasReached(e, "off")
          \/ rows' = After(e, "off", "tfms_airline")
      BY <2>1, <2>5
    <3> QED
      BY <2>2, <2>3, <3>1 DEF GateCall, Truthful
  <2> QED
    BY <2>4, <2>5
<1>10. ASSUME NEW e \in Entries, SweepLanded(e) PROVE rows' = rows \/ (actual' = actual /\ Removal)
  BY <1>10 DEF SweepLanded, Visited, DeleteRow, Removal, Sound, SweepIsTransient
<1>11. ASSUME NEW e \in Entries, SweepStale(e) PROVE actual' = actual /\ (GateCall \/ Removal)
  <2>1. PICK acars \in AcarsAnswers(e) :
          \/ DeleteRow(e)
          \/ acars \notin {NoPhase, "in"} /\ rows' = After(e, acars, "acars")
    BY <1>11 DEF SweepStale
  <2>2. actual' = actual /\ e \in transient
    BY <1>11 DEF SweepStale, Visited, Sound, SweepIsTransient
  <2>3. CASE DeleteRow(e)
    BY <2>2, <2>3 DEF DeleteRow, Removal
  <2>4. CASE acars # NoPhase /\ rows' = After(e, acars, "acars")
    <3>1. acars \in Phases /\ "acars" \in Sources
      BY <2>4, AcarsTruthful DEF Phases, Sources, Aggregators
    <3>2. Truthful(e, acars, "acars")
      BY <2>4, AcarsTruthful DEF Truthful
    <3> QED
      BY <2>2, <2>4, <3>1, <3>2 DEF GateCall
  <2> QED
    BY <2>1, <2>3, <2>4
<1> QED
  BY <1>1, <1>2, <1>3, <1>4, <1>5, <1>6, <1>7, <1>8, <1>9, <1>10, <1>11 DEF Next, Poller, Visit

-----------------------------------------------------------------------------
(* Types.                                                                   *)

LEMMA AfterType ==
  ASSUME LedgerTypeOK, NEW e \in Entries, NEW p \in Phases, NEW s \in Sources
  PROVE  After(e, p, s) \in [Entries -> Row \cup {Absent}]
<1>1. CASE Accepted(e, p, s)
  <2>1. rows[e] \in Row
    BY <1>1 DEF Accepted, Present, LedgerTypeOK
  <2>2. Asserted(rows[e], p, s, rows[e].lockTier) \in Row
    <3> DEFINE c == [phase |-> p, source |-> s]
    <3>1. c \in [phase : Phases, source : Sources] /\ c.phase = p /\ c.source = s
      OBVIOUS
    <3> HIDE DEF c
    <3> QED
      BY <2>1, <3>1, AssertedType
  <2> QED
    BY <1>1, <2>2 DEF After, LedgerTypeOK
<1>2. CASE ~Accepted(e, p, s)
  BY <1>2 DEF After, LedgerTypeOK
<1> QED
  BY <1>1, <1>2

LEMMA NewRowType == \A e \in Entries : NewRow(Route[e]) \in Row
  BY DEF NewRow, Row

(* What AddFlight leaves: the old row or a new one, or one with the phase   *)
(* the airline has posted.                                                  *)
LEMMA AddedRow ==
  ASSUME LedgerTypeOK, NEW e \in transient, transient \subseteq Entries,
         NEW known \in {NoPhase, "out", "off"}, AddFlight(e, known)
  PROVE  \E row \in Row, new \in Row :
           /\ row = IF Present(e) THEN rows[e] ELSE NewRow(Route[e])
           /\ rows' = [rows EXCEPT ![e] = new]
           /\ \/ new = row
              \/ /\ known # NoPhase /\ Accepts(row, known, "tfms_airline", swimLive)
                 /\ new = Asserted(row, known, "tfms_airline", row.lockTier)
<1> DEFINE row == IF Present(e) THEN rows[e] ELSE NewRow(Route[e])
           seeds == known # NoPhase /\ Accepts(row, known, "tfms_airline", swimLive)
           c == [phase |-> known, source |-> "tfms_airline"]
           new == IF seeds THEN Asserted(row, known, "tfms_airline", row.lockTier) ELSE row
<1>1. row \in Row
  BY NewRowType DEF LedgerTypeOK, Present
<1>2. rows' = [rows EXCEPT ![e] = new]
  BY DEF AddFlight
<1>3. new \in Row
  <2>1. CASE seeds
    <3>1. c \in [phase : Phases, source : Sources]
      BY <2>1 DEF Phases, Sources, SwimSources
    <3>2. c.phase = known /\ c.source = "tfms_airline"
      OBVIOUS
    <3>3. Asserted(row, known, "tfms_airline", row.lockTier) \in Row
      <4> HIDE DEF row, seeds, c
      <4> QED
        BY <1>1, <3>1, <3>2, AssertedType
    <3> QED
      BY <2>1, <3>3
  <2>2. CASE ~seeds
    BY <1>1, <2>2
  <2> QED
    BY <2>1, <2>2
<1> QED
  <2> HIDE DEF new
  <2>1. new = row \/ (seeds /\ new = Asserted(row, known, "tfms_airline", row.lockTier))
    BY DEF new
  <2>2. row = IF Present(e) THEN rows[e] ELSE NewRow(Route[e])
    OBVIOUS
  <2>3. seeds => known # NoPhase /\ Accepts(row, known, "tfms_airline", swimLive)
    OBVIOUS
  <2> HIDE DEF row, seeds
  <2> QED
    BY <1>1, <1>2, <1>3, <2>1, <2>2, <2>3

LEMMA RowsType == ASSUME Sound, [Next]_vars PROVE LedgerTypeOK'
<1> USE DEF LedgerTypeOK
<1>1. CASE rows' = rows
  BY <1>1 DEF Sound, TypeOK
<1>2. CASE GateCall
  BY <1>2, AfterType DEF GateCall, Sound, TypeOK
<1>3. CASE Removal
  BY <1>3 DEF Removal, Sound, TypeOK
<1>4. CASE Addition
  BY <1>4, AddedRow DEF Addition, Sound, TypeOK
<1> QED
  BY <1>1, <1>2, <1>3, <1>4, RowsChange

Events == {Nothing} \cup
            [kind : Kinds, entry : Entries, phase : Phases, source : Sources \cup {NoSource}]

LEMMA EventType ==
  ASSUME NEW k \in Kinds, NEW e \in Entries, NEW p \in Phases, NEW s \in Sources \cup {NoSource}
  PROVE  Event(k, e, p, s) \in Events
  BY DEF Event, Events

LEMMA InitSound == Init => Sound
<1> SUFFICES ASSUME Init PROVE Sound
  OBVIOUS
<1>1. \A e \in Entries : (IF e \in transient THEN Absent ELSE NewRow(Route[e])) \in Row \cup {Absent}
  BY NewRowType
<1> QED
  BY <1>1 DEF Init, Sound, TypeOK, LedgerTypeOK, SweepIsTransient, Phases

(* Where the poller is, and the world.                                      *)
LEMMA StepFrame ==
  ASSUME Sound, [Next]_vars
  PROVE  /\ transient' = transient
         /\ actual' \in [Entries -> Phases]
         /\ leg' \in [Entries -> 1 .. MaxLegs]
         /\ inbound' \subseteq inbound
         /\ swimLive' \in BOOLEAN
         /\ tick' \in {"idle", "check", "sweep"}
         /\ snapshot' = snapshot \/ snapshot' = rows
         /\ todo' \subseteq Entries
         /\ restarts' \in 0 .. MaxRestarts
         /\ SweepIsTransient'
<1> USE DEF worldVars, pollerVars, Sound, TypeOK, SweepIsTransient
<1>1. CASE StartTick \/ StartSweep \/ EndTick
  BY <1>1 DEF StartTick, StartSweep, EndTick, Live
<1>2. CASE PollerRestart
  BY <1>2 DEF PollerRestart
<1>3. CASE SwimChanges \/ UNCHANGED vars
  BY <1>3 DEF SwimChanges, vars
<1>4. ASSUME NEW e \in Entries, Fly(e) \/ InboundAges(e)
      PROVE  /\ actual' \in [Entries -> Phases] /\ inbound' \subseteq inbound
             /\ UNCHANGED <<transient, leg, swimLive, pollerVars>>
  BY <1>4 DEF Fly, InboundAges
<1>5. ASSUME NEW e \in Entries, NextLeg(e)
      PROVE  /\ actual' \in [Entries -> Phases] /\ leg' \in [Entries -> 1 .. MaxLegs]
             /\ UNCHANGED <<transient, inbound, swimLive, pollerVars>>
  <2>1. leg[e] + 1 \in 1 .. MaxLegs
    BY <1>5 DEF NextLeg
  <2> QED
    BY <1>5, <2>1 DEF NextLeg, Phases
<1>6. ASSUME NEW e \in Entries, NEW p \in Phases, NEW known \in {NoPhase, "out", "off"},
             DeleteFlight(e) \/ Expire(e) \/ SmesEvent(e, p) \/ TfmsTimes(e, p) \/ AddFlight(e, known)
      PROVE  UNCHANGED <<worldVars, pollerVars>>
  BY <1>6 DEF DeleteFlight, Expire, SmesEvent, TfmsTimes, AddFlight
<1>7. ASSUME NEW e \in Entries, Visit(e)
      PROVE  todo' \subseteq todo /\ UNCHANGED <<tick, snapshot, restarts, worldVars>>
  BY <1>7 DEF Visit, CheckTracked, CheckOverdue, CheckInferred, CheckDark, SweepLanded,
              SweepStale, SweepKeeps, Visited
<1> QED
  BY <1>1, <1>2, <1>3, <1>4, <1>5, <1>6, <1>7 DEF Next, Poller

LEMMA StepEvent == ASSUME Sound, [Next]_vars PROVE emitted' \in Events
<1>1. "acars" \in Sources /\ {"smes", "fdps", "tfms_airline", "schedule_inference"} \subseteq Sources
  BY DEF Sources, SwimSources, Aggregators, InferenceSources
<1>2. Kinds = {"oooi", "seeded", "inferred", "overdue", "swept_landed", "swept_dead", "expired"}
  BY DEF Kinds
<1>3. Nothing \in Events /\ emitted \in Events
  BY DEF Events, Sound, TypeOK
<1>4. transient \subseteq Entries /\ {"pre_departure", "off", "in"} \subseteq Phases
  BY DEF Sound, TypeOK, Phases
<1>5. CASE StartTick \/ StartSweep \/ EndTick \/ PollerRestart \/ SwimChanges \/ UNCHANGED vars
  BY <1>5, <1>3 DEF StartTick, StartSweep, EndTick, PollerRestart, SwimChanges, vars
<1>6. ASSUME NEW e \in Entries,
             Fly(e) \/ InboundAges(e) \/ NextLeg(e) \/ DeleteFlight(e) \/ Expire(e)
             \/ CheckDark(e) \/ SweepKeeps(e)
      PROVE  emitted' \in Events
  BY <1>6, <1>2, <1>3, <1>4, EventType
     DEF Fly, InboundAges, NextLeg, DeleteFlight, Expire, CheckDark, SweepKeeps
<1>7. ASSUME NEW e \in Entries, NEW p \in Phases, TfmsTimes(e, p) \/ SmesEvent(e, p)
      PROVE  emitted' \in Events
  BY <1>7, <1>1, <1>2, <1>3, EventType DEF TfmsTimes, SmesEvent
<1>8. ASSUME NEW e \in Entries, NEW known \in {NoPhase, "out", "off"}, AddFlight(e, known)
      PROVE  emitted' \in Events
  <2>1. known # NoPhase => known \in Phases
    BY DEF Phases
  <2>2. emitted' = Nothing \/ (known # NoPhase /\ emitted' = Event("seeded", e, known, "tfms_airline"))
    BY <1>8 DEF AddFlight
  <2> QED
    BY <2>1, <2>2, <1>1, <1>2, <1>3, EventType
<1>9. ASSUME NEW e \in Entries, CheckTracked(e) PROVE emitted' \in Events
  <2>1. PICK acars \in AcarsAnswers(e), track \in Phases :
          LET p == IF acars # NoPhase THEN acars ELSE track
          IN \/ emitted' = Nothing
             \/ \E s \in {"acars", "fdps"} : emitted' = Event("oooi", e, p, s)
    <3>1. PICK acars \in AcarsAnswers(e), track \in Phases, fdps \in BOOLEAN :
            LET p == IF acars # NoPhase THEN acars ELSE track
                s == IF acars # NoPhase THEN "acars"
                     ELSE IF p = "off" /\ fdps THEN "fdps" ELSE NoSource
                writes == s # NoSource /\ IsTransition(LastPhase(e), p)
            IN emitted' = IF writes /\ Accepted(e, p, s) THEN Event("oooi", e, p, s) ELSE Nothing
      BY <1>9 DEF CheckTracked
    <3> DEFINE p == IF acars # NoPhase THEN acars ELSE track
               s == IF acars # NoPhase THEN "acars"
                    ELSE IF p = "off" /\ fdps THEN "fdps" ELSE NoSource
    <3>2. s \in {"acars", "fdps", NoSource}
      OBVIOUS
    <3>3. emitted' = Nothing \/ (s # NoSource /\ emitted' = Event("oooi", e, p, s))
      BY <3>1
    <3> HIDE DEF s
    <3>4. emitted' = Nothing \/ \E z \in {"acars", "fdps"} : emitted' = Event("oooi", e, p, z)
      BY <3>2, <3>3
    <3> QED
      BY <3>4
  <2>2. (IF acars # NoPhase THEN acars ELSE track) \in Phases
    BY AcarsTruthful DEF Phases
  <2> QED
    BY <2>1, <2>2, <1>1, <1>2, <1>3, EventType
<1>10. ASSUME NEW e \in Entries, CheckOverdue(e) PROVE emitted' \in Events
  <2>1. \E s \in {"acars", "fdps", "tfms_airline", NoSource} :
          \/ emitted' = Nothing
          \/ emitted' = Event("oooi", e, "off", s)
          \/ emitted' = Event("overdue", e, "pre_departure", s)
    BY <1>10 DEF CheckOverdue
  <2> QED
    BY <2>1, <1>1, <1>2, <1>3, <1>4, EventType
<1>11. ASSUME NEW e \in Entries, CheckInferred(e) PROVE emitted' \in Events
  <2>1. emitted' = Nothing \/ emitted' = Event("inferred", e, "in", "schedule_inference")
    BY <1>11 DEF CheckInferred
  <2> QED
    BY <2>1, <1>1, <1>2, <1>3, <1>4, EventType
<1>12. ASSUME NEW e \in Entries, SweepLanded(e) PROVE emitted' \in Events
  <2>1. snapshot[e].source \in Sources \cup {NoSource}
    <3>1. snapshot[e] \in Row \cup {Absent} /\ snapshot[e].phase = "in"
      BY <1>12 DEF SweepLanded, Sound, TypeOK
    <3> QED
      BY <3>1 DEF Row, Absent
  <2>2. emitted' = Nothing \/ emitted' = Event("swept_landed", e, "in", snapshot[e].source)
    BY <1>12 DEF SweepLanded
  <2> QED
    BY <2>1, <2>2, <1>2, <1>3, <1>4, EventType
<1>13. ASSUME NEW e \in Entries, SweepStale(e) PROVE emitted' \in Events
  <2>1. \/ emitted' = Nothing
        \/ emitted' = Event("swept_dead", e, "pre_departure", NoSource)
        \/ emitted' = Event("swept_landed", e, "in", "acars")
    BY <1>13 DEF SweepStale
  <2> QED
    BY <2>1, <1>1, <1>2, <1>3, <1>4, EventType
<1>14. ASSUME NEW e \in Entries, Visit(e) PROVE emitted' \in Events
  BY <1>14, <1>6, <1>9, <1>10, <1>11, <1>12, <1>13 DEF Visit
<1> QED
  BY <1>5, <1>6, <1>7, <1>8, <1>14 DEF Next, Poller

LEMMA StepSound == Sound /\ [Next]_vars => Sound'
<1> SUFFICES ASSUME Sound, [Next]_vars PROVE Sound'
  OBVIOUS
<1>1. emitted' \in Events
  BY StepEvent
<1>2. LedgerTypeOK'
  BY RowsType
<1>3. snapshot' \in [Entries -> Row \cup {Absent}]
  BY StepFrame DEF Sound, TypeOK, LedgerTypeOK
<1>4. transient' \subseteq Entries /\ inbound' \subseteq Entries
  BY StepFrame DEF Sound, TypeOK
<1> QED
  BY <1>1, <1>2, <1>3, <1>4, StepFrame DEF Sound, TypeOK, Events

(* Rows, the poller's work list, the world and what is pushed keep their    *)
(* types.                                                                   *)
THEOREM TypeCorrect == Spec => []TypeOK
<1>1. Sound => TypeOK
  BY DEF Sound
<1> QED
  BY <1>1, InitSound, StepSound, PTL DEF Spec

-----------------------------------------------------------------------------
(* Permanent entries.                                                       *)

LEMMA AfterPresence ==
  ASSUME LedgerTypeOK, NEW e \in Entries, NEW p \in Phases, NEW s \in Sources, NEW x \in Entries
  PROVE  After(e, p, s)[x] # Absent <=> rows[x] # Absent
<1>1. CASE Accepted(e, p, s)
  <2>1. rows[e] # Absent /\ rows[e] \in Row
    BY <1>1 DEF Accepted, Present, LedgerTypeOK
  <2>2. Asserted(rows[e], p, s, rows[e].lockTier) \in Row
    <3> DEFINE c == [phase |-> p, source |-> s]
    <3>1. c \in [phase : Phases, source : Sources] /\ c.phase = p /\ c.source = s
      OBVIOUS
    <3> HIDE DEF c
    <3> QED
      BY <2>1, <3>1, AssertedType
  <2>3. Asserted(rows[e], p, s, rows[e].lockTier) # Absent
    BY <2>2, NotAbsent
  <2> QED
    BY <1>1, <2>1, <2>3 DEF After, LedgerTypeOK
<1>2. CASE ~Accepted(e, p, s)
  BY <1>2 DEF After
<1> QED
  BY <1>1, <1>2

LEMMA StepPermanent ==
  ASSUME Sound, [Next]_vars, NEW e \in Entries \ transient, Present(e)
  PROVE  Present(e)'
<1> USE DEF Present
<1>1. CASE GateCall
  BY <1>1, AfterPresence DEF GateCall, Sound, TypeOK
<1>2. CASE Removal
  BY <1>2 DEF Removal, Sound, TypeOK, LedgerTypeOK
<1>3. CASE Addition
  BY <1>3 DEF Addition, AddFlight, Sound, TypeOK, LedgerTypeOK
<1> QED
  BY <1>1, <1>2, <1>3, RowsChange

(* The landed sweep, the expiry sweep, a restart and any number of legs     *)
(* leave a permanent entry where it is: the sweep's work list holds         *)
(* transient entries only, from the read that makes it to its last visit.   *)
THEOREM PermanentEntriesStay == Spec => PermanentKept
<1>1. Sound /\ [Next]_vars => [\A e \in Entries \ transient : Present(e) => Present(e)']_vars
  BY StepPermanent
<1> QED
  BY <1>1, InitSound, StepSound, PTL DEF Spec, PermanentKept

-----------------------------------------------------------------------------
(* Truth.  A gate call leaves every earned row earned: an accepted one is   *)
(* by a truthful source, or by the airline at an airport that the row, and  *)
(* so the route, says surface radar does not cover.                         *)

NoInboundLeg == transient \cap inbound = {}

Inv == Sound /\ RouteKept /\ PhaseEarned /\ SnapshotEarned /\ NoInboundLeg

LEMMA AssertedFields ==
  ASSUME NEW row \in Row, NEW p, NEW s, NEW held
  PROVE  /\ Asserted(row, p, s, held).phase = p
         /\ Asserted(row, p, s, held).source = s
         /\ Asserted(row, p, s, held).origin = row.origin
         /\ Asserted(row, p, s, held).destination = row.destination
  BY DEF Asserted, Row

LEMMA AirlineYields ==
  ASSUME NEW row, NEW e \in Entries, NEW p \in AssertivePhases, NEW live,
         row.origin = Route[e].origin, row.destination = Route[e].destination,
         Accepts(row, p, "tfms_airline", live)
  PROVE  AirlineOnly(e, p, "tfms_airline")
  BY DEF Accepts, Allowed, AirlineOnly, SmesCovers

LEMMA AbsentEarned == \A e \in Entries : Earned(e, Absent)
  BY DEF Earned, Absent, AssertivePhases

LEMMA NewRowEarned == \A e \in Entries : Earned(e, NewRow(Route[e]))
  BY DEF Earned, NewRow, NoPhase, AssertivePhases

LEMMA AcceptedEarned ==
  ASSUME NEW e \in Entries, NEW row \in Row, NEW p \in Phases, NEW s,
         row.origin = Route[e].origin, row.destination = Route[e].destination,
         Accepts(row, p, s, swimLive), HasReached(e, p) \/ s = "tfms_airline"
  PROVE  Earned(e, Asserted(row, p, s, row.lockTier))
<1>1. CASE p \in AssertivePhases /\ s = "tfms_airline"
  BY <1>1, AirlineYields, AssertedFields DEF Earned
<1>2. CASE HasReached(e, p) \/ p \notin AssertivePhases
  BY <1>2, AssertedFields DEF Earned
<1> QED
  BY <1>1, <1>2

LEMMA RowsEarned ==
  ASSUME Sound, RouteKept, PhaseEarned, NoInboundLeg, NEW e \in transient,
         GateCall \/ Removal \/ Addition
  PROVE  Earned(e, rows'[e])
<1>0. e \in Entries /\ LedgerTypeOK /\ Earned(e, rows[e])
  BY DEF Sound, TypeOK, PhaseEarned
<1>1. CASE GateCall
  <2>1. PICK x \in Entries, p \in Phases, s \in Sources :
          rows' = After(x, p, s) /\ Truthful(x, p, s)
    BY <1>1 DEF GateCall
  <2>2. CASE x = e /\ Accepted(e, p, s)
    <3>1. rows[e] \in Row /\ Present(e)
      BY <1>0, <2>2 DEF Accepted, Present, LedgerTypeOK
    <3>2. HasReached(e, p) \/ s = "tfms_airline"
      BY <2>1, <2>2 DEF Truthful, NoInboundLeg
    <3>3. Earned(e, Asserted(rows[e], p, s, rows[e].lockTier))
      BY <1>0, <2>2, <3>1, <3>2, AcceptedEarned DEF Accepted, RouteKept
    <3> QED
      BY <1>0, <2>1, <2>2, <3>3 DEF After, LedgerTypeOK
  <2>3. CASE ~(x = e /\ Accepted(e, p, s))
    BY <1>0, <2>1, <2>3 DEF After, LedgerTypeOK
  <2> QED
    BY <2>2, <2>3
<1>2. CASE Removal
  BY <1>0, <1>2, AbsentEarned DEF Removal, LedgerTypeOK
<1>3. CASE Addition
  <2>1. PICK x \in transient, known \in {NoPhase, "out", "off"} : AddFlight(x, known)
    BY <1>3 DEF Addition
  <2>2. transient \subseteq Entries
    BY DEF Sound, TypeOK
  <2>3. PICK row \in Row, new \in Row :
           /\ row = IF Present(x) THEN rows[x] ELSE NewRow(Route[x])
           /\ rows' = [rows EXCEPT ![x] = new]
           /\ \/ new = row
              \/ /\ known # NoPhase /\ Accepts(row, known, "tfms_airline", swimLive)
                 /\ new = Asserted(row, known, "tfms_airline", row.lockTier)
    BY <1>0, <2>1, <2>2, AddedRow
  <2>4. CASE x = e
    <3>1. Earned(e, row)
      BY <1>0, <2>3, <2>4, NewRowEarned
    <3>2. row.origin = Route[e].origin /\ row.destination = Route[e].destination
      BY <1>0, <2>3, <2>4 DEF RouteKept, NewRow
    <3>3. known # NoPhase => known \in Phases
      BY DEF Phases
    <3>4. Earned(e, new)
      BY <1>0, <2>3, <3>1, <3>2, <3>3, AcceptedEarned
    <3> QED
      BY <1>0, <2>3, <2>4, <3>4 DEF LedgerTypeOK
  <2>5. CASE x # e
    BY <1>0, <2>3, <2>5 DEF LedgerTypeOK
  <2> QED
    BY <2>4, <2>5
<1> QED
  BY <1>1, <1>2, <1>3

LEMMA StepRoute == ASSUME Sound, RouteKept, [Next]_vars PROVE RouteKept'
<1>0. LedgerTypeOK /\ transient \subseteq Entries
  BY DEF Sound, TypeOK
<1> SUFFICES ASSUME NEW x \in Entries, rows'[x] # Absent
             PROVE  /\ rows'[x].origin = Route[x].origin
                    /\ rows'[x].destination = Route[x].destination
  BY DEF RouteKept, Present
<1> USE DEF RouteKept, Present
<1>1. CASE GateCall
  <2>1. PICK e \in Entries, p \in Phases, s \in Sources : rows' = After(e, p, s)
    BY <1>1 DEF GateCall
  <2>2. CASE x = e /\ Accepted(e, p, s)
    <3>1. rows[x] \in Row /\ rows[x] # Absent
      BY <1>0, <2>2 DEF Accepted, LedgerTypeOK
    <3>2. rows'[x] = Asserted(rows[x], p, s, rows[x].lockTier)
      BY <1>0, <2>1, <2>2 DEF After, LedgerTypeOK
    <3> QED
      BY <3>1, <3>2, AssertedFields
  <2>3. CASE ~(x = e /\ Accepted(e, p, s))
    BY <1>0, <2>1, <2>3 DEF After, LedgerTypeOK
  <2> QED
    BY <2>2, <2>3
<1>2. CASE Removal
  BY <1>0, <1>2 DEF Removal, LedgerTypeOK
<1>3. CASE Addition
  <2>1. PICK e \in transient, known \in {NoPhase, "out", "off"} : AddFlight(e, known)
    BY <1>3 DEF Addition
  <2>2. PICK row \in Row, new \in Row :
           /\ row = IF rows[e] # Absent THEN rows[e] ELSE NewRow(Route[e])
           /\ rows' = [rows EXCEPT ![e] = new]
           /\ new = row \/ new = Asserted(row, known, "tfms_airline", row.lockTier)
    BY <1>0, <2>1, AddedRow
  <2>3. row.origin = Route[e].origin /\ row.destination = Route[e].destination
    BY <1>0, <2>2 DEF NewRow
  <2>4. new.origin = Route[e].origin /\ new.destination = Route[e].destination
    BY <2>2, <2>3, AssertedFields
  <2> QED
    BY <1>0, <2>2, <2>4 DEF LedgerTypeOK
<1> QED
  BY <1>0, <1>1, <1>2, <1>3, RowsChange

(* A transient entry's flight never goes back: Fly raises its phase, and    *)
(* only a permanent entry flies another leg.                                *)
LEMMA Onward ==
  ASSUME Sound, [Next]_vars, NEW e \in transient, NEW p \in Phases, HasReached(e, p)
  PROVE  HasReached(e, p)'
<1>1. actual \in [Entries -> Phases] /\ e \in Entries
  BY DEF Sound, TypeOK
<1>2. ASSUME NEW x \in Entries, Fly(x) PROVE HasReached(e, p)'
  <2>1. PICK q \in Phases : /\ PhaseIndex(q) = PhaseIndex(actual[x]) + 1
                            /\ actual' = [actual EXCEPT ![x] = q]
    BY <1>2 DEF Fly
  <2>2. \A r \in Phases : PhaseIndex(r) \in Int
    BY DEF PhaseIndex, Phases
  <2> QED
    BY <1>1, <2>1, <2>2 DEF HasReached
<1>3. ASSUME NEW x \in Entries, NextLeg(x) PROVE HasReached(e, p)'
  BY <1>1, <1>3 DEF NextLeg, HasReached
<1>4. actual' = actual \/ \E x \in Entries : Fly(x) \/ NextLeg(x)
  <2> USE DEF worldVars
  <2>1. CASE Poller
    BY <2>1 DEF Poller, StartTick, StartSweep, EndTick, Visit, CheckTracked, CheckOverdue,
                CheckInferred, CheckDark, SweepLanded, SweepStale, SweepKeeps, Visited
  <2>2. CASE PollerRestart \/ SwimChanges \/ UNCHANGED vars
    BY <2>2 DEF PollerRestart, SwimChanges, vars
  <2>3. ASSUME NEW x \in Entries, NEW q \in Phases, NEW known \in {NoPhase, "out", "off"},
               \/ InboundAges(x) \/ DeleteFlight(x) \/ Expire(x)
               \/ SmesEvent(x, q) \/ TfmsTimes(x, q) \/ AddFlight(x, known)
        PROVE  actual' = actual
    BY <2>3 DEF InboundAges, DeleteFlight, Expire, SmesEvent, TfmsTimes, AddFlight
  <2> QED
    BY <2>1, <2>2, <2>3 DEF Next
<1>5. CASE actual' = actual
  BY <1>5 DEF HasReached
<1> QED
  BY <1>2, <1>3, <1>4, <1>5

LEMMA StillEarned ==
  ASSUME Sound, [Next]_vars, NEW e \in transient, NEW row, Earned(e, row)
  PROVE  row.phase \in AssertivePhases =>
           \/ PhaseIndex(row.phase) <= PhaseIndex(actual'[e])
           \/ AirlineOnly(e, row.phase, row.source)
<1> SUFFICES ASSUME row.phase \in AssertivePhases, HasReached(e, row.phase)
             PROVE  PhaseIndex(row.phase) <= PhaseIndex(actual'[e])
  BY DEF Earned
<1>1. row.phase \in Phases
  BY DEF AssertivePhases, Phases
<1>2. HasReached(e, row.phase)'
  BY <1>1, Onward
<1> QED
  BY <1>2 DEF HasReached

(* No watch for the day is taken out on an aircraft that has just landed    *)
(* from another leg; watch_inbound shows what happens otherwise.            *)
TailsClear == \A s \in Scenarios : s.transient \cap s.sameTail = {}

LEMMA InitInv == TailsClear /\ Init => Inv
<1> SUFFICES ASSUME TailsClear, Init PROVE Inv
  OBVIOUS
<1>1. Sound /\ transient \subseteq Entries
  BY InitSound DEF Sound, TypeOK
<1>2. NoInboundLeg
  BY DEF Init, TailsClear, NoInboundLeg
<1>3. RouteKept
  BY DEF Init, RouteKept, Present, NewRow
<1>4. PhaseEarned /\ SnapshotEarned
  BY <1>1, AbsentEarned DEF Init, PhaseEarned, SnapshotEarned
<1> QED
  BY <1>1, <1>2, <1>3, <1>4 DEF Inv

LEMMA StepInv == Inv /\ [Next]_vars => Inv'
<1> SUFFICES ASSUME Inv, [Next]_vars PROVE Inv'
  OBVIOUS
<1> USE DEF Inv
<1>1. Sound' /\ RouteKept'
  BY StepSound, StepRoute
<1>2. transient' = transient /\ inbound' \subseteq inbound
  BY StepFrame
<1>3. NoInboundLeg'
  BY <1>2 DEF NoInboundLeg
<1>4. ASSUME NEW e \in transient PROVE Earned(e, rows[e])' /\ Earned(e, snapshot[e])'
  <2>1. Earned(e, rows[e]) /\ Earned(e, snapshot[e])
    BY DEF PhaseEarned, SnapshotEarned
  <2>2. Earned(e, rows'[e])
    <3>1. CASE rows' = rows
      BY <2>1, <3>1
    <3>2. CASE GateCall \/ Removal \/ Addition
      BY <3>2, RowsEarned
    <3> QED
      BY <3>1, <3>2, RowsChange
  <2>3. Earned(e, snapshot'[e])
    BY <2>1, StepFrame
  <2>4. ASSUME NEW row, row = rows'[e] \/ row = snapshot'[e]
        PROVE  row.phase \in AssertivePhases =>
                 \/ PhaseIndex(row.phase) <= PhaseIndex(actual'[e])
                 \/ AirlineOnly(e, row.phase, row.source)
    BY <2>2, <2>3, <2>4, StillEarned
  <2> QED
    BY <2>4 DEF Earned, HasReached, AirlineOnly
<1>5. PhaseEarned' /\ SnapshotEarned'
  BY <1>2, <1>4 DEF PhaseEarned, SnapshotEarned
<1> QED
  BY <1>1, <1>3, <1>5

(* No phase early: whatever order the sweep, the radar, the airline, the    *)
(* web process, SWIM outages and restarts act in, an assertive phase in a   *)
(* transient row has happened or is the airline's word for an airport that  *)
(* radar does not cover.                                                    *)
THEOREM NoPhaseEarly == TailsClear /\ Spec => []PhaseEarned
<1>1. Inv => PhaseEarned
  BY DEF Inv
<1> QED
  BY <1>1, InitInv, StepInv, PTL DEF Spec

(* What the poller acts on was true when it read it and still is.           *)
THEOREM SnapshotsStayTrue == TailsClear /\ Spec => []SnapshotTrue
<1>1. Inv => SnapshotTrue
  BY DEF Inv, SnapshotTrue, Sound
<1> QED
  BY <1>1, InitInv, StepInv, PTL DEF Spec

-----------------------------------------------------------------------------
(* The landed sweep.                                                        *)

LEMMA OnlySweepsLand ==
  ASSUME [Next]_vars, emitted'.kind = "swept_landed"
  PROVE  \/ UNCHANGED <<actual, emitted>>
         \/ \E e \in Entries : SweepLanded(e) \/ SweepStale(e)
<1> USE DEF Nothing, Event
<1>1. CASE StartTick \/ StartSweep \/ EndTick \/ PollerRestart \/ SwimChanges
  BY <1>1 DEF StartTick, StartSweep, EndTick, PollerRestart, SwimChanges
<1>2. ASSUME NEW e \in Entries, Fly(e) \/ InboundAges(e) \/ NextLeg(e) \/ DeleteFlight(e) \/ Expire(e)
      PROVE  FALSE
  BY <1>2 DEF Fly, InboundAges, NextLeg, DeleteFlight, Expire
<1>3. ASSUME NEW e \in Entries, NEW p \in Phases, SmesEvent(e, p) \/ TfmsTimes(e, p)
      PROVE  FALSE
  BY <1>3 DEF SmesEvent, TfmsTimes
<1>4. ASSUME NEW e \in Entries, NEW known \in {NoPhase, "out", "off"}, AddFlight(e, known)
      PROVE  FALSE
  BY <1>4 DEF AddFlight
<1>5. ASSUME NEW e \in Entries, CheckTracked(e) \/ CheckInferred(e) \/ CheckDark(e) \/ SweepKeeps(e)
      PROVE  FALSE
  BY <1>5 DEF CheckTracked, CheckInferred, CheckDark, SweepKeeps
<1>6. ASSUME NEW e \in Entries, CheckOverdue(e) PROVE FALSE
  BY <1>6 DEF CheckOverdue
<1>7. ASSUME NEW e \in Entries, Visit(e) PROVE SweepLanded(e) \/ SweepStale(e)
  BY <1>5, <1>6, <1>7 DEF Visit
<1>8. CASE UNCHANGED vars
  BY <1>8 DEF vars
<1> QED
  BY <1>1, <1>2, <1>3, <1>4, <1>7, <1>8 DEF Next, Poller

LEMMA StepLanded ==
  ASSUME Inv, LandedSweepTruth, [Next]_vars PROVE LandedSweepTruth'
<1> SUFFICES ASSUME emitted'.kind = "swept_landed"
             PROVE  \/ actual'[emitted'.entry] = "in"
                    \/ AirlineOnly(emitted'.entry, "in", emitted'.source)
  BY DEF LandedSweepTruth, AirlineOnly
<1>0. actual \in [Entries -> Phases] /\ transient \subseteq Entries
  BY DEF Inv, Sound, TypeOK
<1>1. \A e \in Entries : HasReached(e, "in") => actual[e] = "in"
  BY <1>0 DEF HasReached, PhaseIndex, Phases
<1>2. CASE UNCHANGED <<actual, emitted>>
  BY <1>2 DEF LandedSweepTruth
<1>3. ASSUME NEW e \in Entries, SweepLanded(e)
      PROVE  \/ actual'[emitted'.entry] = "in"
             \/ AirlineOnly(emitted'.entry, "in", emitted'.source)
  <2>1. /\ snapshot[e].phase = "in" /\ actual' = actual
        /\ emitted' = Event("swept_landed", e, "in", snapshot[e].source)
    BY <1>3 DEF SweepLanded, Visited, worldVars, Nothing
  <2>2. e \in transient
    BY <1>3 DEF SweepLanded, Inv, Sound, SweepIsTransient
  <2>3. HasReached(e, "in") \/ AirlineOnly(e, "in", snapshot[e].source)
    BY <2>1, <2>2 DEF Inv, SnapshotEarned, Earned, AssertivePhases
  <2> QED
    BY <1>1, <2>1, <2>3 DEF Event
<1>4. ASSUME NEW e \in Entries, SweepStale(e) PROVE actual'[emitted'.entry] = "in"
  <2>1. PICK acars \in AcarsAnswers(e) :
          acars = "in" /\ emitted' = Event("swept_landed", e, "in", "acars")
    BY <1>4 DEF SweepStale, Nothing, Event
  <2>2. actual' = actual /\ e \notin inbound
    BY <1>4 DEF SweepStale, Visited, worldVars, Inv, Sound, SweepIsTransient, NoInboundLeg
  <2>3. HasReached(e, "in")
    BY <2>1, <2>2, AcarsTruthful DEF NoPhase
  <2> QED
    BY <1>1, <2>1, <2>2, <2>3 DEF Event
<1> QED
  BY <1>2, <1>3, <1>4, OnlySweepsLand

(* What sweep_landed_flights removes as landed has landed, or the airline   *)
(* said so where radar does not see, although it decides on a list read     *)
(* before any number of other steps.                                        *)
THEOREM SweepsOnlyLanded == TailsClear /\ Spec => []LandedSweepTruth
<1>1. Init => LandedSweepTruth
  BY DEF Init, LandedSweepTruth, Nothing
<1>2. Inv /\ LandedSweepTruth /\ [Next]_vars => LandedSweepTruth'
  BY StepLanded
<1> QED
  BY <1>1, <1>2, InitInv, StepInv, PTL DEF Spec
=============================================================================
