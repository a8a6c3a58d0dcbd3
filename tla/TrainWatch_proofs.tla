-------------------------- MODULE TrainWatch_proofs --------------------------
(***************************************************************************)
(* Proofs about TrainWatch for every set of watches, delays, thresholds,    *)
(* buckets and number of runs.                                              *)
(***************************************************************************)
EXTENDS TrainWatch, TLAPS

USE ScaleAssumption, TrainAssumption DEF ScaleAssumption, TrainAssumption

(* The buckets of push_policy have an edge at the delay that counts as      *)
(* late: the registry's time_bucket_min, 5, divides 15.                     *)
EdgeAtLate == \E k \in Nat : Late = k * BucketSize

LEMMA Buckets ==
    ASSUME EdgeAtLate, NEW s \in Nat, NEW d \in Nat, s < Late, Late <= d
    PROVE  InBucket(s) # InBucket(d)
<1>1. PICK k \in Nat : 15 = k * BucketSize
  BY DEF EdgeAtLate, Late
<1>2. k \in 1 .. 15
  BY <1>1
<1>3. BucketSize \in {1, 3, 5, 15}
  BY <1>1, <1>2
<1>4. CASE BucketSize = 1
  BY <1>4 DEF InBucket, NoTime, Late
<1>5. CASE BucketSize = 3
  BY <1>5 DEF InBucket, NoTime, Late
<1>6. CASE BucketSize = 5
  BY <1>6 DEF InBucket, NoTime, Late
<1>7. CASE BucketSize = 15
  BY <1>7 DEF InBucket, NoTime, Late
<1> QED BY <1>3, <1>4, <1>5, <1>6, <1>7

-----------------------------------------------------------------------------
(* Types.                                                                   *)

LEMMA RowShape ==
    ASSUME row \in {NoRow} \cup Rows, row # NoRow
    PROVE  row \in Rows /\ row.phase \in NoPhase .. 3 /\ row.last \in Events
  BY DEF Rows

LEMMA NewRowType == NewRow \in Rows
<1>1. NoPhase \in NoPhase .. 3
  BY DEF NoPhase
<1> QED BY <1>1 DEF NewRow, Rows, Events

(* A row has a last event, the absent one has not.                          *)
LEMMA RowsAreRows == \A r \in Rows : r # NoRow
  BY DEF Rows, NoRow

LEMMA SweepShape ==
    ASSUME sweep \in {Idle, Landed} \cup Steps, sweep.pc \in {"persist", "classify"}
    PROVE  sweep \in Steps /\ sweep.last \in Events /\ sweep.answer \in Answers
  BY DEF Idle, Landed, Steps

LEMMA TimesAreInts == \A d \in Times : d \in Int
  BY DEF Times, NoTime

LEMMA AnswerShape ==
    ASSUME NEW a \in Answers
    PROVE  /\ a.stage \in 1 .. 5 /\ a.full \in BOOLEAN
           /\ a.delay \in Times /\ (a.delay = NoTime \/ a.delay \in Nat)
  BY DEF Answers, Stages, Times

LEMMA EventShape ==
    ASSUME NEW e \in Events
    PROVE  /\ e.run \in Nat /\ e.delay \in Times
           /\ e = NoEvent \/ (e.kind \in Kinds /\ e.run \in 1 .. MaxRuns)
           /\ e = NoEvent => e.run = 0 /\ e.kind = "none"
<1>1. CASE e = NoEvent
  BY <1>1 DEF NoEvent, Times
<1>2. CASE e \in [kind : Kinds, delay : Times, run : 1 .. MaxRuns]
  <2>1. e.run \in 1 .. MaxRuns /\ e.delay \in Times /\ e.kind \in Kinds
    BY <1>2
  <2>2. NoEvent.kind = "none"
    BY DEF NoEvent
  <2>3. e.kind # "none"
    BY <2>1 DEF Kinds
  <2> QED BY <2>1, <2>2, <2>3
<1> QED BY <1>1, <1>2 DEF Events

(* What there is to say, case by case.                                      *)
Said(kind, d) == [kind |-> kind, delay |-> d, run |-> run]

LEMMA SummaryIs ==
    ASSUME NEW a, a.delay \in Int, NEW last
    PROVE  /\ a.delay >= Late => Summary(a, last) = Said("late", a.delay)
           /\ a.delay < Late /\ Arrived(a) => Summary(a, last) = Said("arrived", a.delay)
           /\ a.delay < Late /\ ~Arrived(a) =>
                 Summary(a, last) = IF EnRoute(a) /\ last = NoEvent
                                    THEN Said("en route", NoTime) ELSE Silent
<1> DEFINE IsLate == a.delay >= Late
           There  == a.delay < Late /\ Arrived(a)
           Moving == a.delay < Late /\ ~Arrived(a) /\ EnRoute(a) /\ last = NoEvent
<1>1. Summary(a, last) = CASE IsLate -> Said("late", a.delay)
                           [] There  -> Said("arrived", a.delay)
                           [] Moving -> Said("en route", NoTime)
                           [] OTHER  -> Silent
  BY DEF Summary, Said
<1>2. ~(IsLate /\ There) /\ ~(IsLate /\ Moving) /\ ~(There /\ Moving)
  BY DEF Late
<1>3. a.delay < Late => ~IsLate
  BY DEF Late
<1>4. /\ a.delay >= Late => IsLate
      /\ a.delay < Late /\ Arrived(a) => There
      /\ a.delay < Late /\ ~Arrived(a) =>
            ~IsLate /\ ~There /\ (Moving <=> EnRoute(a) /\ last = NoEvent)
  BY <1>3
<1> HIDE DEF IsLate, There, Moving
<1> QED BY <1>1, <1>2, <1>4

LEMMA SaidShape ==
    ASSUME NEW kind \in Kinds, NEW d \in Times, run \in 1 .. MaxRuns
    PROVE  /\ Said(kind, d) \in Events /\ Said(kind, d) # Silent
           /\ Said(kind, d).kind = kind /\ Said(kind, d).run = run
           /\ Said(kind, d).delay = d
<1>1. /\ Said(kind, d).kind = kind /\ Said(kind, d).run = run
      /\ Said(kind, d).delay = d
  BY DEF Said
<1>2. Said(kind, d) \in Events
  BY DEF Said, Events
<1>3. Silent.kind = "none"
  BY DEF Silent, NoEvent
<1>4. kind # "none"
  BY DEF Kinds
<1> QED BY <1>1, <1>2, <1>3, <1>4

(* Only the word "en route" depends on what was said before.                *)
LEMMA SummaryShape ==
    ASSUME NEW a \in Answers, NEW last \in Events, run \in 1 .. MaxRuns
    PROVE  LET s == Summary(a, last)
           IN /\ s \in Events
              /\ s # Silent => s.run = run
              /\ s.kind = "late" <=> a.delay >= Late
              /\ s.kind = "late" => s.delay = a.delay
              /\ s.kind = "arrived" => Arrived(a)
              /\ s # Silent => Summary(a, NoEvent) = s
              /\ s = Silent => \/ Summary(a, NoEvent) = Silent
                               \/ /\ Summary(a, NoEvent).kind = "en route"
                                  /\ last # NoEvent
<1>1. a.delay \in Times /\ a.delay \in Int /\ NoTime \in Times
  BY AnswerShape DEF NoTime, Times
<1>2. Silent \in Events /\ Silent.kind = "none" /\ Silent = NoEvent
  BY DEF Silent, NoEvent, Events
<1>3. /\ "late" \in Kinds /\ "arrived" \in Kinds /\ "en route" \in Kinds
  BY DEF Kinds
<1>4. a.delay < Late <=> ~(a.delay >= Late)
  BY <1>1 DEF Late
<1>5. \A kind \in Kinds, d \in Times :
         /\ Said(kind, d) \in Events /\ Said(kind, d) # Silent
         /\ Said(kind, d).kind = kind /\ Said(kind, d).run = run
         /\ Said(kind, d).delay = d
  BY SaidShape
<1>6. CASE a.delay >= Late
  <2>1. /\ Summary(a, last) = Said("late", a.delay)
        /\ Summary(a, NoEvent) = Said("late", a.delay)
    BY <1>1, <1>6, SummaryIs
  <2>2. /\ Said("late", a.delay) \in Events /\ Said("late", a.delay) # Silent
        /\ Said("late", a.delay).kind = "late" /\ Said("late", a.delay).run = run
        /\ Said("late", a.delay).delay = a.delay
    <3>1. \A time \in Times :
             /\ Said("late", time) \in Events /\ Said("late", time) # Silent
             /\ Said("late", time).kind = "late" /\ Said("late", time).run = run
             /\ Said("late", time).delay = time
      BY ONLY <1>3, <1>5
    <3>2. a.delay \in Times
      BY <1>1
    <3> QED BY ONLY <3>1, <3>2
  <2> QED BY ONLY <1>6, <2>1, <2>2
<1>7. CASE a.delay < Late /\ Arrived(a)
  <2>1. /\ Summary(a, last) = Said("arrived", a.delay)
        /\ Summary(a, NoEvent) = Said("arrived", a.delay)
    BY <1>1, <1>7, SummaryIs
  <2>2. /\ Said("arrived", a.delay) \in Events /\ Said("arrived", a.delay) # Silent
        /\ Said("arrived", a.delay).kind = "arrived" /\ Said("arrived", a.delay).run = run
        /\ Said("arrived", a.delay).delay = a.delay
    <3>1. \A time \in Times :
             /\ Said("arrived", time) \in Events /\ Said("arrived", time) # Silent
             /\ Said("arrived", time).kind = "arrived" /\ Said("arrived", time).run = run
             /\ Said("arrived", time).delay = time
      BY ONLY <1>3, <1>5
    <3>2. a.delay \in Times
      BY <1>1
    <3> QED BY ONLY <3>1, <3>2
  <2> QED BY ONLY <1>4, <1>7, <2>1, <2>2
<1>8. CASE a.delay < Late /\ ~Arrived(a) /\ EnRoute(a)
  <2>1. /\ Summary(a, last) = IF last = NoEvent THEN Said("en route", NoTime) ELSE Silent
        /\ Summary(a, NoEvent) = Said("en route", NoTime)
    BY <1>1, <1>8, SummaryIs
  <2>2. LET s == Said("en route", NoTime)
       IN /\ s \in Events /\ s # Silent /\ s.run = run
          /\ s.kind = "en route" /\ s.delay = NoTime
    BY ONLY <1>1, <1>3, <1>5, Zenon
  <2> QED BY ONLY <1>2, <1>4, <1>8, <2>1, <2>2
<1>9. CASE a.delay < Late /\ ~Arrived(a) /\ ~EnRoute(a)
  <2>1. Summary(a, last) = Silent /\ Summary(a, NoEvent) = Silent
    BY <1>1, <1>9, SummaryIs
  <2> QED BY <1>2, <1>4, <1>9, <2>1
<1> QED BY <1>4, <1>6, <1>7, <1>8, <1>9

LEMMA HitShape ==
    ASSUME NEW a \in Answers
    PROVE  Fired(Hit(a), 0) \in [ident : Idents, times : [{"delay_min"} -> Times], at : {0}]
  BY AnswerShape DEF Fired, Hit, Idents, TrainState, DestStatus

LEMMA PhaseShape ==
    ASSUME NEW a \in Answers
    PROVE  Phase(a) \in NoPhase .. 3
<1>1. a.stage \in 1 .. 5
  BY AnswerShape
<1>2. Phase(a) \in {0, 3, a.stage - 1, NoPhase} /\ (Phase(a) = a.stage - 1 => a.stage < 5)
  BY <1>1 DEF Phase, NoPhase
<1> QED BY <1>1, <1>2 DEF NoPhase

(* A row stays a row when one of its two fields is written.                 *)
LEMMA RowWritten ==
    ASSUME NEW r \in Rows, NEW p \in NoPhase .. 3, NEW e \in Events
    PROVE  /\ [r EXCEPT !.phase = p] \in Rows
           /\ [r EXCEPT !.phase = p].phase = p /\ [r EXCEPT !.phase = p].last = r.last
           /\ [r EXCEPT !.last = e] \in Rows
           /\ [r EXCEPT !.last = e].last = e /\ [r EXCEPT !.last = e].phase = r.phase
  BY DEF Rows

LEMMA StepWritten ==
    ASSUME NEW s \in Steps
    PROVE  /\ [s EXCEPT !.pc = "classify"] \in Steps
           /\ [s EXCEPT !.pc = "classify"].last = s.last
           /\ [s EXCEPT !.pc = "classify"].answer = s.answer
  BY DEF Steps

(* A sweep holds an answer and a last event only between its fetch and its  *)
(* end.                                                                     *)
Asked == sweep.pc \in {"persist", "classify"}

LEMMA NotAsked == Idle.pc \notin {"persist", "classify"} /\ Landed.pc \notin {"persist", "classify"}
  BY DEF Idle, Landed

(* What each step does to the row, the slot and the sweep.                  *)
LEMMA TypeStep == TypeOK /\ [Next]_vars => TypeOK'
<1> SUFFICES ASSUME TypeOK, [Next]_vars
             PROVE  TypeOK'
  OBVIOUS
<1> USE DEF world, ghosts
<1>1. CASE Advance
  BY <1>1 DEF TypeOK, Advance, Stages, NotListed
<1>2. CASE NextRun
  <2>1. NoEvent \in Events /\ run + 1 \in 1 .. MaxRuns
    BY <1>2 DEF TypeOK, NextRun, Events
  <2> QED BY <1>2, <2>1 DEF TypeOK, NextRun, NotListed
<1>3. CASE Tick
  BY <1>3 DEF TypeOK, Tick
<1>4. CASE Add
  BY <1>4, NewRowType DEF TypeOK, Add
<1>5. CASE Delete
  BY <1>5 DEF TypeOK, Delete
<1>6. CASE Fetch
  <2>1. row \in Rows
    BY <1>6 DEF TypeOK, Fetch, Visible
  <2>2. LastOfThisRun \in Events
    BY <2>1 DEF LastOfThisRun, Rows, Events
  <2>3. PICK a \in Feed : sweep' = [pc |-> "persist", last |-> LastOfThisRun, answer |-> a]
    BY <1>6 DEF Fetch
  <2>4. sweep' \in Steps
    BY <2>2, <2>3 DEF Steps, Feed
  <2> QED BY <1>6, <2>4 DEF TypeOK, Fetch
<1>7. CASE FetchNothing
  BY <1>7 DEF TypeOK, FetchNothing
<1>8. CASE Persist
  <2>1. sweep \in Steps /\ sweep.answer \in Answers
    BY <1>8, SweepShape DEF TypeOK, Persist
  <2>2. sweep' \in Steps
    BY <1>8, <2>1, StepWritten DEF Persist
  <2>3. row' \in {NoRow} \cup Rows
    <3>1. CASE row # NoRow
      <4>1. row \in Rows
        BY <3>1 DEF TypeOK
      <4>2. row.last \in Events
        BY <4>1 DEF Rows
      <4>3. [row EXCEPT !.phase = Phase(sweep.answer)] \in Rows
        BY <2>1, <4>1, <4>2, PhaseShape, RowWritten
      <4> QED BY <1>8, <4>1, <4>3 DEF Persist
    <3>2. CASE row = NoRow
      BY <1>8, <3>2 DEF Persist
    <3> QED BY <3>1, <3>2
  <2> QED BY <1>8, <2>2, <2>3 DEF TypeOK, Persist
<1>9. ASSUME sweep.pc = "classify"
      PROVE  /\ sweep.answer \in Answers /\ Due \in Events
             /\ Noticed(sweep.answer) \in Events
  <2>1. sweep.answer \in Answers /\ sweep.last \in Events /\ run \in 1 .. MaxRuns
    BY <1>9, SweepShape DEF TypeOK
  <2>2. NoEvent \in Events
    BY DEF Events
  <2>3. Summary(sweep.answer, sweep.last) \in Events /\ Summary(sweep.answer, NoEvent) \in Events
    BY <2>1, <2>2, SummaryShape
  <2> QED BY <2>1, <2>3 DEF Due, Noticed, TypeOK
<1>10. CASE Quiet
  BY <1>9, <1>10 DEF TypeOK, Quiet
<1>11. CASE Suppress
  BY <1>9, <1>11 DEF TypeOK, Suppress, Something
<1>12. CASE Push
  <2>1. sweep.pc = "classify" /\ row \in Rows
    BY <1>12 DEF TypeOK, Push, Something, Visible
  <2>2. row.phase \in NoPhase .. 3
    BY <2>1 DEF Rows
  <2>3. row' \in Rows
    BY <1>9, <1>12, <2>1, <2>2, RowWritten DEF Push
  <2>4. slot' \in {NoPrior} \cup [ident : Idents, times : [{"delay_min"} -> Times], at : {0}]
    BY <1>9, <1>12, <2>1, HitShape DEF TypeOK, Push
  <2>5. earlier' \in BOOLEAN
    BY <1>12 DEF TypeOK, Push
  <2> QED BY <1>9, <1>12, <2>1, <2>3, <2>4, <2>5 DEF TypeOK, Push
<1>13. CASE SweepLanded
  BY <1>13 DEF TypeOK, SweepLanded
<1>14. CASE SweepLeaves
  BY <1>14 DEF TypeOK, SweepLeaves
<1>15. CASE Expire
  BY <1>15 DEF TypeOK, Expire
<1>16. CASE Crash
  BY <1>16 DEF TypeOK, Crash
<1>17. CASE UNCHANGED vars
  BY <1>17 DEF TypeOK, vars
<1> QED BY <1>1, <1>2, <1>3, <1>4, <1>5, <1>6, <1>7, <1>8, <1>10, <1>11, <1>12,
           <1>13, <1>14, <1>15, <1>16, <1>17 DEF Next, Sweep

LEMMA TypeInit == Init => TypeOK
<1>1. NoEvent \in Events
  BY DEF Events
<1>2. 1 \in 1 .. MaxRuns
  OBVIOUS
<1>3. Init => row \in {NoRow} \cup Rows
  BY NewRowType DEF Init
<1> QED BY <1>1, <1>2, <1>3 DEF Init, TypeOK

(* The sweep of trains, its row and its policy slot keep their shape.       *)
THEOREM TrainTypeCorrect == Spec => []TypeOK
  BY TypeInit, TypeStep, PTL DEF Spec

-----------------------------------------------------------------------------
(* The phase.                                                               *)

(* update_train_phase writes forward only, a push writes the other field,   *)
(* and a row that is there was not there before or is the same.             *)
THEOREM PhaseGoesForward == Spec => PhaseForward
<1>1. TypeOK /\ [Next]_vars => [(row # NoRow /\ row' # NoRow) => row'.phase >= row.phase]_vars
  <2> SUFFICES ASSUME TypeOK, Next, row # NoRow, row' # NoRow
               PROVE  row'.phase >= row.phase
    OBVIOUS
  <2>1. row \in Rows /\ row.phase \in NoPhase .. 3 /\ row.last \in Events
    BY RowShape DEF TypeOK
  <2>2. CASE UNCHANGED row
    BY <2>1, <2>2 DEF NoPhase
  <2>3. CASE Persist
    <3>1. sweep.answer \in Answers
      BY <2>3, SweepShape DEF TypeOK, Persist
    <3>2. Phase(sweep.answer) \in NoPhase .. 3
      BY <3>1, PhaseShape
    <3>3. CASE Phase(sweep.answer) > row.phase
      <4>1. row'.phase = Phase(sweep.answer)
        BY <2>1, <2>3, <3>2, <3>3, RowWritten DEF Persist
      <4> QED BY <2>1, <3>2, <3>3, <4>1 DEF NoPhase
    <3> QED BY <2>2, <2>3, <3>3 DEF Persist
  <2>4. CASE Push
    <3>1. row'.phase = row.phase
      BY <2>1, <2>4 DEF Push, Rows
    <3> QED BY <2>1, <3>1 DEF NoPhase
  <2>5. UNCHANGED row \/ Persist \/ Push
    BY DEF Next, Sweep, Advance, NextRun, Tick, Add, Delete, Fetch, FetchNothing, Quiet,
           Suppress, SweepLanded, SweepLeaves, Expire, Crash
  <2> QED BY <2>2, <2>3, <2>4, <2>5
<1> QED BY <1>1, TrainTypeCorrect, PTL DEF Spec, PhaseForward

-----------------------------------------------------------------------------
(* What the row and the sweep remember of the last push.                    *)

(* A row's last event is of this run or of an earlier one; one of this run  *)
(* is the last push about it; and the last event a sweep goes by, which it  *)
(* read before it asked the feed, is still the last push.                   *)
LastPast == row # NoRow => row.last.run <= run
LastTold == row # NoRow /\ row.last.run = run => row.last = told
HeldTold == Asked => sweep.last \in {NoEvent, told}

LastHeard == LastPast /\ LastTold /\ HeldTold

(* The steps that say nothing and begin nothing.                            *)
Keeps ==
    /\ UNCHANGED <<run, told>>
    /\ row' # NoRow => row' = NewRow \/ (row # NoRow /\ row'.last = row.last)
    /\ Asked' => Asked /\ sweep'.last = sweep.last /\ sweep'.answer = sweep.answer

LEMMA StepsKeep ==
    TypeOK /\ [Next]_vars => Keeps \/ NextRun \/ Fetch \/ Push
<1> SUFFICES ASSUME TypeOK, [Next]_vars
             PROVE  Keeps \/ NextRun \/ Fetch \/ Push
  OBVIOUS
<1> USE DEF world, ghosts, Asked
<1>1. CASE Persist
  <2>1. sweep \in Steps /\ sweep.answer \in Answers
    BY <1>1, SweepShape DEF TypeOK, Persist
  <2>2. row' # NoRow => row # NoRow /\ row'.last = row.last
    <3>1. CASE row # NoRow
      <4>1. row \in Rows
        BY <3>1 DEF TypeOK
      <4> QED BY <1>1, <3>1, <4>1 DEF Persist, Rows
    <3>2. CASE row = NoRow
      BY <1>1, <3>2 DEF Persist
    <3> QED BY <3>1, <3>2
  <2>3. sweep'.last = sweep.last /\ sweep'.answer = sweep.answer
    BY <1>1, <2>1, StepWritten DEF Persist
  <2> QED BY <1>1, <2>2, <2>3 DEF Keeps, Persist
<1>2. CASE Add \/ Delete \/ Expire \/ Advance \/ Tick
  BY <1>2 DEF Keeps, Add, Delete, Expire, Advance, Tick
<1>3. CASE FetchNothing \/ Quiet \/ Suppress \/ SweepLanded \/ SweepLeaves \/ Crash
  BY <1>3, NotAsked
     DEF Keeps, FetchNothing, Quiet, Suppress, SweepLanded, SweepLeaves, Crash
<1>4. CASE UNCHANGED vars
  BY <1>4 DEF Keeps, vars
<1> QED BY <1>1, <1>2, <1>3, <1>4 DEF Next, Sweep

LEMMA LastStep == TypeOK /\ LastHeard /\ [Next]_vars => LastHeard'
<1> SUFFICES ASSUME TypeOK, LastHeard, [Next]_vars
             PROVE  LastHeard'
  OBVIOUS
<1>1. run \in Nat /\ run > 0
  BY DEF TypeOK
<1>2. ASSUME row # NoRow
      PROVE  row \in Rows /\ row.last.run \in Nat
  BY <1>2, RowShape, EventShape DEF TypeOK
<1>3. CASE Keeps
  <2>1. NewRow.last.run = 0
    BY DEF NewRow, NoEvent
  <2>2. LastPast' /\ LastTold'
    BY <1>1, <1>3, <2>1 DEF Keeps, LastHeard, LastPast, LastTold
  <2>3. HeldTold'
    BY <1>3 DEF Keeps, LastHeard, HeldTold
  <2> QED BY <2>2, <2>3 DEF LastHeard
<1>4. CASE NextRun
  <2>1. HeldTold'
    BY <1>4, NotAsked DEF NextRun, HeldTold, Asked, world, ghosts
  <2>2. run' = run + 1 /\ row' = row
    BY <1>4 DEF NextRun
  <2>3. row # NoRow => row.last.run < run + 1
    BY <1>1, <1>2 DEF LastHeard, LastPast
  <2> QED BY <1>1, <1>2, <2>1, <2>2, <2>3 DEF LastHeard, LastPast, LastTold
<1>5. CASE Fetch
  <2>1. UNCHANGED <<run, told, row>> /\ row # NoRow
    BY <1>5 DEF Fetch, Visible, world, ghosts
  <2>2. sweep'.last = LastOfThisRun
    BY <1>5 DEF Fetch
  <2>3. LastOfThisRun \in {NoEvent, told}
    BY <2>1 DEF LastOfThisRun, LastHeard, LastTold
  <2> QED BY <2>1, <2>2, <2>3 DEF LastHeard, LastPast, LastTold, HeldTold
<1>6. CASE Push
  <2>1. sweep.answer \in Answers /\ sweep.last \in Events /\ Due # Silent /\ row # NoRow
    BY <1>6, SweepShape DEF TypeOK, Push, Something, Visible
  <2>2. Due \in Events /\ Due.run = run
    <3>1. run \in 1 .. MaxRuns
      BY DEF TypeOK
    <3>2. /\ Summary(sweep.answer, sweep.last) \in Events
          /\ Summary(sweep.answer, sweep.last) # Silent => Summary(sweep.answer, sweep.last).run = run
      BY <2>1, <3>1, SummaryShape
    <3> QED BY <2>1, <3>2 DEF Due
  <2>3. row'.last = Due /\ row'.last = told' /\ run' = run
    BY <1>2, <1>6, <2>1 DEF Push, Rows, world
  <2>4. HeldTold'
    BY <1>6, NotAsked DEF Push, HeldTold, Asked
  <2> QED BY <1>1, <2>2, <2>3, <2>4 DEF LastHeard, LastPast, LastTold
<1> QED BY <1>3, <1>4, <1>5, <1>6, StepsKeep

LEMMA LastInit == Init => LastHeard
<1>1. NewRow.last.run = 0
  BY DEF NewRow, NoEvent
<1> QED BY <1>1, NotAsked DEF Init, LastHeard, LastPast, LastTold, HeldTold, Asked

-----------------------------------------------------------------------------
(* What the operator was told.                                              *)

SlotType == slot \in {NoPrior} \cup [ident : Idents, times : [{"delay_min"} -> Times], at : {0}]

(* A push held back is of a delay near the one in the slot, and on the same *)
(* side of what counts as late.                                             *)
LEMMA HeldBack ==
    ASSUME EdgeAtLate, SlotType, NEW a \in Answers, Decision(a) \in Suppressions
    PROVE  /\ slot # NoPrior /\ a.delay \in Nat /\ slot.times.delay_min \in Nat
           /\ a.delay < VeryLate
           /\ a.delay >= Late <=> slot.times.delay_min >= Late
           /\ a.delay < slot.times.delay_min + Threshold /\ slot.times.delay_min < a.delay + Threshold
<1>1. a.delay \in Int /\ (a.delay = NoTime \/ a.delay \in Nat)
  BY AnswerShape DEF NoTime
<1>2. a.delay < VeryLate
  <2>1. "hot" \notin Suppressions
    BY DEF Suppressions
  <2>2. a.delay >= VeryLate => Decision(a) = "hot"
    BY DEF Decision
  <2> QED BY <1>1, <2>1, <2>2 DEF VeryLate
<1>3. Decision(a) = ChangeOutcome(Rule, slot, Hit(a), FALSE, 0)
  <2>1. ~(a.delay >= VeryLate)
    BY <1>1, <1>2 DEF VeryLate
  <2>2. Outcome(Rule, slot, Hit(a), FALSE, 0) = ChangeOutcome(Rule, slot, Hit(a), FALSE, 0)
    <3>1. Rule.cls = "change"
      BY DEF Rule
    <3> QED BY <3>1 DEF Outcome
  <2> QED BY <2>1, <2>2 DEF Decision
<1>4. /\ ~Rule.requireTime /\ ~Rule.pastWhileGround /\ ~Rule.tighten
      /\ Rule.below # NotSent
  BY DEF Rule, NotSent
<1>5. /\ Hit(a).times.delay_min = a.delay /\ DOMAIN Hit(a).times = {"delay_min"}
      /\ slot # NoPrior => DOMAIN slot.times = {"delay_min"}
  BY DEF Hit, SlotType
<1>6. /\ slot # NoPrior
      /\ a.delay # NoTime /\ slot.times.delay_min # NoTime
      /\ ~(Moved(Rule, a.delay, slot.times.delay_min) >= Threshold)
      /\ InBucket(a.delay) = InBucket(slot.times.delay_min)
  <2>1. /\ "first" \notin Suppressions /\ "identity_changed" \notin Suppressions
        /\ "first_usable_value" \notin Suppressions /\ "moved" \notin Suppressions
        /\ "moved_below" \notin Suppressions
    BY DEF Suppressions
  <2>2. slot # NoPrior
    BY <1>3, <1>4, <2>1 DEF ChangeOutcome
  <2>3. slot.ident = Hit(a).ident
    BY <1>3, <1>4, <2>1, <2>2 DEF ChangeOutcome
  <2>4. /\ Compared(slot, Hit(a)) # {} /\ ~HasMoved(Rule, slot, Hit(a))
        /\ InBuckets(Hit(a).times) = InBuckets(slot.times)
    BY <1>3, <1>4, <2>1, <2>2, <2>3 DEF ChangeOutcome
  <2>5. /\ Compared(slot, Hit(a)) = {"delay_min"}
        /\ Hit(a).times.delay_min # NoTime /\ slot.times.delay_min # NoTime
    BY <1>5, <2>2, <2>4 DEF Compared, Usable
  <2>6. ~(Moved(Rule, a.delay, slot.times.delay_min) >= Threshold)
    BY <1>5, <2>4, <2>5 DEF HasMoved
  <2>7. InBucket(a.delay) = InBucket(slot.times.delay_min)
    <3>1. /\ InBuckets(Hit(a).times)["delay_min"] = InBucket(Hit(a).times.delay_min)
          /\ InBuckets(slot.times)["delay_min"] = InBucket(slot.times.delay_min)
      BY <1>5, <2>2 DEF InBuckets
    <3> QED BY <1>5, <2>4, <3>1
  <2> QED BY <1>5, <2>2, <2>5, <2>6, <2>7
<1>7. slot.times.delay_min \in Nat /\ a.delay \in Nat
  BY <1>1, <1>6 DEF SlotType, Times
<1>8. a.delay < slot.times.delay_min + Threshold /\ slot.times.delay_min < a.delay + Threshold
  BY <1>4, <1>6, <1>7 DEF Moved
<1>9. a.delay >= Late <=> slot.times.delay_min >= Late
  <2>1. Late \in Nat
    BY DEF Late
  <2>2. ~(slot.times.delay_min < Late /\ Late <= a.delay) /\ ~(a.delay < Late /\ Late <= slot.times.delay_min)
    BY <1>6, <1>7, Buckets
  <2> QED BY <1>7, <2>1, <2>2
<1> QED BY <1>2, <1>6, <1>7, <1>8, <1>9

(* A slot written in this run is backed by the last push: by its delay when *)
(* that was late, unless a very late one, which leaves no trace in the      *)
(* slot, came after it.                                                     *)
SlotTold ==
    slot # NoPrior /\ ~earlier =>
        /\ told # NoEvent
        /\ \/ told.kind = "late" /\ told.delay >= VeryLate
           \/ slot.times.delay_min >= Late => told.kind = "late" /\ told.delay = slot.times.delay_min

TellInv == SlotTold /\ DelayTold

LEMMA TellInit == Init => TellInv
  BY DEF Init, TellInv, SlotTold, DelayTold

(* The steps that are no business of the slot's.                            *)
LEMMA TellQuietly ==
    ASSUME TellInv, UNCHANGED <<slot, told, seen, earlier>>
    PROVE  TellInv'
  BY DEF TellInv, SlotTold, DelayTold, KeepsUpWith

LEMMA TellStep ==
    ASSUME EdgeAtLate
    PROVE  TypeOK /\ LastHeard /\ TellInv /\ [Next]_vars => TellInv'
<1> SUFFICES ASSUME TypeOK, LastHeard, TellInv, [Next]_vars
             PROVE  TellInv'
  OBVIOUS
<1>1. CASE UNCHANGED <<slot, told, seen, earlier>>
  BY <1>1, TellQuietly
<1>2. CASE NextRun
  <2>1. seen' = NoEvent /\ earlier' = (slot # NoPrior) /\ slot' = slot
    BY <1>2 DEF NextRun, ghosts
  <2> QED BY <2>1 DEF TellInv, SlotTold, DelayTold
<1> DEFINE a == sweep.answer
           said == Noticed(a)
<1>3. ASSUME sweep.pc = "classify"
      PROVE  /\ a \in Answers /\ a.delay \in Int /\ sweep.last \in Events
             /\ sweep.last \in {NoEvent, told}
             /\ Due \in Events
             /\ Due.kind = "late" <=> a.delay >= Late
             /\ Due.kind = "late" => Due.delay = a.delay
             /\ Due # Silent => said = Due
             /\ Due = Silent => said = seen \/ (said.kind = "en route" /\ told # NoEvent)
  <2>1. a \in Answers /\ sweep.last \in Events /\ run \in 1 .. MaxRuns
    BY <1>3, SweepShape DEF TypeOK
  <2>2. sweep.last \in {NoEvent, told}
    BY <1>3 DEF LastHeard, HeldTold, Asked
  <2>3. a.delay \in Int
    BY <2>1, AnswerShape DEF NoTime
  <2> QED BY <2>1, <2>2, <2>3, SummaryShape DEF Due, Noticed
<1>4. ASSUME NEW d \in Nat
      PROVE  d < d + Threshold
  OBVIOUS
<1>5. CASE Quiet
  <2>1. UNCHANGED <<slot, told, earlier>> /\ seen' = said
    BY <1>5 DEF Quiet
  <2>2. CASE Due = Silent
    <3>1. CASE said = seen
      BY <2>1, <3>1, TellQuietly
    <3>2. CASE said.kind = "en route" /\ told # NoEvent
      <4>1. SlotTold'
        BY <2>1 DEF TellInv, SlotTold
      <4>2. DelayTold'
        BY <2>1, <3>2 DEF DelayTold
      <4> QED BY <4>1, <4>2 DEF TellInv
    <3> QED BY <1>3, <1>5, <2>2, <3>1, <3>2 DEF Quiet
  <2>3. CASE Due # Silent
    <3>1. Due = told /\ said = told /\ told # NoEvent
      BY <1>3, <1>5, <2>3 DEF Quiet, Silent
    <3>2. told.kind = "late" => told.delay \in Nat
      BY <1>3, <1>5, <3>1 DEF Quiet, Late
    <3>3. told.kind = "late" => KeepsUpWith(told.delay)
      BY <1>4, <3>2 DEF KeepsUpWith
    <3>4. seen' = told /\ told' = told
      BY <2>1, <3>1
    <3>5. DelayTold'
      BY <3>1, <3>3, <3>4 DEF DelayTold, KeepsUpWith
    <3>6. SlotTold'
      BY <2>1 DEF TellInv, SlotTold
    <3> QED BY <3>5, <3>6 DEF TellInv
  <2> QED BY <2>2, <2>3
<1>6. CASE Suppress
  <2>1. UNCHANGED <<slot, told, earlier>> /\ sweep.pc = "classify" /\ Due # Silent
    BY <1>6 DEF Suppress, Something
  <2>2. CASE ~Visible
    <3>1. seen' = seen
      BY <1>6, <2>2 DEF Suppress
    <3> QED BY <2>1, <3>1, TellQuietly
  <2>3. CASE Visible
    <3>1. seen' = Due /\ Decision(a) \in Suppressions
      BY <1>3, <1>6, <2>1, <2>3 DEF Suppress
    <3>2. /\ slot # NoPrior /\ a.delay \in Nat /\ slot.times.delay_min \in Nat
          /\ a.delay < VeryLate
          /\ a.delay >= Late <=> slot.times.delay_min >= Late
          /\ a.delay < slot.times.delay_min + Threshold /\ slot.times.delay_min < a.delay + Threshold
      <4>1. SlotType
        BY DEF TypeOK, SlotType
      <4> QED BY <1>3, <2>1, <3>1, <4>1, HeldBack
    <3>3. ASSUME ~earlier, Due.kind = "late"
          PROVE  KeepsUpWith(Due.delay)
      <4>1. Due.delay = a.delay /\ slot.times.delay_min >= Late
        BY <1>3, <2>1, <3>2, <3>3
      <4>2. CASE told.kind = "late" /\ told.delay >= VeryLate
        <5>1. told.delay \in Int
          <6>1. told \in Events
            BY DEF TypeOK
          <6>2. told.delay \in Times
            BY <6>1, EventShape
          <6> QED BY <6>2, TimesAreInts
        <5> QED BY <3>2, <4>1, <4>2, <5>1 DEF KeepsUpWith, VeryLate
      <4>3. CASE told.kind = "late" /\ told.delay = slot.times.delay_min
        BY <3>2, <4>1, <4>3 DEF KeepsUpWith
      <4> QED BY <3>2, <3>3, <4>1, <4>2, <4>3 DEF TellInv, SlotTold
    <3>4. ~earlier => told # NoEvent
      BY <3>2 DEF TellInv, SlotTold
    <3>5. DelayTold'
      BY <2>1, <3>1, <3>3, <3>4 DEF DelayTold, KeepsUpWith
    <3>6. SlotTold'
      BY <2>1 DEF TellInv, SlotTold
    <3> QED BY <3>5, <3>6 DEF TellInv
  <2> QED BY <2>2, <2>3
<1>7. CASE Push
  <2>1. sweep.pc = "classify" /\ Due # Silent /\ told' = Due /\ seen' = said /\ said = Due
    BY <1>3, <1>7 DEF Push, Something
  <2>2. Due # NoEvent
    BY <2>1 DEF Silent
  <2>3. Due.kind = "late" => Due.delay \in Nat
    BY <1>3, <2>1 DEF Late
  <2>4. DelayTold'
    BY <1>4, <2>1, <2>2, <2>3 DEF DelayTold, KeepsUpWith
  <2>5. CASE Decision(a) = "hot"
    <3>1. a.delay >= VeryLate
      <4>1. ~(a.delay >= VeryLate) => Decision(a) = ChangeOutcome(Rule, slot, Hit(a), FALSE, 0)
        BY DEF Decision, Outcome, Rule
      <4>2. ChangeOutcome(Rule, slot, Hit(a), FALSE, 0) # "hot"
        BY DEF ChangeOutcome
      <4> QED BY <2>5, <4>1, <4>2
    <3>2. Due.kind = "late" /\ Due.delay >= VeryLate
      <4>1. a.delay \in Int
        BY <1>3, <2>1
      <4>2. a.delay >= Late
        BY <3>1, <4>1 DEF VeryLate, Late
      <4> QED BY <1>3, <2>1, <3>1, <4>2
    <3>3. SlotTold'
      BY <2>1, <2>2, <3>2 DEF SlotTold
    <3> QED BY <2>4, <3>3 DEF TellInv
  <2>6. CASE Decision(a) # "hot"
    <3>1. slot' = Fired(Hit(a), 0)
      BY <1>7, <2>6 DEF Push
    <3>2. slot'.times.delay_min = a.delay
      BY <3>1 DEF Fired, Hit
    <3>3. SlotTold'
      BY <1>3, <2>1, <2>2, <3>2 DEF SlotTold
    <3> QED BY <2>4, <3>3 DEF TellInv
  <2> QED BY <2>5, <2>6
<1>8. CASE Advance \/ Tick \/ Add \/ Delete \/ Fetch \/ FetchNothing \/ Persist
  BY <1>1, <1>8 DEF Advance, Tick, Add, Delete, Fetch, FetchNothing, Persist, ghosts
<1>9. CASE SweepLanded \/ SweepLeaves \/ Expire \/ Crash
  BY <1>1, <1>9 DEF SweepLanded, SweepLeaves, Expire, Crash, ghosts
<1>10. CASE UNCHANGED vars
  BY <1>1, <1>10 DEF vars, ghosts
<1> QED BY <1>2, <1>5, <1>6, <1>7, <1>8, <1>9, <1>10 DEF Next, Sweep

(* What the operator last heard keeps up with what the sweep last saw,      *)
(* whatever is held back by the policy: the buckets must have an edge at    *)
(* the fifteen minutes from which a train is late, as the registry's have.  *)
(* With buckets of ten a train 18 minutes late would pass for one of 12.    *)
THEOREM DelayIsTold == EdgeAtLate /\ Spec => []DelayTold
<1> SUFFICES ASSUME EdgeAtLate
             PROVE  Spec => []DelayTold
  OBVIOUS
<1>1. Init => TypeOK /\ LastHeard /\ TellInv
  BY TypeInit, LastInit, TellInit
<1>2. TypeOK /\ LastHeard /\ TellInv /\ [Next]_vars => (TypeOK /\ LastHeard /\ TellInv)'
  BY TypeStep, LastStep, TellStep
<1>3. TypeOK /\ LastHeard /\ TellInv => DelayTold
  BY DEF TellInv
<1> QED BY <1>1, <1>2, <1>3, PTL DEF Spec

-----------------------------------------------------------------------------
(* What is removed as landed.                                               *)

(* A transient watch of a later run may be added days before: its row then  *)
(* lives in a run that is not its own (see the run train's NextRunOnly).    *)
OfTheFirstRun == \A w \in Watches : w.tier = "transient" => w.of = 1

(* The row of a transient watch lives in its run and no longer; an answer   *)
(* is of where the train is or was; and who was told that it arrived was    *)
(* told the truth.                                                          *)
RowOfRun     == Transient /\ row # NoRow => watch.of = run
AnswerPast   == Asked => sweep.answer.stage <= stage
ArrivedThere == told.kind = "arrived" => stage >= 4

ArriveInv == RowOfRun /\ AnswerPast /\ ArrivedThere

LEMMA ArriveInit == Init => ArriveInv
<1>1. NoEvent.kind # "arrived"
  BY DEF NoEvent
<1> QED BY <1>1, NotAsked
        DEF Init, ArriveInv, RowOfRun, AnswerPast, ArrivedThere, Asked, Transient

LEMMA ArriveStep ==
    ASSUME OfTheFirstRun
    PROVE  TypeOK /\ ArriveInv /\ [Next]_vars => ArriveInv'
<1> SUFFICES ASSUME TypeOK, ArriveInv, [Next]_vars
             PROVE  ArriveInv'
  OBVIOUS
<1>1. stage \in 0 .. 5 /\ stage' \in 0 .. 5 /\ run \in 1 .. MaxRuns /\ watch' = watch
  <2>1. TypeOK'
    BY TypeStep
  <2>2. watch' = watch
    BY DEF Next, Sweep, Advance, NextRun, Tick, Add, Delete, Fetch, FetchNothing, Persist,
           Quiet, Suppress, Push, SweepLanded, SweepLeaves, Expire, Crash, vars
  <2> QED BY <2>1, <2>2 DEF TypeOK, NotListed, Stages
<1>2. CASE NextRun
  <2>1. NoEvent.kind # "arrived"
    BY DEF NoEvent
  <2>2. ~Asked' /\ told' = NoEvent /\ row' = row
    BY <1>2, NotAsked DEF NextRun, Asked, world, ghosts
  <2>3. RowOfRun'
    <3>1. Transient' <=> Transient
      BY <1>1 DEF Transient
    <3>2. Transient => row = NoRow
      <4> SUFFICES ASSUME Transient, row # NoRow
                   PROVE  FALSE
        OBVIOUS
      <4>1. watch.of = run
        BY DEF ArriveInv, RowOfRun
      <4> QED BY <1>2, <4>1 DEF NextRun
    <3> QED BY <2>2, <3>1, <3>2 DEF RowOfRun
  <2> QED BY <2>1, <2>2, <2>3 DEF ArriveInv, AnswerPast, ArrivedThere
<1>3. CASE ~NextRun
  <2>1. UNCHANGED run /\ stage' >= stage
    BY <1>1, <1>3 DEF Next, Sweep, Advance, Tick, Add, Delete, Fetch, FetchNothing, Persist,
           Quiet, Suppress, Push, SweepLanded, SweepLeaves, Expire, Crash, vars, world
  <2>2. RowOfRun'
    <3>1. Transient' <=> Transient
      BY <1>1 DEF Transient
    <3>2. CASE Add
      <4>1. watch.of = 1 /\ run <= watch.of
        BY <3>2 DEF Add, Transient, OfTheFirstRun, TypeOK
      <4>2. watch.of = run
        BY <1>1, <4>1
      <4> QED BY <1>1, <2>1, <4>2 DEF RowOfRun
    <3>3. CASE row' # NoRow => row # NoRow
      BY <1>1, <2>1, <3>1, <3>3 DEF ArriveInv, RowOfRun
    <3>4. Add \/ (row' # NoRow => row # NoRow)
      BY <1>3 DEF Next, Sweep, Advance, Tick, Delete, Fetch, FetchNothing, Persist,
             Quiet, Suppress, Push, SweepLanded, SweepLeaves, Expire, Crash, vars, Visible
    <3> QED BY <3>2, <3>3, <3>4
  <2>3. AnswerPast'
    <3>1. CASE Keeps
      <4> SUFFICES ASSUME Asked'
                   PROVE  sweep'.answer.stage <= stage'
        BY DEF AnswerPast
      <4>1. Asked /\ sweep'.answer = sweep.answer /\ sweep.answer.stage <= stage
        BY <3>1 DEF Keeps, ArriveInv, AnswerPast
      <4>2. sweep.answer \in Answers
        BY <4>1, SweepShape DEF TypeOK, Asked
      <4>3. sweep.answer.stage \in 1 .. 5
        BY <4>2, AnswerShape
      <4> QED BY <1>1, <2>1, <4>1, <4>3
    <3>2. CASE Fetch
      <4>1. PICK a \in Feed : sweep' = [pc |-> "persist", last |-> LastOfThisRun, answer |-> a]
        BY <3>2 DEF Fetch
      <4>2. sweep'.answer.stage <= stage
        BY <4>1 DEF Feed
      <4>3. stage' = stage
        BY <3>2 DEF Fetch, world
      <4> QED BY <4>2, <4>3 DEF AnswerPast
    <3>3. CASE Push
      BY <3>3, NotAsked DEF Push, Asked, AnswerPast
    <3> QED BY <1>3, <3>1, <3>2, <3>3, StepsKeep
  <2>4. ArrivedThere'
    <3>1. CASE Push
      <4>1. /\ sweep.pc = "classify" /\ told' = Due /\ stage' = stage /\ Due # Silent
        BY <3>1 DEF Push, Something, world
      <4>2. sweep.answer \in Answers /\ sweep.last \in Events
        BY <4>1, SweepShape DEF TypeOK
      <4>3. sweep.answer.stage \in 1 .. 5 /\ sweep.answer.stage <= stage
        BY <4>1, <4>2, AnswerShape DEF ArriveInv, AnswerPast, Asked
      <4>4. Due.kind = "arrived" => Arrived(sweep.answer)
        BY <1>1, <4>2, SummaryShape DEF Due
      <4>5. Arrived(sweep.answer) => sweep.answer.stage >= 4
        BY DEF Arrived, DestStatus
      <4> QED BY <1>1, <4>1, <4>3, <4>4, <4>5 DEF ArrivedThere
    <3>2. CASE told' = told
      BY <1>1, <2>1, <3>2 DEF ArriveInv, ArrivedThere
    <3>3. Push \/ told' = told
      BY <1>3, StepsKeep DEF Keeps, Fetch, ghosts
    <3> QED BY <3>1, <3>2, <3>3
  <2> QED BY <2>2, <2>3, <2>4 DEF ArriveInv
<1> QED BY <1>2, <1>3

(* A watch the sweep removes as landed is of a train that has arrived, and  *)
(* its operator was told so: the text it goes by is the last push about     *)
(* this run.  For watches of the train's current run.                       *)
THEOREM LandedIsTold == OfTheFirstRun /\ Spec => LandedTold
<1> SUFFICES ASSUME OfTheFirstRun
             PROVE  Spec => LandedTold
  OBVIOUS
<1> DEFINE Landing == row # NoRow /\ row' = NoRow /\ sweep = Landed /\ sweep' # sweep
                      /\ SaidArrived
<1>1. ASSUME TypeOK, LastHeard, ArriveInv, Next, Landing
      PROVE  watch.of = run /\ stage >= 4 /\ told.kind = "arrived"
  <2>1. SweepLanded
    BY <1>1 DEF Next, Sweep, Advance, NextRun, Tick, Add, Delete, Fetch, FetchNothing,
                Persist, Quiet, Suppress, Push, SweepLeaves, Expire, Crash, Landed, Idle,
                Something
  <2>2. Transient /\ row \in Rows /\ row.last \in Events /\ row.last.kind = "arrived"
    BY <1>1, <2>1, RowShape DEF SweepLanded, SaidArrived, TypeOK
  <2>3. watch.of = run /\ run = 1
    BY <1>1, <2>2 DEF ArriveInv, RowOfRun, OfTheFirstRun, TypeOK, Transient
  <2>4. row.last.run \in 1 .. MaxRuns
    BY <2>2, EventShape
  <2>5. row.last.run = run
    BY <1>1, <2>3, <2>4 DEF LastHeard, LastPast
  <2>6. told = row.last
    BY <1>1, <2>5 DEF LastHeard, LastTold
  <2> QED BY <1>1, <2>2, <2>3, <2>6 DEF ArriveInv, ArrivedThere
<1>2. Init => TypeOK /\ LastHeard /\ ArriveInv
  BY TypeInit, LastInit, ArriveInit
<1>3. TypeOK /\ LastHeard /\ ArriveInv /\ [Next]_vars
          => /\ (TypeOK /\ LastHeard /\ ArriveInv)'
             /\ [Landing => watch.of = run /\ stage >= 4 /\ told.kind = "arrived"]_vars
  BY <1>1, TypeStep, LastStep, ArriveStep
<1> QED BY <1>2, <1>3, PTL DEF Spec, LandedTold
=============================================================================
