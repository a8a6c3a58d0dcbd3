------------------------ MODULE PermanentFiles_proofs ------------------------
(***************************************************************************)
(* Theorems about PermanentFiles, for any entries, editions and bounds and  *)
(* with restarts and database errors anywhere.  The two action properties   *)
(* rest on one invariant, LoadIsMeant: while the file is not written during *)
(* a load, what a load holds is what the file's writers mean, and under a   *)
(* hold it is what they meant before the hold was touched, unless the file  *)
(* was written in a round that had looked for the hold before the touch.    *)
(***************************************************************************)
EXTENDS PermanentFiles, TLAPS

USE FilesAssumption

LEMMA NoEdition == NoRow \notin Editions
  BY DEF NoRow

-----------------------------------------------------------------------------
(* Every reachable state is well typed, whoever overlaps with whom.         *)
LEMMA WriteType ==
  ASSUME TypeOK, NEW f \in Files, Write(f)
  PROVE  /\ file' \in Files
         /\ seen' \in {"never", "absent", "current", "old"}
         /\ watcher' \in {Down, Dead, Idle, Due} \cup Reading \cup Stating \cup Applying
         /\ events' \in 0 .. MaxEvents /\ slipped' \in BOOLEAN
<1>1. watcher' \in {Down, Dead, Idle, Due} \cup Reading \cup Stating \cup Applying
  <2>1. CASE watcher.pc = "apply" /\ watcher.mtime = "current"
    <3>1. watcher \in Applying
      BY <2>1 DEF TypeOK, Down, Dead, Idle, Due, Reading, Stating
    <3>2. [watcher EXCEPT !.mtime = "old"] \in Applying
      BY <3>1 DEF Applying
    <3> QED BY <2>1, <3>2 DEF Write
  <2>2. CASE ~(watcher.pc = "apply" /\ watcher.mtime = "current")
    BY <2>2 DEF Write, TypeOK
  <2> QED BY <2>1, <2>2
<1>2. events' \in 0 .. MaxEvents
  BY DEF Write, Event, TypeOK
<1> QED BY <1>1, <1>2 DEF Write, TypeOK

LEMMA ApplyingIs ==
  ASSUME TypeOK, watcher.pc = "apply" PROVE watcher \in Applying
  BY DEF TypeOK, Down, Dead, Idle, Due, Reading, Stating

LEMMA StatingIs ==
  ASSUME TypeOK, watcher.pc = "stat" PROVE watcher \in Stating
  BY DEF TypeOK, Down, Dead, Idle, Due, Reading, Applying

LEMMA ReadingIs ==
  ASSUME TypeOK, watcher.pc = "read" PROVE watcher \in Reading
  BY DEF TypeOK, Down, Dead, Idle, Due, Stating, Applying

LEMMA NotGood == Missing.kind = "missing" /\ Broken.kind = "not JSON" /\ Wrong.kind = "not an object"
  BY DEF Missing, Broken, Wrong

LEMMA GoodHasList ==
  ASSUME TypeOK, Good PROVE file = Text(file.list) /\ file.list \in Lists
<1>1. file # Missing /\ file # Broken /\ file # Wrong
  BY NotGood DEF Good
<1>2. file \in {Text(list) : list \in Lists}
  BY <1>1 DEF TypeOK, Files
<1>3. PICK list \in Lists : file = Text(list)
  BY <1>2
<1> QED BY <1>3 DEF Text

LEMMA MergedType ==
  ASSUME NEW old \in Lists, NEW i \in Ids, NEW e \in Editions
  PROVE  Merged(old, i, e) \in Lists
  BY DEF Merged, Lists

LEMMA InitType == Init => TypeOK
<1> SUFFICES ASSUME Init PROVE TypeOK
  OBVIOUS
<1>1. slipped \in BOOLEAN
  BY Zenon DEF Init
<1> QED BY <1>1 DEF Init, TypeOK, Files, Text, NoRow, Down

LEMMA StepType == TypeOK /\ [Next]_vars => TypeOK'
<1> SUFFICES ASSUME TypeOK, [Next]_vars PROVE TypeOK'
  OBVIOUS
<1>1. CASE Edit
  <2>1. PICK list \in Lists : Write(Text(list)) /\ meant' = list
    BY <1>1 DEF Edit
  <2>2. Text(list) \in Files
    BY DEF Files
  <2> QED BY <1>1, <2>1, <2>2, WriteType DEF Edit, TypeOK
<1>2. CASE Spoil
  <2>1. PICK f \in {Missing, Broken, Wrong} : Write(f)
    BY <1>2 DEF Spoil
  <2>2. f \in Files
    BY DEF Files
  <2> QED BY <1>2, <2>1, <2>2, WriteType DEF Spoil, TypeOK
<1>3. CASE Merge
  <2> DEFINE old == IF Good THEN file.list ELSE Empty
  <2>1. PICK i \in Ids, e \in Editions :
           Write(Text(Merged(old, i, e))) /\ meant' = Merged(meant, i, e)
    BY <1>3 DEF Merge
  <2>2. old \in Lists
    BY GoodHasList DEF Empty, Lists
  <2>3. Merged(old, i, e) \in Lists /\ meant' \in Lists
    BY <2>1, <2>2, MergedType DEF TypeOK
  <2>4. Text(Merged(old, i, e)) \in Files
    BY <2>3 DEF Files
  <2> HIDE DEF old
  <2> QED BY <1>3, <2>1, <2>3, <2>4, WriteType DEF Merge, TypeOK
<1>4. CASE ApiDelete
  BY <1>4 DEF ApiDelete, Event, TypeOK
<1>5. CASE Touch
  <2>1. slipped' \in BOOLEAN
    BY <1>5, Zenon DEF Touch
  <2> QED BY <1>5, <2>1 DEF Touch, Event, TypeOK
<1>6. CASE Release \/ Age
  BY <1>6 DEF Release, Age, TypeOK, ghosts
<1>7. CASE Start
  BY <1>7 DEF Start, TypeOK, ghosts, Reading
<1>8. CASE Look \/ Check
  <2>1. watcher' \in {Idle, Due} \cup Reading
    <3>1. [pc |-> "read", startup |-> FALSE] \in Reading
      BY DEF Reading
    <3>2. watcher' \in {Idle, Due, [pc |-> "read", startup |-> FALSE]}
      BY <1>8, Zenon DEF Look, Check
    <3> QED BY <3>1, <3>2
  <2>2. UNCHANGED <<file, hold, rows, seen, loaded, events, ghosts>>
    BY <1>8 DEF Look, Check
  <2> QED BY <2>1, <2>2 DEF TypeOK, ghosts
<1>9. CASE ReadMissing \/ ReadBroken \/ ReadWrong
  BY <1>9 DEF ReadMissing, ReadBroken, ReadWrong, LoadRaises, TypeOK, ghosts
<1>10. CASE ReadList
  BY <1>10, ReadingIs, GoodHasList DEF ReadList, TypeOK, ghosts, Reading, Stating
<1>11. CASE Stat
  <2>1. watcher \in Stating
    BY <1>11, StatingIs DEF Stat
  <2>2. On(watcher.list) \subseteq Ids
    BY DEF On
  <2>3. watcher' \in Applying
    BY <1>11, <2>1, <2>2 DEF Stat, Stating, Applying, TypeOK
  <2> QED BY <1>11, <2>3 DEF Stat, TypeOK, ghosts
<1>12. CASE Upsert
  <2>1. watcher \in Applying
    BY <1>12, ApplyingIs DEF Upsert
  <2>2. PICK i \in watcher.puts : /\ rows' = [rows EXCEPT ![i] = watcher.list[i]]
                                  /\ watcher' = [watcher EXCEPT !.puts = @ \ {i}]
                                  /\ withdrawn' = withdrawn \ {i}
    BY <1>12 DEF Upsert
  <2>3. watcher' \in Applying /\ watcher.list[i] \in Editions \cup {NoRow}
    BY <2>1, <2>2 DEF Applying, Lists
  <2> QED BY <1>12, <2>2, <2>3 DEF Upsert, TypeOK
<1>13. CASE Drop
  <2>1. watcher \in Applying
    BY <1>13, ApplyingIs DEF Drop
  <2>2. PICK i \in watcher.drops : /\ rows' = [rows EXCEPT ![i] = NoRow]
                                   /\ watcher' = [watcher EXCEPT !.drops = @ \ {i}]
    BY <1>13 DEF Drop
  <2>3. watcher' \in Applying
    BY <2>1, <2>2 DEF Applying
  <2> QED BY <1>13, <2>2, <2>3 DEF Drop, TypeOK, ghosts
<1>14. CASE Record
  BY <1>14, ApplyingIs DEF Record, TypeOK, ghosts, Applying, On
<1>15. CASE DbError \/ Crash
  BY <1>15 DEF DbError, LoadRaises, Crash, Event, TypeOK, ghosts
<1>16. CASE UNCHANGED vars
  BY <1>16 DEF vars, ghosts, TypeOK
<1> QED BY <1>1, <1>2, <1>3, <1>4, <1>5, <1>6, <1>7, <1>8, <1>9, <1>10, <1>11, <1>12,
           <1>13, <1>14, <1>15, <1>16 DEF Next, Watch

(* The file, the rows and the watcher are well typed, overlapping or not.   *)
THEOREM TypeCorrect == Spec => []TypeOK
<1> QED BY InitType, StepType, PTL DEF Spec

-----------------------------------------------------------------------------
(* What a load holds, while the file is not written during a load and is    *)
(* not merged into when it cannot be read; under a hold it is what was      *)
(* there before, unless the round had slipped past.                         *)
UnderHold == hold = "held" /\ (watcher = Due \/ (Loading /\ ~watcher.startup))

LoadIsMeant ==
    /\ Good => file.list = meant
    /\ watcher.pc \in {"stat", "apply"} => watcher.list = meant
    /\ watcher.pc = "apply" => watcher.drops \cap On(meant) = {} /\ watcher.puts \subseteq On(meant)
    /\ UnderHold => meant = before \/ slipped

Settled == ~Overlap /\ "merge_broken" \notin Faults

LEMMA InitMeant == Init => LoadIsMeant
  BY DEF Init, LoadIsMeant, Text, Good, Down, Due, UnderHold, Loading

(* A write falls between two loads, so that nothing is held from before it. *)
LEMMA WriteMeant ==
  ASSUME TypeOK, ~Overlap, NEW f \in Files, Write(f)
  PROVE  ~Loading /\ watcher' = watcher /\ ~Loading' /\ (hold = "held" /\ watcher = Due => slipped')
<1>1. ~Loading
  BY DEF Write
<1>2. watcher' = watcher
  BY <1>1 DEF Write, Loading
<1> QED BY <1>1, <1>2 DEF Loading, Write

LEMMA StepMeant ==
  ASSUME Settled, TypeOK, LoadIsMeant, [Next]_vars
  PROVE  LoadIsMeant'
<1> USE DEF Settled
<1>1. CASE Edit
  <2>1. PICK list \in Lists : Write(Text(list)) /\ meant' = list
    BY <1>1 DEF Edit
  <2>2. Text(list) \in Files
    BY DEF Files
  <2>3. ~Loading' /\ file' = Text(list) /\ (UnderHold' => slipped')
    BY <1>1, <2>1, <2>2, WriteMeant DEF Write, Edit, UnderHold
  <2> QED BY <2>1, <2>3 DEF LoadIsMeant, Loading, Text, Good
<1>2. CASE Spoil
  <2>1. PICK f \in {Missing, Broken, Wrong} : Write(f)
    BY <1>2 DEF Spoil
  <2>2. f \in Files
    BY DEF Files
  <2>3. ~Loading' /\ file' = f /\ (UnderHold' => slipped')
    BY <1>2, <2>1, <2>2, WriteMeant DEF Write, Spoil, UnderHold
  <2>4. file'.kind # "JSON"
    BY <2>3, NotGood
  <2> QED BY <2>3, <2>4 DEF LoadIsMeant, Loading, Good
<1>3. CASE Merge
  <2>1. Good /\ file.list = meant
    BY <1>3 DEF Merge, LoadIsMeant
  <2>2. PICK i \in Ids, e \in Editions :
           Write(Text(Merged(meant, i, e))) /\ meant' = Merged(meant, i, e)
    BY <1>3, <2>1 DEF Merge
  <2>3. Text(Merged(meant, i, e)) \in Files
    BY MergedType DEF Files, TypeOK
  <2>4. ~Loading' /\ file' = Text(meant') /\ (UnderHold' => slipped')
    BY <1>3, <2>2, <2>3, WriteMeant DEF Write, Merge, UnderHold
  <2> QED BY <2>4 DEF LoadIsMeant, Loading, Text, Good
<1>4. CASE ApiDelete
  BY <1>4 DEF ApiDelete, LoadIsMeant, Loading, UnderHold, Good
<1>5. CASE Touch
  BY <1>5 DEF Touch, LoadIsMeant, Loading, UnderHold, Good
<1>6. CASE Release \/ Age
  BY <1>6 DEF Release, Age, LoadIsMeant, Loading, UnderHold, Good, ghosts
<1>7. CASE Start
  BY <1>7 DEF Start, LoadIsMeant, Loading, UnderHold, Good, Due, ghosts
<1>8. CASE Look \/ Check
  BY <1>8 DEF Look, Check, LoadIsMeant, Loading, UnderHold, Good, Idle, Due, ghosts
<1>9. CASE ReadMissing \/ ReadBroken \/ ReadWrong
  BY <1>9 DEF ReadMissing, ReadBroken, ReadWrong, LoadRaises, LoadIsMeant, Loading, UnderHold, Good,
              Idle, Due, Down, Dead, ghosts
<1>10. CASE ReadList
  BY <1>10 DEF ReadList, LoadIsMeant, Loading, UnderHold, Good, Due, ghosts
<1>11. CASE Stat
  BY <1>11 DEF Stat, LoadIsMeant, Loading, UnderHold, Good, Due, ghosts
<1>12. CASE Upsert
  <2>1. watcher \in Applying
    BY <1>12, ApplyingIs DEF Upsert
  <2>2. PICK i \in watcher.puts : watcher' = [watcher EXCEPT !.puts = @ \ {i}]
    BY <1>12 DEF Upsert
  <2>3. /\ watcher'.pc = watcher.pc /\ watcher'.startup = watcher.startup
        /\ watcher'.list = watcher.list /\ watcher'.drops = watcher.drops
        /\ watcher'.puts \subseteq watcher.puts
    BY <2>1, <2>2 DEF Applying
  <2> QED BY <1>12, <2>3 DEF Upsert, LoadIsMeant, Loading, UnderHold, Good, Due, On
<1>13. CASE Drop
  <2>1. watcher \in Applying
    BY <1>13, ApplyingIs DEF Drop
  <2>2. PICK i \in watcher.drops : watcher' = [watcher EXCEPT !.drops = @ \ {i}]
    BY <1>13 DEF Drop
  <2>3. /\ watcher'.pc = watcher.pc /\ watcher'.startup = watcher.startup
        /\ watcher'.list = watcher.list /\ watcher'.puts = watcher.puts
        /\ watcher'.drops \subseteq watcher.drops
    BY <2>1, <2>2 DEF Applying
  <2> QED BY <1>13, <2>3 DEF Drop, LoadIsMeant, Loading, UnderHold, Good, Due, On, ghosts
<1>14. CASE Record
  BY <1>14 DEF Record, LoadIsMeant, Loading, UnderHold, Good, Idle, Due, ghosts
<1>15. CASE DbError \/ Crash
  BY <1>15 DEF DbError, LoadRaises, Crash, LoadIsMeant, Loading, UnderHold, Good, Down, Dead, Due, ghosts
<1>16. CASE UNCHANGED vars
  BY <1>16 DEF vars, ghosts, LoadIsMeant, Loading, UnderHold, Good, On
<1> QED BY <1>1, <1>2, <1>3, <1>4, <1>5, <1>6, <1>7, <1>8, <1>9, <1>10, <1>11, <1>12,
           <1>13, <1>14, <1>15, <1>16 DEF Next, Watch

LEMMA AlwaysMeant == Settled /\ Spec => [](TypeOK /\ LoadIsMeant)
<1>1. Settled /\ Init => TypeOK /\ LoadIsMeant
  BY InitType, InitMeant
<1>2. Settled /\ TypeOK /\ LoadIsMeant /\ [Next]_vars => (TypeOK /\ LoadIsMeant)'
  BY StepType, StepMeant
<1>3. Settled => []Settled
  <2>1. Settled => Settled'
    BY DEF Settled
  <2> QED BY <2>1, PTL
<1> QED BY <1>1, <1>2, <1>3, PTL DEF Spec

(* The rows change in three ways only: the API takes one out, a load writes *)
(* one it found, a load takes out one it did not find.                      *)
LEMMA RowChanges ==
  ASSUME TypeOK, Next, rows' # rows
  PROVE  \/ ApiDelete /\ watcher' = watcher
         \/ /\ watcher \in Applying
            /\ \/ \E i \in watcher.puts : rows' = [rows EXCEPT ![i] = watcher.list[i]]
               \/ \E i \in watcher.drops : rows' = [rows EXCEPT ![i] = NoRow]
<1>1. ApiDelete \/ Upsert \/ Drop
  BY DEF Next, Watch, Edit, Spoil, Merge, Touch, Release, Age, Start, Look, Check, ReadMissing,
         ReadBroken, ReadWrong, ReadList, Stat, Record, DbError, Crash
<1>2. CASE ApiDelete
  BY <1>2 DEF ApiDelete
<1>3. CASE Upsert
  BY <1>3, ApplyingIs DEF Upsert
<1>4. CASE Drop
  BY <1>4, ApplyingIs DEF Drop
<1> QED BY <1>1, <1>2, <1>3, <1>4

(* Without overlapping writes and without merges into an unreadable file,   *)
(* the watcher never deletes the row of an entry that is meant to be there, *)
(* through restarts, missing and broken files and database errors.          *)
THEOREM RowsKept == Settled /\ Spec => OnlyDroppedLeave
<1> DEFINE Step == \A i \in Ids :
              (watcher' # watcher /\ rows[i] # NoRow /\ rows'[i] = NoRow) => i \notin On(meant)
<1>1. ASSUME TypeOK, LoadIsMeant, [Next]_vars PROVE [Step]_vars
  <2> SUFFICES ASSUME Next, NEW i \in Ids,
                      watcher' # watcher, rows[i] # NoRow, rows'[i] = NoRow
               PROVE  i \notin On(meant)
    BY <1>1
  <2>1. watcher.pc = "apply" /\ watcher \in Applying
    BY <1>1, RowChanges DEF Applying
  <2>2. ASSUME NEW j \in watcher.puts, rows' = [rows EXCEPT ![j] = watcher.list[j]]
        PROVE  FALSE
    <3>1. i = j
      BY <1>1, <2>2 DEF TypeOK
    <3>2. j \in On(meant) /\ watcher.list = meant
      BY <1>1, <2>1, <2>2 DEF LoadIsMeant
    <3>3. rows'[j] = meant[j]
      BY <1>1, <2>2, <3>1, <3>2 DEF TypeOK
    <3> QED BY <3>1, <3>2, <3>3 DEF On
  <2>3. ASSUME NEW j \in watcher.drops, rows' = [rows EXCEPT ![j] = NoRow]
        PROVE  i \notin On(meant)
    <3>1. i = j
      BY <1>1, <2>3 DEF TypeOK
    <3> QED BY <1>1, <2>1, <2>3, <3>1 DEF LoadIsMeant
  <2> QED BY <1>1, <2>2, <2>3, RowChanges
<1>2. TypeOK /\ LoadIsMeant /\ [Next]_vars => [Step]_vars
  BY <1>1
<1> QED BY <1>2, AlwaysMeant, PTL DEF Spec, OnlyDroppedLeave

(* Under the same condition, while a hold is on, a periodic load writes     *)
(* only what the file said before the hold was touched: no change made      *)
(* under the hold gets into the rows but by a start or by the one round     *)
(* that had looked before the touch and comes to the file after the write.  *)
THEOREM HoldHolds == Settled /\ Spec => HeldChangesWait
<1> DEFINE Step == \A i \in Ids : GoesLive(i) => slipped
<1>1. ASSUME TypeOK, LoadIsMeant, [Next]_vars PROVE [Step]_vars
  <2> SUFFICES ASSUME Next, NEW i \in Ids,
                      hold = "held", watcher.pc = "apply", ~watcher.startup,
                      watcher' # watcher, rows'[i] # rows[i], ~slipped
               PROVE  rows'[i] = before[i]
    BY <1>1 DEF GoesLive
  <2>1. watcher.list = meant /\ meant = before /\ watcher \in Applying
    BY <1>1, ApplyingIs DEF LoadIsMeant, UnderHold, Loading
  <2>2. ASSUME NEW j \in watcher.puts, rows' = [rows EXCEPT ![j] = watcher.list[j]]
        PROVE  rows'[i] = before[i]
    BY <1>1, <2>1, <2>2 DEF TypeOK
  <2>3. ASSUME NEW j \in watcher.drops, rows' = [rows EXCEPT ![j] = NoRow]
        PROVE  rows'[i] = before[i]
    <3>1. i = j /\ rows'[i] = NoRow
      BY <1>1, <2>3 DEF TypeOK
    <3>2. i \notin On(meant)
      BY <1>1, <2>3, <3>1 DEF LoadIsMeant
    <3> QED BY <2>1, <3>1, <3>2 DEF On
  <2> QED BY <1>1, <2>2, <2>3, RowChanges
<1>2. TypeOK /\ LoadIsMeant /\ [Next]_vars => [Step]_vars
  BY <1>1
<1> QED BY <1>2, AlwaysMeant, PTL DEF Spec, HeldChangesWait
=============================================================================
