--------------------------- MODULE LlmLanes_proofs ---------------------------
(* Theorems about LlmLanes, for any processes and any waits.  The inductive *)
(* invariant is TypeOK /\ LocksHeld; the exclusions follow from it state by *)
(* state, since a lock has one holder.                                      *)
EXTENDS LlmLanes, TLAPS

USE LanesAssumption

-----------------------------------------------------------------------------
(* Every reachable state is well typed, whoever overlaps with whom.         *)
THEOREM TypeCorrect == Spec => []TypeOK
<1>1. Init => TypeOK
  BY DEF Init, TypeOK, Procs, Scheduled
<1>2. TypeOK /\ [Next]_vars => TypeOK'
  <2> SUFFICES ASSUME TypeOK, [Next]_vars PROVE TypeOK'
    OBVIOUS
  <2> USE DEF TypeOK, Procs, Scheduled, Trying, Active
  <2>1. ASSUME NEW b \in Briefs, StartBrief(b) PROVE TypeOK'
    BY <2>1 DEF StartBrief
  <2>2. ASSUME NEW b \in Briefs, waited[b] < LongFirst \/ pc[b] = "hot", NextRound(b) PROVE TypeOK'
    BY <2>2 DEF NextRound
  <2>3. ASSUME NEW b \in Briefs, TryLong(b) PROVE TypeOK'
    <3>1. CASE RunLong(b)
      BY <3>1 DEF RunLong
    <3>2. CASE pc' = [pc EXCEPT ![b] = "hot"] /\ UNCHANGED <<unit, hot, long, waited, lane, said>>
      BY <3>2
    <3>3. CASE waited[b] < LongFirst /\ NextRound(b)
      BY <3>3, <2>2
    <3> QED BY <2>3, <3>1, <3>2, <3>3 DEF TryLong
  <2>4. ASSUME NEW b \in Briefs, TryHot(b) PROVE TypeOK'
    <3>1. CASE RunHot(b)
      BY <3>1 DEF RunHot
    <3>2. CASE NextRound(b)
      BY <3>2, <2>4, <2>2 DEF TryHot
    <3> QED BY <2>4, <3>1, <3>2 DEF TryHot
  <2>5. ASSUME NEW p \in Units \cup Scripts, StartFlock(p) \/ TakeUnit(p) PROVE TypeOK'
    BY <2>5 DEF StartFlock, TakeUnit
  <2>6. ASSUME NEW k \in Skills, StartSkill(k) PROVE TypeOK'
    BY <2>6 DEF StartSkill
  <2>7. ASSUME NEW p \in Procs, Generate(p) \/ Post(p) PROVE TypeOK'
    BY <2>7 DEF Generate, Post
  <2>8. ASSUME NEW p \in Procs, Answered(p) \/ End(p) PROVE TypeOK'
    BY <2>8 DEF Answered, End, Freed
  <2>9. CASE UNCHANGED vars
    BY <2>9 DEF vars
  <2> QED BY <2>1, <2>3, <2>4, <2>5, <2>6, <2>7, <2>8, <2>9 DEF Next
<1> QED BY <1>1, <1>2, PTL DEF Spec

-----------------------------------------------------------------------------
(* LocksHeld, process by process: what p's own state says of the locks.     *)
HeldBy(p) ==
    /\ unit = p <=> HoldsUnit(p)
    /\ hot = p <=> Promoted(p)
    /\ long = p <=> LongRunner(p) /\ p \notin Scripts
    /\ p \notin Briefs => lane[p] = "unset" /\ pc[p] \notin Trying
    /\ p \in Scripts => pc[p] \in {"off", "flock", "posting"}
    /\ p \in Briefs \cup Skills => pc[p] # "flock"
    /\ pc[p] = "queue" => lane[p] = "unset"

LEMMA HeldByAll == LocksHeld <=> \A p \in Procs : HeldBy(p)
  BY DEF LocksHeld, HeldBy, Procs, Scheduled

(* A step of p that leaves each lock alone or moves it between p and        *)
(* nobody, and p's own state in order, leaves everybody's in order.         *)
LEMMA OnlyActor ==
    ASSUME TypeOK, LocksHeld, NEW p \in Procs, HeldBy(p)',
           NEW s, pc' = [pc EXCEPT ![p] = s],
           lane' = lane \/ \E l \in {"hot", "unset"} : lane' = [lane EXCEPT ![p] = l],
           unit' = unit \/ (unit \in {p, Nobody} /\ unit' \in {p, Nobody}),
           hot' = hot \/ (hot \in {p, Nobody} /\ hot' \in {p, Nobody}),
           long' = long \/ (long \in {p, Nobody} /\ long' \in {p, Nobody})
    PROVE  LocksHeld'
<1>1. ASSUME NEW q \in Procs PROVE HeldBy(q)'
  <2>1. CASE q = p
    BY <2>1
  <2>2. CASE q # p
    <3>1. pc'[q] = pc[q] /\ lane'[q] = lane[q]
      BY <2>2 DEF TypeOK
    <3>2. /\ unit' = q <=> unit = q
          /\ hot' = q <=> hot = q
          /\ long' = q <=> long = q
      BY <2>2
    <3>3. HeldBy(q)
      BY HeldByAll
    <3> QED BY <3>1, <3>2, <3>3 DEF HeldBy, HoldsUnit, Promoted, LongRunner
  <2> QED BY <2>1, <2>2
<1> QED BY <1>1 DEF LocksHeld, HeldBy, Procs, Scheduled

LEMMA LocksHeldStep == TypeOK /\ LocksHeld /\ [Next]_vars => LocksHeld'
<1> SUFFICES ASSUME TypeOK, LocksHeld, [Next]_vars PROVE LocksHeld'
  OBVIOUS
<1>0. \A p \in Procs : HeldBy(p)
  BY HeldByAll
<1>b. \A b \in Briefs : b \in Procs /\ b \notin Units \cup Scripts \cup Skills
  BY DEF Procs, Scheduled
<1> USE DEF Trying, Active
<1>1. ASSUME NEW b \in Briefs, StartBrief(b) PROVE LocksHeld'
  <2>1. HeldBy(b)'
    BY <1>0, <1>1, <1>b DEF StartBrief, TypeOK, HeldBy, HoldsUnit, Promoted, LongRunner
  <2> QED BY <1>1, <1>b, <2>1, OnlyActor DEF StartBrief
<1>2. ASSUME NEW b \in Briefs, pc[b] \in Trying, unit = Nobody, RunLong(b) PROVE LocksHeld'
  <2>1. HeldBy(b)'
    BY <1>0, <1>2, <1>b DEF RunLong, TypeOK, HeldBy, HoldsUnit, Promoted, LongRunner
  <2> QED BY <1>2, <1>b, <2>1, OnlyActor DEF RunLong
<1>3. ASSUME NEW b \in Briefs, pc[b] \in Trying, hot = Nobody, RunHot(b) PROVE LocksHeld'
  <2>1. HeldBy(b)'
    BY <1>0, <1>3, <1>b DEF RunHot, TypeOK, HeldBy, HoldsUnit, Promoted, LongRunner
  <2> QED BY <1>3, <1>b, <2>1, OnlyActor DEF RunHot
<1>4. ASSUME NEW b \in Briefs, pc[b] \in Trying, NEW s \in Trying \cup {"off"},
             pc' = [pc EXCEPT ![b] = s], UNCHANGED <<unit, hot, long, lane>>
      PROVE  LocksHeld'
  <2>1. HeldBy(b)'
    BY <1>0, <1>4, <1>b DEF TypeOK, HeldBy, HoldsUnit, Promoted, LongRunner
  <2> QED BY <1>4, <1>b, <2>1, OnlyActor
<1>5. ASSUME NEW b \in Briefs, pc[b] \in Trying, NextRound(b) PROVE LocksHeld'
  BY <1>5, <1>4 DEF NextRound
<1>6. ASSUME NEW b \in Briefs, TryLong(b) PROVE LocksHeld'
  BY <1>6, <1>2, <1>4, <1>5 DEF TryLong
<1>7. ASSUME NEW b \in Briefs, TryHot(b) PROVE LocksHeld'
  BY <1>7, <1>3, <1>5 DEF TryHot
<1>8. ASSUME NEW p \in Units \cup Scripts, StartFlock(p) PROVE LocksHeld'
  <2>1. p \in Procs /\ HeldBy(p)'
    BY <1>0, <1>8 DEF StartFlock, TypeOK, HeldBy, HoldsUnit, Promoted, LongRunner, Procs, Scheduled
  <2> QED BY <1>8, <2>1, OnlyActor DEF StartFlock
<1>9. ASSUME NEW p \in Units \cup Scripts, TakeUnit(p) PROVE LocksHeld'
  <2>1. p \in Procs /\ HeldBy(p)'
    BY <1>0, <1>9 DEF TakeUnit, TypeOK, HeldBy, HoldsUnit, Promoted, LongRunner, Procs, Scheduled
  <2> QED BY <1>9, <2>1, OnlyActor DEF TakeUnit
<1>10. ASSUME NEW k \in Skills, StartSkill(k) PROVE LocksHeld'
  <2>1. k \in Procs /\ HeldBy(k)'
    BY <1>0, <1>10 DEF StartSkill, TypeOK, HeldBy, HoldsUnit, Promoted, LongRunner, Procs, Scheduled
  <2> QED BY <1>10, <2>1, OnlyActor DEF StartSkill
<1>11. ASSUME NEW p \in Procs, Generate(p) PROVE LocksHeld'
  <2>1. HeldBy(p)'
    BY <1>0, <1>11 DEF Generate, TypeOK, HeldBy, HoldsUnit, Promoted, LongRunner
  <2> QED BY <1>11, <2>1, OnlyActor DEF Generate
<1>12. ASSUME NEW p \in Procs, Post(p) PROVE LocksHeld'
  <2>1. HeldBy(p)'
    BY <1>0, <1>12 DEF Post, TypeOK, HeldBy, HoldsUnit, Promoted, LongRunner
  <2> QED BY <1>12, <2>1, OnlyActor DEF Post
<1>13. ASSUME NEW p \in Procs, Answered(p) PROVE LocksHeld'
  <2>1. HeldBy(p)'
    BY <1>0, <1>13 DEF Answered, Freed, TypeOK, HeldBy, HoldsUnit, Promoted, LongRunner, Procs, Scheduled
  <2> QED BY <1>13, <2>1, OnlyActor DEF Answered, Freed
<1>14. ASSUME NEW p \in Procs, End(p) PROVE LocksHeld'
  <2>1. HeldBy(p)'
    BY <1>0, <1>14 DEF End, Freed, TypeOK, HeldBy, HoldsUnit, Promoted, LongRunner
  <2> QED BY <1>14, <2>1, OnlyActor DEF End, Freed
<1>15. CASE UNCHANGED vars
  BY <1>15 DEF vars, LocksHeld, HoldsUnit, Promoted, LongRunner
<1> QED
  BY <1>1, <1>6, <1>7, <1>8, <1>9, <1>10, <1>11, <1>12, <1>13, <1>14, <1>15 DEF Next

(* The locks are held by those the code thinks hold them, in every          *)
(* interleaving of starts, waits, requests, failures and kills.             *)
THEOREM LocksAreHeld == Spec => [](TypeOK /\ LocksHeld)
<1>1. Init => LocksHeld
  BY DEF Init, LocksHeld, HoldsUnit, Promoted, LongRunner, Active, Trying, Procs, Scheduled
<1> QED BY <1>1, TypeCorrect, LocksHeldStep, PTL DEF Spec

-----------------------------------------------------------------------------
(* At most one promoted brief has a request in flight.                      *)
THEOREM OneIsPromoted == Spec => []OnePromoted
<1>1. TypeOK /\ LocksHeld => OnePromoted
  BY DEF TypeOK, LocksHeld, OnePromoted, Promoted, Active
<1> QED BY <1>1, LocksAreHeld, PTL

LEMMA HeldExcludes == TypeOK /\ LocksHeld => LongRunnersExclude
<1> SUFFICES ASSUME TypeOK, LocksHeld, NEW p \in Procs, NEW q \in Procs,
                    LongRunner(p), LongRunner(q), p # q
             PROVE  \/ p \in Scripts /\ q \in Skills
                    \/ p \in Skills /\ q \in Scripts
  BY DEF LongRunnersExclude
<1>1. p \in Scripts \/ q \in Scripts
  BY DEF LocksHeld
<1>2. ASSUME NEW r \in Procs, LongRunner(r), r \notin Skills PROVE unit = r
  BY <1>2 DEF LocksHeld, HoldsUnit, LongRunner, Active, Procs, Scheduled
<1> QED BY <1>1, <1>2

(* Two reports, briefs or skills never have a request in flight together;   *)
(* only a script and a skill may.                                           *)
THEOREM LongRunnersExcluded == Spec => []LongRunnersExclude
BY HeldExcludes, LocksAreHeld, PTL

(* The rule as it is written holds wherever local-llm-synthesize.sh and the *)
(* poller's skills do not both run.                                         *)
THEOREM NeverTwo ==
    ASSUME Scripts = {} \/ Skills = {}
    PROVE  Spec => []OneLongRunner
<1>1. LongRunnersExclude => OneLongRunner
  BY DEF LongRunnersExclude, OneLongRunner
<1> QED BY <1>1, LongRunnersExcluded, PTL

(* With a budget no shorter than the wait for the long lane (as in every    *)
(* unit file), a brief gives up only behind another, promoted brief.        *)
THEOREM ReportsCostNoBrief ==
    ASSUME LongFirst <= Budget
    PROVE  Spec => SkippedBehindABrief
<1>1. ASSUME TypeOK, LocksHeld, [Next]_vars, NEW b \in Briefs, said[b] # "none", said'[b] = "none"
      PROVE  \E c \in Briefs \ {b} : Promoted(c)
  <2>1. ASSUME NEW c \in Briefs, TryLong(c) PROVE said'[b] # "none"
    <3>1. waited[c] < LongFirst => waited[c] < Budget
      BY <1>1 DEF TypeOK
    <3>2. CASE RunLong(c)
      BY <3>2, <1>1 DEF RunLong, TypeOK
    <3>3. CASE UNCHANGED said
      BY <3>3, <1>1
    <3>4. CASE waited[c] < LongFirst /\ NextRound(c)
      BY <3>1, <3>4, <1>1 DEF NextRound, TypeOK
    <3> QED BY <2>1, <3>2, <3>3, <3>4 DEF TryLong
  <2>2. ASSUME NEW c \in Briefs, TryHot(c) PROVE c = b /\ hot # Nobody /\ pc[b] = "hot"
    BY <2>2, <1>1 DEF TryHot, RunHot, NextRound, TypeOK
  <2>3. ASSUME NEW c \in Briefs, StartBrief(c) PROVE said'[b] # "none"
    BY <2>3, <1>1 DEF StartBrief, TypeOK
  <2>4. PICK c \in Briefs : TryHot(c)
    BY <1>1, <2>1, <2>3 DEF Next, vars, StartFlock, TakeUnit, StartSkill, Generate, Post, Answered, End
  <2>5. hot \in Briefs /\ Promoted(hot)
    BY <2>2, <2>4, <1>1 DEF TypeOK, LocksHeld, Procs, Scheduled
  <2>6. hot # b
    BY <2>2, <2>4, <2>5 DEF Promoted, Active
  <2> QED BY <2>5, <2>6
<1>2. TypeOK /\ LocksHeld /\ [Next]_vars
        => [\A b \in Briefs : said[b] # "none" /\ said'[b] = "none"
                => \E c \in Briefs \ {b} : Promoted(c)]_vars
  BY <1>1
<1> QED BY <1>2, LocksAreHeld, PTL DEF Spec, SkippedBehindABrief
=============================================================================
