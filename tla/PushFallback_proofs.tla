------------------------- MODULE PushFallback_proofs -------------------------
(***************************************************************************)
(* Proofs about PushFallback for every interval, window, budget, grace and  *)
(* number of stamps and faults.  The arguments are about ages: how old the  *)
(* stamps in the pool are, how far the feed's row lags behind the session,  *)
(* and how long the poller has yet to wait.                                 *)
(***************************************************************************)
EXTENDS PushFallback, SequenceTheorems, TLAPS

(* r is what is left of s, a sequence over S, without its i-th element.      *)
LeftOf(S, s, i, r) ==
    /\ r = SubSeq(s, 1, i - 1) \o SubSeq(s, i + 1, Len(s))
    /\ r \in Seq(S) /\ Len(r) = Len(s) - 1
    /\ \A k \in 1 .. Len(r) : \E j \in 1 .. Len(s) : r[k] = s[j]

LEMMA WithoutOne ==
    ASSUME NEW S, NEW s \in Seq(S), NEW i \in 1 .. Len(s)
    PROVE  \E r : LeftOf(S, s, i, r)
<1>0. PICK r : r = SubSeq(s, 1, i - 1) \o SubSeq(s, i + 1, Len(s))
  OBVIOUS
<1>1. Len(s) \in Nat /\ \A k \in 1 .. Len(s) : s[k] \in S
  BY ElementOfSeq, LenProperties
<1>2. PICK n \in Nat : n = Len(s)
  BY <1>1
<1>3. PICK u : u = SubSeq(s, 1, i - 1)
  OBVIOUS
<1>4. PICK v : v = SubSeq(s, i + 1, n)
  OBVIOUS
<1>5. u \in Seq(S) /\ Len(u) = i - 1 /\ \A k \in 1 .. i - 1 : u[k] = s[k]
  <2>1. 1 \in Int /\ i - 1 \in Int /\ \A k \in 1 .. i - 1 : s[k] \in S
    BY <1>1
  <2>2. /\ u \in Seq(S)
        /\ Len(u) = IF 1 <= i - 1 THEN (i - 1) - 1 + 1 ELSE 0
        /\ \A k \in 1 .. (i - 1) - 1 + 1 : u[k] = s[1 + k - 1]
    BY ONLY <1>3, <2>1, SubSeqProperties
  <2>3. /\ (i - 1) - 1 + 1 = i - 1 /\ (IF 1 <= i - 1 THEN i - 1 ELSE 0) = i - 1
        /\ \A k \in 1 .. i - 1 : 1 + k - 1 = k
    BY <1>1
  <2> QED BY ONLY <2>2, <2>3
<1>6. v \in Seq(S) /\ Len(v) = n - i /\ \A k \in 1 .. n - i : v[k] = s[k + i]
  <2>1. i + 1 \in Int /\ n \in Int /\ \A k \in i + 1 .. n : s[k] \in S
    BY <1>1, <1>2
  <2>2. /\ v \in Seq(S)
        /\ Len(v) = IF i + 1 <= n THEN n - (i + 1) + 1 ELSE 0
        /\ \A k \in 1 .. n - (i + 1) + 1 : v[k] = s[i + 1 + k - 1]
    BY ONLY <1>4, <2>1, SubSeqProperties
  <2>3. /\ n - (i + 1) + 1 = n - i /\ (IF i + 1 <= n THEN n - i ELSE 0) = n - i
        /\ \A k \in 1 .. n - i : i + 1 + k - 1 = k + i
    BY <1>1, <1>2
  <2> QED BY ONLY <2>2, <2>3
<1>7. /\ r \in Seq(S) /\ Len(r) = Len(u) + Len(v)
      /\ \A k \in 1 .. Len(u) + Len(v) : r[k] = IF k <= Len(u) THEN u[k] ELSE v[k - Len(u)]
  <2>1. r = u \o v
    BY <1>0, <1>2, <1>3, <1>4
  <2> QED BY ONLY <1>5, <1>6, <2>1, ConcatProperties
<1>8. Len(r) = n - 1
  <2>1. Len(r) = (i - 1) + (n - i)
    BY ONLY <1>5, <1>6, <1>7
  <2> QED BY ONLY <1>2, <2>1, i \in 1 .. Len(s)
<1>9. ASSUME NEW k \in 1 .. n - 1 PROVE \E j \in 1 .. n : r[k] = s[j]
  <2>0. k \in 1 .. Len(u) + Len(v) /\ k \in Int
    BY <1>2, <1>5, <1>6
  <2>1. CASE k <= i - 1
    <3>1. k \in 1 .. i - 1 /\ k \in 1 .. n
      BY <1>2, <2>1
    <3>2. r[k] = u[k]
      BY ONLY <1>5, <1>7, <2>0, <2>1
    <3> QED BY ONLY <1>5, <3>1, <3>2
  <2>2. CASE ~(k <= i - 1)
    <3>1. k - (i - 1) \in 1 .. n - i /\ (k - (i - 1)) + i = k + 1 /\ k + 1 \in 1 .. n
      BY <1>2, <2>2
    <3>2. r[k] = v[k - (i - 1)]
      BY ONLY <1>5, <1>7, <2>0, <2>2
    <3> QED BY ONLY <1>6, <3>1, <3>2
  <2> QED BY <2>1, <2>2
<1>10. /\ r \in Seq(S) /\ Len(r) = Len(s) - 1
       /\ \A k \in 1 .. Len(r) : \E j \in 1 .. Len(s) : r[k] = s[j]
  BY <1>2, <1>7, <1>8, <1>9
<1>11. LeftOf(S, s, i, r)
  BY <1>0, <1>10 DEF LeftOf
<1> QED BY <1>11

LEMMA Scale ==
    /\ Heartbeat \in Nat \ {0} /\ Interval \in Nat \ {0} /\ Delay \in Nat \ {0} /\ MaxJobs \in Nat \ {0}
    /\ Holdoff \in Nat /\ Grace \in Nat /\ Budget \in Nat /\ Round \in Nat /\ MaxFaults \in Nat
    /\ MaxAge \in Nat /\ MaxAge >= Heartbeat + 2 * Delay
    /\ Flaps \in BOOLEAN
  BY FallbackAssumption DEF FallbackAssumption

USE Scale

-----------------------------------------------------------------------------
(* The pool.                                                                *)

LEMMA JobShape ==
    ASSUME NEW j \in Jobs
    PROVE  /\ j.op \in Ops /\ j.wait \in 0 .. Delay /\ j.at \in {"queued", "ready"}
           /\ j.at = "ready" => j.age \in 0 .. Old /\ j.since \in BOOLEAN
  BY DEF Jobs

LEMMA PoolShape ==
    ASSUME pool \in Seq(Jobs)
    PROVE  /\ Len(pool) \in Nat /\ DOMAIN pool = 1 .. Len(pool)
           /\ \A i \in DOMAIN pool : pool[i] \in Jobs
  BY ElementOfSeq, LenProperties

(* A stamp submitted goes to the end of the pool.                           *)
LEMMA Submitted ==
    ASSUME pool \in Seq(Jobs), NEW op \in Ops, Submit(op)
    PROVE  /\ pool' \in Seq(Jobs) /\ Len(pool') <= MaxJobs
           /\ DOMAIN pool' = DOMAIN pool \cup {Len(pool')} /\ Len(pool') \notin DOMAIN pool
           /\ \A i \in DOMAIN pool : pool'[i] = pool[i]
           /\ pool'[Len(pool')] = [op |-> op, wait |-> 0, at |-> "queued"]
<1>1. [op |-> op, wait |-> 0, at |-> "queued"] \in Jobs
  BY DEF Jobs
<1> QED BY <1>1, PoolShape DEF Submit

(* What is left of the pool when a stamp is done.                           *)
LEMMA Removed ==
    ASSUME pool \in Seq(Jobs), NEW i \in Taken, pool' = Without(i)
    PROVE  /\ pool' \in Seq(Jobs) /\ Len(pool') <= Len(pool)
           /\ \A k \in DOMAIN pool' : \E j \in DOMAIN pool : pool'[k] = pool[j]
<1>1. DOMAIN pool = 1 .. Len(pool) /\ Len(pool) \in Nat
  BY PoolShape
<1>2. i \in 1 .. Len(pool)
  BY <1>1 DEF Taken, Least
<1>3. /\ pool' \in Seq(Jobs) /\ Len(pool') = Len(pool) - 1
      /\ \A k \in 1 .. Len(pool') : \E j \in 1 .. Len(pool) : pool'[k] = pool[j]
  <2>1. pool' = SubSeq(pool, 1, i - 1) \o SubSeq(pool, i + 1, Len(pool))
    BY DEF Without
  <2>2. PICK r : LeftOf(Jobs, pool, i, r)
    BY ONLY pool \in Seq(Jobs), <1>2, WithoutOne
  <2>3. /\ r = SubSeq(pool, 1, i - 1) \o SubSeq(pool, i + 1, Len(pool))
        /\ r \in Seq(Jobs) /\ Len(r) = Len(pool) - 1
        /\ \A k \in 1 .. Len(r) : \E j \in 1 .. Len(pool) : r[k] = pool[j]
    BY ONLY <2>2 DEF LeftOf
  <2>4. r = pool'
    BY <2>1, <2>3
  <2> QED BY ONLY <2>3, <2>4
<1>4. DOMAIN pool' = 1 .. Len(pool')
  BY <1>3, LenProperties
<1>5. Len(pool') <= Len(pool)
  BY <1>1, <1>3
<1> QED BY <1>1, <1>3, <1>4, <1>5

(* A stamp taken by a thread: what it will write is read.                   *)
LEMMA Took ==
    ASSUME TypeOK, NEW i \in Taken, Take(i)
    PROVE  /\ pool' \in Seq(Jobs) /\ Len(pool') = Len(pool)
           /\ i \in DOMAIN pool /\ DOMAIN pool' = DOMAIN pool
           /\ \A k \in DOMAIN pool \ {i} : pool'[k] = pool[k]
           /\ pool'[i] = [op |-> pool[i].op, wait |-> pool[i].wait, at |-> "ready",
                          age |-> Read(pool[i].op).age, since |-> Read(pool[i].op).since]
<1>1. i \in DOMAIN pool /\ pool[i] \in Jobs
  <2>1. DOMAIN pool = 1 .. Len(pool) /\ Len(pool) \in Nat
    BY PoolShape DEF TypeOK
  <2>2. i \in 1 .. Len(pool)
    BY <2>1 DEF Taken, Least
  <2> QED BY <2>1, <2>2, PoolShape DEF TypeOK
<1>2. Read(pool[i].op).age \in 0 .. Old /\ Read(pool[i].op).since \in BOOLEAN
  <2>1. stamp.age \in 0 .. Old /\ stamp.since \in BOOLEAN
    BY DEF TypeOK
  <2>2. 0 \in 0 .. Old
    BY DEF Old
  <2>3. CASE pool[i].op = "healthy"
    BY <2>2, <2>3 DEF Read
  <2>4. CASE pool[i].op # "healthy"
    BY <2>1, <2>4 DEF Read
  <2> QED BY <2>3, <2>4
<1>3. [op |-> pool[i].op, wait |-> pool[i].wait, at |-> "ready",
       age |-> Read(pool[i].op).age, since |-> Read(pool[i].op).since] \in Jobs
  BY <1>1, <1>2, JobShape DEF Jobs
<1> QED BY <1>1, <1>3, PoolShape, ExceptSeq DEF Take, TypeOK

(* One more tick, or a restart of the poller, changes each stamp in place.  *)
LEMMA Mapped ==
    ASSUME pool \in Seq(Jobs), DOMAIN pool' = DOMAIN pool,
           pool' = [i \in DOMAIN pool |-> pool'[i]],
           \A i \in DOMAIN pool : pool'[i] \in Jobs
    PROVE  pool' \in Seq(Jobs) /\ Len(pool') = Len(pool)
<1>1. DOMAIN pool = 1 .. Len(pool) /\ Len(pool) \in Nat
  BY PoolShape
<1>2. pool' \in [1 .. Len(pool) -> Jobs]
  BY <1>1
<1> QED BY <1>1, <1>2, SeqDef, LenProperties

LEMMA Ticked ==
    ASSUME TypeOK, Tick
    PROVE  /\ pool' \in Seq(Jobs) /\ Len(pool') = Len(pool) /\ DOMAIN pool' = DOMAIN pool
           /\ \A i \in DOMAIN pool :
                /\ pool'[i].op = pool[i].op /\ pool'[i].at = pool[i].at
                /\ pool'[i].wait = pool[i].wait + 1
                /\ pool[i].at = "ready" => /\ pool'[i].age = Grown(pool[i].age, Old)
                                           /\ pool'[i].since = pool[i].since
<1>1. ASSUME NEW i \in DOMAIN pool
      PROVE  /\ Aged(pool[i]) \in Jobs
             /\ Aged(pool[i]).op = pool[i].op /\ Aged(pool[i]).at = pool[i].at
             /\ Aged(pool[i]).wait = pool[i].wait + 1
             /\ pool[i].at = "ready" => /\ Aged(pool[i]).age = Grown(pool[i].age, Old)
                                        /\ Aged(pool[i]).since = pool[i].since
  <2>1. pool[i] \in Jobs /\ pool[i].wait < Delay
    BY PoolShape DEF TypeOK, Tick, Quiet
  <2>2. pool[i].wait + 1 \in 0 .. Delay
    BY <2>1, JobShape
  <2>3. CASE pool[i].at = "ready"
    <3>1. pool[i] \in [op : Ops, wait : 0 .. Delay, at : {"ready"}, age : 0 .. Old, since : BOOLEAN]
      BY <2>1, <2>3 DEF Jobs
    <3>2. Grown(pool[i].age, Old) \in 0 .. Old
      BY <3>1 DEF Grown, Least, Old
    <3> QED BY <2>2, <2>3, <3>1, <3>2 DEF Aged, Jobs
  <2>4. CASE pool[i].at # "ready"
    <3>1. pool[i] \in [op : Ops, wait : 0 .. Delay, at : {"queued"}]
      BY <2>1, <2>4 DEF Jobs
    <3> QED BY <2>2, <2>4, <3>1 DEF Aged, Jobs
  <2> QED BY <2>3, <2>4
<1>2. pool' = [i \in DOMAIN pool |-> Aged(pool[i])]
  BY DEF Tick
<1> QED BY <1>1, <1>2, Mapped DEF TypeOK

LEMMA Restarted ==
    ASSUME TypeOK, PollerRestart
    PROVE  /\ pool' \in Seq(Jobs) /\ Len(pool') = Len(pool) /\ DOMAIN pool' = DOMAIN pool
           /\ \A i \in DOMAIN pool :
                /\ pool'[i].op = pool[i].op /\ pool'[i].at = pool[i].at
                /\ pool'[i].wait = pool[i].wait
                /\ pool[i].at = "ready" => pool'[i].age = pool[i].age /\ ~pool'[i].since
<1> DEFINE Cleared(i) == IF pool[i].at = "ready" THEN [pool[i] EXCEPT !.since = FALSE] ELSE pool[i]
<1>1. ASSUME NEW i \in DOMAIN pool
      PROVE  /\ Cleared(i) \in Jobs
             /\ Cleared(i).op = pool[i].op /\ Cleared(i).at = pool[i].at
             /\ Cleared(i).wait = pool[i].wait
             /\ pool[i].at = "ready" => Cleared(i).age = pool[i].age /\ ~Cleared(i).since
  <2>1. pool[i] \in Jobs
    BY PoolShape DEF TypeOK
  <2>2. CASE pool[i].at = "ready"
    <3>1. pool[i] \in [op : Ops, wait : 0 .. Delay, at : {"ready"}, age : 0 .. Old, since : BOOLEAN]
      BY <2>1, <2>2 DEF Jobs
    <3> QED BY <2>2, <3>1 DEF Jobs
  <2>3. CASE pool[i].at # "ready"
    BY <2>1, <2>3
  <2> QED BY <2>2, <2>3
<1>2. pool' = [i \in DOMAIN pool |-> Cleared(i)]
  BY DEF PollerRestart
<1> HIDE DEF Cleared
<1> QED BY <1>1, <1>2, Mapped DEF TypeOK

(* What a step of session or pool, a reading apart, makes of the stamps: a  *)
(* stamp there is after it was there before, or was just submitted.         *)
Submits(op) == Submit(op) \/ UNCHANGED pool \/ pool' = <<>>
Finishes    == \E i \in Taken : pool' = Without(i)
New(op)     == [op |-> op, wait |-> 0, at |-> "queued"]
Came(op)    == \A k \in DOMAIN pool' : pool'[k] = New(op) \/ \E j \in DOMAIN pool : pool'[k] = pool[j]

LEMMA PoolChange ==
    ASSUME pool \in Seq(Jobs), Len(pool) <= MaxJobs, NEW op \in Ops, Submits(op) \/ Finishes
    PROVE  pool' \in Seq(Jobs) /\ Len(pool') <= MaxJobs /\ Came(op)
<1>1. CASE Submit(op)
  BY <1>1, Submitted DEF Came, New
<1>2. CASE UNCHANGED pool
  BY <1>2 DEF Came
<1>3. CASE pool' = <<>>
  <2>1. pool' \in Seq(Jobs) /\ Len(pool') = 0
    BY <1>3, EmptySeq
  <2>2. DOMAIN pool' = 1 .. 0
    BY <2>1, LenProperties
  <2> QED BY <2>1, <2>2 DEF Came
<1>4. CASE Finishes
  <2>1. PICK i \in Taken : pool' = Without(i)
    BY <1>4 DEF Finishes
  <2>2. /\ pool' \in Seq(Jobs) /\ Len(pool') <= Len(pool)
        /\ \A k \in DOMAIN pool' : \E j \in DOMAIN pool : pool'[k] = pool[j]
    BY <2>1, Removed
  <2>3. Len(pool) \in Nat /\ Len(pool') \in Nat
    BY <2>2, LenProperties
  <2> QED BY <2>2, <2>3 DEF Came
<1> QED BY <1>1, <1>2, <1>3, <1>4 DEF Submits

(* Which stamp a step of the session submits, if any.                       *)
LEMMA SessionSubmits ==
    ASSUME Session
    PROVE  \E op \in Ops : Submits(op)
  BY DEF Session, Hold, LetGo, ConnectFails, Connect, FirstReceive, ReplayPause, ReplayResume,
         Suspend, Resume, Beat, Lost, Crash, Restart, Submits, Ops

-----------------------------------------------------------------------------
(* Types.                                                                   *)

LEMMA Caps == /\ Old = MaxAge + 1 /\ Old \in Nat /\ Up \in Nat /\ Holdoff + Grace <= Up
              /\ Settled = Heartbeat + 2 * Delay /\ Settled \in Nat
              /\ Covered = Budget + Delay + MaxAge + Interval + Round /\ Covered \in Nat
  BY DEF Old, Up, Settled, Covered

LEMMA GrownType ==
    ASSUME NEW cap \in Nat, NEW a \in 0 .. cap
    PROVE  /\ Grown(a, cap) \in 0 .. cap /\ a <= Grown(a, cap) /\ Grown(a, cap) <= a + 1
           /\ a < cap => Grown(a, cap) = a + 1
  BY DEF Grown, Least

(* Everything but the pool.                                                 *)
Threads_OK ==
    /\ ses \in {"dead", "away", "held", "connected", "draining", "replay", "suspended"}
    /\ beat \in 0 .. Heartbeat /\ spent \in 0 .. Budget
    /\ faults \in 0 .. MaxFaults /\ joined \in BOOLEAN
    /\ gap \in 0 .. Covered + 1 /\ steady \in 0 .. Settled + 1
Stamp_OK  == stamp \in [age : 0 .. Old, error : BOOLEAN, since : BOOLEAN]
Poller_OK == poller \in [pc : {"idle", "stale", "unread"}, up : 0 .. Up, next : -Round .. Holdoff + Interval]

LEMMA Parts ==
    /\ TypeOK <=> (Threads_OK /\ Stamp_OK /\ Poller_OK /\ pool \in Seq(Jobs) /\ Len(pool) <= MaxJobs)
    /\ TypeOK' <=> (Threads_OK' /\ Stamp_OK' /\ Poller_OK' /\ pool' \in Seq(Jobs) /\ Len(pool') <= MaxJobs)
  BY DEF TypeOK, Threads_OK, Stamp_OK, Poller_OK

LEMMA StartingType == Starting \in [pc : {"idle", "stale", "unread"}, up : 0 .. Up, next : -Round .. Holdoff + Interval]
<1>1. 0 \in 0 .. Up /\ Holdoff \in -Round .. Holdoff + Interval
  BY Caps
<1> QED BY <1>1 DEF Starting

LEMMA DeferredType ==
    ASSUME Poller_OK
    PROVE  Deferred \in [pc : {"idle", "stale", "unread"}, up : 0 .. Up, next : -Round .. Holdoff + Interval]
<1>1. Interval \in -Round .. Holdoff + Interval
  OBVIOUS
<1> QED BY <1>1 DEF Deferred, Poller_OK

LEMMA FallbackInit == Init => TypeOK
<1>1. <<>> \in Seq(Jobs) /\ Len(<<>>) = 0 /\ 0 <= MaxJobs
  BY EmptySeq
<1>2. Init => Threads_OK
  <2>1. 0 \in 0 .. Heartbeat /\ 0 \in 0 .. Budget /\ 0 \in 0 .. Covered + 1 /\ 0 \in 0 .. Settled + 1
        /\ 0 \in 0 .. MaxFaults
    BY Caps
  <2> QED BY <2>1 DEF Init, Threads_OK
<1>3. Init => Stamp_OK
  BY Caps DEF Init, Stamp_OK
<1>4. Init => Poller_OK
  BY StartingType DEF Init, Poller_OK
<1> QED BY <1>1, <1>2, <1>3, <1>4, Parts DEF Init

LEMMA FallbackTypes ==
    ASSUME TypeOK, [Next]_vars
    PROVE  TypeOK'
<1> USE Parts
<1>1. CASE Session
  <2>1. pool' \in Seq(Jobs) /\ Len(pool') <= MaxJobs
    BY <1>1, SessionSubmits, PoolChange
  <2>2. UNCHANGED <<stamp, poller>>
    BY <1>1 DEF Session, Hold, LetGo, ConnectFails, Connect, FirstReceive, ReplayPause, ReplayResume,
                Suspend, Resume, Beat, Lost, Crash, Restart
  <2>3. Threads_OK'
    <3>1. 0 \in 0 .. Heartbeat /\ 0 \in 0 .. Budget /\ 0 \in 0 .. Covered + 1 /\ 0 \in 0 .. Settled + 1
      BY Caps
    <3>2. Fault => faults' \in 0 .. MaxFaults
      BY DEF Fault, Threads_OK
    <3> QED BY ONLY Threads_OK, <1>1, <3>1, <3>2
            DEF Threads_OK, Session, Hold, LetGo, ConnectFails, Connect, FirstReceive, ReplayPause,
                ReplayResume, Suspend, Resume, Beat, Lost, Crash, Restart, Drains
  <2> QED BY <2>1, <2>2, <2>3 DEF Stamp_OK, Poller_OK
<1>2. ASSUME NEW i \in Taken, Take(i) PROVE TypeOK'
  <2>1. pool' \in Seq(Jobs) /\ Len(pool') <= MaxJobs
    BY <1>2, Took
  <2> QED BY <1>2, <2>1 DEF Take, Threads_OK, Stamp_OK, Poller_OK
<1>3. ASSUME NEW i \in Taken, Commit(i) \/ StampFails(i) PROVE TypeOK'
  <2>1. pool' \in Seq(Jobs) /\ Len(pool') <= MaxJobs
    BY <1>3, PoolChange DEF Commit, StampFails, Finishes, Ops
  <2>2. pool[i] \in Jobs
    <3>1. DOMAIN pool = 1 .. Len(pool) /\ Len(pool) \in Nat
      BY PoolShape
    <3>2. i \in DOMAIN pool
      BY <3>1 DEF Taken, Least
    <3> QED BY <3>2, PoolShape
  <2>3. Stamp_OK'
    <3>1. pool[i].at = "ready" => pool[i].age \in 0 .. Old /\ pool[i].since \in BOOLEAN
      BY <2>2, JobShape
    <3>2. CASE Commit(i)
      <4>1. (pool[i].op = "down") \in BOOLEAN
        OBVIOUS
      <4> QED BY <3>1, <3>2, <4>1 DEF Stamp_OK, Commit
    <3> QED BY <1>3, <3>2 DEF Stamp_OK, StampFails
  <2>4. Threads_OK'
    <3>1. CASE Commit(i)
      BY <3>1 DEF Threads_OK, Commit
    <3>2. CASE StampFails(i)
      <4>1. 0 \in 0 .. Settled + 1
        BY Caps
      <4>2. faults' \in 0 .. MaxFaults
        BY <3>2 DEF StampFails, Fault, Threads_OK
      <4> QED BY <3>2, <4>1, <4>2 DEF Threads_OK, StampFails
    <3> QED BY <1>3, <3>1, <3>2
  <2>5. Poller_OK'
    BY <1>3 DEF Poller_OK, Commit, StampFails
  <2> QED BY <2>1, <2>3, <2>4, <2>5
<1>4. CASE Defer \/ Stale \/ Unread \/ Graced \/ Fetch
  <2>1. Poller_OK'
    BY <1>4, DeferredType DEF Poller_OK, Defer, Stale, Unread, Graced, Fetch
  <2>2. Threads_OK'
    <3>1. 0 \in 0 .. Covered + 1
      BY Caps
    <3>2. Fault => faults' \in 0 .. MaxFaults
      BY DEF Fault, Threads_OK
    <3> QED BY <1>4, <3>1, <3>2 DEF Threads_OK, Defer, Stale, Unread, Graced, Fetch
  <2> QED BY <1>4, <2>1, <2>2 DEF Stamp_OK, Defer, Stale, Unread, Graced, Fetch
<1>5. CASE PollerRestart
  <2>1. pool' \in Seq(Jobs) /\ Len(pool') <= MaxJobs
    BY <1>5, Restarted
  <2>2. Threads_OK'
    <3>1. joined' \in BOOLEAN
      BY <1>5, Zenon DEF PollerRestart
    <3>2. faults' \in 0 .. MaxFaults
      <4>1. Fault
        BY <1>5 DEF PollerRestart
      <4> QED BY <4>1 DEF Threads_OK, Fault
    <3> QED BY <1>5, <3>1, <3>2 DEF Threads_OK, PollerRestart
  <2>3. Stamp_OK' /\ Poller_OK'
    BY <1>5, StartingType DEF Stamp_OK, Poller_OK, PollerRestart
  <2> QED BY <2>1, <2>2, <2>3
<1>6. CASE Tick
  <2>1. pool' \in Seq(Jobs) /\ Len(pool') <= MaxJobs
    BY <1>6, Ticked
  <2>2. Threads_OK'
    <3>1. spent' \in 0 .. Budget
      <4>1. spent \in 0 .. Budget /\ (ses = "replay" => spent < Budget)
        BY <1>6 DEF Threads_OK, Tick, Quiet
      <4>2. spent' = IF ses = "replay" THEN spent + 1 ELSE spent
        BY <1>6 DEF Tick
      <4> QED BY <4>1, <4>2
    <3>2. beat' \in 0 .. Heartbeat
      BY <1>6, GrownType DEF Threads_OK, Tick
    <3>3. gap' \in 0 .. Covered + 1
      <4>1. Covered + 1 \in Nat /\ 0 \in 0 .. Covered + 1
        BY Caps
      <4> QED BY <1>6, <4>1, GrownType DEF Threads_OK, Tick
    <3>4. steady' \in 0 .. Settled + 1
      <4>1. Settled + 1 \in Nat /\ 0 \in 0 .. Settled + 1
        BY Caps
      <4> QED BY <1>6, <4>1, GrownType DEF Threads_OK, Tick
    <3> QED BY <1>6, <3>1, <3>2, <3>3, <3>4 DEF Threads_OK, Tick
  <2>3. Stamp_OK'
    <3>1. Grown(stamp.age, Old) \in 0 .. Old
      BY Caps, GrownType DEF Stamp_OK
    <3> QED BY <1>6, <3>1 DEF Stamp_OK, Tick
  <2>4. Poller_OK'
    <3>1. Grown(poller.up, Up) \in 0 .. Up
      BY Caps, GrownType DEF Poller_OK
    <3>2. poller.next - 1 \in -Round .. Holdoff + Interval
      <4>1. poller.next \in -Round .. Holdoff + Interval /\ poller.next > -Round
        BY <1>6 DEF Poller_OK, Tick, Quiet
      <4> QED BY <4>1
    <3> QED BY <1>6, <3>1, <3>2 DEF Poller_OK, Tick
  <2> QED BY <2>1, <2>2, <2>3, <2>4
<1>7. CASE UNCHANGED vars
  BY <1>7 DEF Threads_OK, Stamp_OK, Poller_OK, vars
<1> QED BY <1>1, <1>2, <1>3, <1>4, <1>5, <1>6, <1>7 DEF Next, Pool, Poller

(* Every reachable state is well typed: no age passes its cap, no stamp     *)
(* waits longer than Delay and the poller is never later than Round.        *)
THEOREM FallbackTypeCorrect == Spec => []TypeOK
  BY FallbackInit, FallbackTypes, PTL DEF Spec

-----------------------------------------------------------------------------
(* Not by both.  Lag is what is known against the row: as long as it is in  *)
(* error it lags behind the whole time the session has been draining.       *)

Lag == IF stamp.error THEN steady ELSE Least(steady, stamp.age)

SteadyDrains == ses # "draining" => steady = 0

(* A "down" was submitted before the session began to drain, ...            *)
DownsOlder == \A i \in DOMAIN pool : pool[i].op = "down" => steady <= pool[i].wait

(* ... what a "healthy" one has read is no older than itself, ...           *)
ReadYoung == \A i \in DOMAIN pool :
                pool[i].op = "healthy" /\ pool[i].at = "ready" => pool[i].age <= pool[i].wait

(* ... so the row lags behind by no more than the last beat and the longest *)
(* a stamp takes, or another beat is on its way.                            *)
Settling == \/ Lag <= Delay + beat
            \/ \E i \in DOMAIN pool :
                  pool[i].op = "healthy" /\ Lag <= Delay + Heartbeat + pool[i].wait

StaleEarly == poller.pc = "stale" => steady <= Settled

SteadyInv == SteadyDrains /\ DownsOlder /\ ReadYoung /\ Settling /\ StaleEarly

LEMMA LagType == TypeOK => Lag \in Nat /\ Lag <= steady /\ steady \in Nat
<1> SUFFICES ASSUME TypeOK PROVE Lag \in Nat /\ Lag <= steady /\ steady \in Nat
  OBVIOUS
<1>1. steady \in Nat /\ stamp.age \in Nat
  BY Parts, Caps DEF Threads_OK, Stamp_OK
<1> QED BY <1>1 DEF Lag, Least

LEMMA WaitType == TypeOK => \A i \in DOMAIN pool : pool[i] \in Jobs /\ pool[i].wait \in 0 .. Delay
  BY Parts, PoolShape, JobShape

LEMMA YoungCame ==
    ASSUME ReadYoung, NEW op, Came(op)
    PROVE  ReadYoung'
<1> SUFFICES ASSUME NEW k \in DOMAIN pool', pool'[k].op = "healthy", pool'[k].at = "ready"
             PROVE  pool'[k].age <= pool'[k].wait
  BY DEF ReadYoung
<1>1. pool'[k] # New(op)
  BY DEF New
<1> QED BY <1>1 DEF Came, ReadYoung

(* Where the session's drain begins anew there is nothing to show.          *)
LEMMA Anew ==
    ASSUME TypeOK', ReadYoung', steady' = 0
    PROVE  SteadyInv'
<1>1. \A i \in DOMAIN pool' : pool'[i].wait \in Nat
  <2>1. \A i \in DOMAIN pool' : pool'[i] \in Jobs
    BY Parts, ElementOfSeq, LenProperties
  <2> QED BY <2>1, JobShape
<1>2. Lag' <= Delay + beat'
  <2>1. beat' \in Nat /\ stamp'.age \in Nat
    BY Parts, Caps DEF Threads_OK, Stamp_OK
  <2>2. Lag' = 0
    BY <2>1 DEF Lag, Least
  <2>3. 0 <= Delay + beat'
    <3>1. \A b \in Nat : 0 <= Delay + b
      OBVIOUS
    <3> QED BY <2>1, <3>1
  <2> QED BY <2>2, <2>3
<1>4. Settling'
  BY <1>2 DEF Settling
<1>5. SteadyDrains' /\ DownsOlder' /\ StaleEarly'
  BY <1>1, Caps DEF SteadyDrains, DownsOlder, StaleEarly
<1> QED BY <1>4, <1>5 DEF SteadyInv

LEMMA SessionSteady ==
    ASSUME TypeOK, TypeOK', SteadyInv, Session
    PROVE  SteadyInv'
<1>1. CASE Beat
  <2> USE <1>1
  <2>1. Submit("healthy") /\ "healthy" \in Ops
    BY DEF Beat, Ops
  <2>2. /\ DOMAIN pool' = DOMAIN pool \cup {Len(pool')}
        /\ \A i \in DOMAIN pool : pool'[i] = pool[i]
        /\ pool'[Len(pool')] = [op |-> "healthy", wait |-> 0, at |-> "queued"]
    BY <2>1, Submitted, Parts
  <2>3. UNCHANGED <<ses, steady, stamp, poller>> /\ Lag' = Lag /\ beat' = 0 /\ beat = Heartbeat
    BY Parts DEF Beat, Lag, Threads_OK
  <2>0. \A k \in DOMAIN pool' : k \in DOMAIN pool \/ pool'[k] = [op |-> "healthy", wait |-> 0, at |-> "queued"]
    BY <2>2
  <2>4. ReadYoung'
    <3> SUFFICES ASSUME NEW k \in DOMAIN pool', pool'[k].op = "healthy", pool'[k].at = "ready"
                 PROVE  pool'[k].age <= pool'[k].wait
      BY DEF ReadYoung
    <3>1. k \in DOMAIN pool
      BY <2>0
    <3> QED BY <2>2, <3>1 DEF SteadyInv, ReadYoung
  <2>5. DownsOlder'
    <3> SUFFICES ASSUME NEW k \in DOMAIN pool', pool'[k].op = "down" PROVE steady' <= pool'[k].wait
      BY DEF DownsOlder
    <3>1. k \in DOMAIN pool
      BY <2>0
    <3> QED BY <2>2, <2>3, <3>1 DEF SteadyInv, DownsOlder
  <2>6. Settling'
    <3>1. CASE Lag <= Delay + beat
      <4>1. Lag' <= Delay + Heartbeat + 0
        BY <2>3, <3>1, LagType
      <4>2. /\ Len(pool') \in DOMAIN pool' /\ pool'[Len(pool')].op = "healthy"
            /\ pool'[Len(pool')].wait = 0
        BY <2>2
      <4> QED BY <4>1, <4>2 DEF Settling
    <3>2. CASE \E i \in DOMAIN pool : pool[i].op = "healthy" /\ Lag <= Delay + Heartbeat + pool[i].wait
      BY <2>2, <2>3, <3>2 DEF Settling
    <3> QED BY <3>1, <3>2 DEF SteadyInv, Settling
  <2> QED BY <2>3, <2>4, <2>5, <2>6 DEF SteadyInv, SteadyDrains, StaleEarly
<1>2. CASE ~Beat
  <2>1. steady' = 0
    BY <1>2 DEF SteadyInv, SteadyDrains, Session, Hold, LetGo, ConnectFails, Connect, FirstReceive,
           ReplayPause, ReplayResume, Suspend, Resume, Lost, Crash, Restart
  <2>2. PICK op \in Ops : Submits(op)
    BY SessionSubmits
  <2>3. ReadYoung'
    BY <2>2, PoolChange, YoungCame, Parts DEF SteadyInv
  <2> QED BY <2>1, <2>3, Anew
<1> QED BY <1>1, <1>2

LEMMA PoolSteady ==
    ASSUME TypeOK, TypeOK', SteadyInv, Pool
    PROVE  SteadyInv'
<1> PICK i \in Taken : Take(i) \/ Commit(i) \/ StampFails(i)
  BY DEF Pool
<1>0. i \in DOMAIN pool
  <2>1. DOMAIN pool = 1 .. Len(pool) /\ Len(pool) \in Nat
    BY PoolShape, Parts
  <2> QED BY <2>1 DEF Taken, Least
<1>1. CASE Take(i)
  <2>1. /\ DOMAIN pool' = DOMAIN pool
        /\ \A k \in DOMAIN pool \ {i} : pool'[k] = pool[k]
        /\ pool'[i] = [op |-> pool[i].op, wait |-> pool[i].wait, at |-> "ready",
                       age |-> Read(pool[i].op).age, since |-> Read(pool[i].op).since]
    BY <1>1, Took
  <2>2. \A k \in DOMAIN pool : pool'[k].op = pool[k].op /\ pool'[k].wait = pool[k].wait
    BY <2>1
  <2>3. UNCHANGED <<ses, steady, stamp, poller, beat>> /\ Lag' = Lag
    BY <1>1 DEF Take, Lag
  <2>4. ReadYoung'
    <3>1. pool[i].op = "healthy" => pool'[i].age = 0
      BY <2>1 DEF Read
    <3>2. pool[i].wait \in Nat
      BY <1>0, WaitType
    <3> QED BY <2>1, <3>1, <3>2 DEF SteadyInv, ReadYoung
  <2>5. DownsOlder' /\ Settling'
    BY <2>1, <2>2, <2>3 DEF SteadyInv, DownsOlder, Settling
  <2> QED BY <2>3, <2>4, <2>5 DEF SteadyInv, SteadyDrains, StaleEarly
<1>2. CASE Commit(i)
  <2>1. Came("down")
    BY <1>2, PoolChange, Parts DEF Commit, Finishes, Ops
  <2>2. ReadYoung'
    BY <2>1, YoungCame DEF SteadyInv
  <2>3. UNCHANGED <<ses, steady, poller, beat>>
    BY <1>2 DEF Commit
  <2>4. \A k \in DOMAIN pool' : \E j \in DOMAIN pool : pool'[k] = pool[j]
    BY <1>2, Removed, Parts DEF Commit
  <2>5. DownsOlder'
    BY <2>3, <2>4 DEF SteadyInv, DownsOlder
  <2>6. pool[i] \in Jobs /\ pool[i].wait \in 0 .. Delay /\ steady \in Nat /\ beat \in Nat
    BY <1>0, WaitType, LagType, Parts DEF Threads_OK
  <2>7. /\ pool[i].op \in {"healthy", "down"} /\ pool[i].at = "ready" /\ pool[i].age \in Nat
        /\ stamp'.age = pool[i].age /\ stamp'.error = (pool[i].op = "down")
    BY <1>2, <2>6, JobShape, Caps DEF Commit, Ops
  <2>8. Settling'
    <3>1. CASE pool[i].op = "down"
      <4>1. steady <= pool[i].wait
        BY <1>0, <3>1 DEF SteadyInv, DownsOlder
      <4>2. Lag' = steady
        BY <2>3, <2>7, <3>1 DEF Lag
      <4> QED BY <2>3, <2>6, <4>1, <4>2 DEF Settling
    <3>2. CASE pool[i].op = "healthy"
      <4>1. pool[i].age <= pool[i].wait
        BY <1>0, <2>7, <3>2 DEF SteadyInv, ReadYoung
      <4>2. Lag' <= pool[i].age
        <5>1. Lag' = Least(steady, pool[i].age)
          BY <2>3, <2>7, <3>2 DEF Lag
        <5> QED BY <2>6, <2>7, <5>1 DEF Least
      <4>3. Lag' \in Nat
        <5>1. Lag' = Least(steady, pool[i].age)
          BY <2>3, <2>7, <3>2 DEF Lag
        <5> QED BY <2>6, <2>7, <5>1 DEF Least
      <4> QED BY <2>3, <2>6, <2>7, <4>1, <4>2, <4>3 DEF Settling
    <3> QED BY <2>7, <3>1, <3>2
  <2> QED BY <2>2, <2>3, <2>5, <2>8 DEF SteadyInv, SteadyDrains, StaleEarly
<1>3. CASE StampFails(i)
  <2>1. Came("down")
    BY <1>3, PoolChange, Parts DEF StampFails, Finishes, Ops
  <2> QED BY <1>3, <2>1, YoungCame, Anew DEF StampFails, SteadyInv
<1> QED BY <1>1, <1>2, <1>3

LEMMA PollerSteady ==
    ASSUME TypeOK, SteadyInv, Poller
    PROVE  SteadyInv'
<1> USE DEF SteadyInv
<1>1. UNCHANGED <<ses, beat, steady>> /\ stamp'.age = stamp.age /\ stamp'.error = stamp.error
  BY Parts DEF Stamp_OK, Poller, Defer, Stale, Unread, Graced, Fetch, PollerRestart
<1>2. /\ DOMAIN pool' = DOMAIN pool
      /\ \A i \in DOMAIN pool : /\ pool'[i].op = pool[i].op /\ pool'[i].at = pool[i].at
                                /\ pool'[i].wait = pool[i].wait
                                /\ pool[i].at = "ready" => pool'[i].age = pool[i].age
  <2>1. CASE PollerRestart
    BY <2>1, Restarted
  <2>2. CASE Defer \/ Stale \/ Unread \/ Graced \/ Fetch
    BY <2>2 DEF Defer, Stale, Unread, Graced, Fetch
  <2> QED BY <2>1, <2>2 DEF Poller
<1>3. Lag' = Lag
  BY <1>1 DEF Lag
<1>4. SteadyDrains' /\ DownsOlder' /\ ReadYoung'
  <2> SUFFICES ASSUME NEW i \in DOMAIN pool'
               PROVE  /\ pool'[i].op = "down" => steady' <= pool'[i].wait
                      /\ pool'[i].op = "healthy" /\ pool'[i].at = "ready" => pool'[i].age <= pool'[i].wait
    BY <1>1 DEF SteadyDrains, DownsOlder, ReadYoung
  <2>1. /\ i \in DOMAIN pool /\ pool'[i].op = pool[i].op /\ pool'[i].at = pool[i].at
        /\ pool'[i].wait = pool[i].wait
        /\ pool[i].at = "ready" => pool'[i].age = pool[i].age
    BY <1>2
  <2> QED BY <1>1, <2>1 DEF DownsOlder, ReadYoung
<1>5. Settling'
  <2>1. CASE Lag <= Delay + beat
    BY <1>1, <1>3, <2>1 DEF Settling
  <2>2. CASE \E i \in DOMAIN pool : pool[i].op = "healthy" /\ Lag <= Delay + Heartbeat + pool[i].wait
    <3>1. PICK i \in DOMAIN pool : pool[i].op = "healthy" /\ Lag <= Delay + Heartbeat + pool[i].wait
      BY <2>2
    <3>2. i \in DOMAIN pool' /\ pool'[i].op = "healthy" /\ pool'[i].wait = pool[i].wait
      BY <1>2, <3>1
    <3> QED BY <1>3, <3>1, <3>2 DEF Settling
  <2> QED BY <2>1, <2>2 DEF Settling
<1>6. StaleEarly'
  <2>1. CASE Stale
    <3>1. stamp.error \/ ~(stamp.age <= MaxAge)
      BY <2>1 DEF Stale, Healthy
    <3>2. Lag <= Settled
      <4>1. beat \in 0 .. Heartbeat
        BY Parts DEF Threads_OK
      <4>2. CASE Lag <= Delay + beat
        BY <4>1, <4>2, Caps, LagType
      <4>3. CASE \E i \in DOMAIN pool : pool[i].op = "healthy" /\ Lag <= Delay + Heartbeat + pool[i].wait
        <5>1. PICK i \in DOMAIN pool : Lag <= Delay + Heartbeat + pool[i].wait
          BY <4>3
        <5>2. pool[i].wait \in 0 .. Delay
          BY WaitType
        <5> QED BY <5>1, <5>2, Caps, LagType
      <4> QED BY <4>2, <4>3 DEF Settling
    <3>3. CASE stamp.error
      <4>1. Lag = steady
        BY <3>3 DEF Lag
      <4> QED BY <1>1, <3>2, <4>1 DEF StaleEarly
    <3>4. CASE ~stamp.error
      <4>1. stamp.age \in Nat /\ steady \in Nat /\ stamp.age > MaxAge
        BY <3>1, <3>4, Parts, Caps, LagType DEF Stamp_OK
      <4>2. Lag = Least(steady, stamp.age)
        BY <3>4 DEF Lag
      <4>3. steady <= Settled
        BY <3>2, <4>1, <4>2, Caps DEF Least
      <4> QED BY <1>1, <4>3 DEF StaleEarly
    <3> QED BY <3>3, <3>4
  <2>2. CASE Defer \/ Graced \/ Fetch \/ PollerRestart
    <3>1. poller'.pc = "idle"
      <4>1. poller' \in {Deferred, Starting}
        BY <2>2 DEF Defer, Graced, Fetch, PollerRestart
      <4>2. Deferred.pc = "idle" /\ Starting.pc = "idle"
        BY Parts DEF Deferred, Starting, Poller_OK
      <4> QED BY <4>1, <4>2
    <3> QED BY <3>1 DEF StaleEarly
  <2>3. CASE Unread
    <3>1. poller'.pc = "unread"
      BY <2>3, Parts DEF Unread, Poller_OK
    <3> QED BY <3>1 DEF StaleEarly
  <2> QED BY <2>1, <2>2, <2>3 DEF Poller
<1> QED BY <1>4, <1>5, <1>6

LEMMA TickSteady ==
    ASSUME TypeOK, TypeOK', SteadyInv, Tick
    PROVE  SteadyInv'
<1>1. /\ DOMAIN pool' = DOMAIN pool
      /\ \A i \in DOMAIN pool : /\ pool'[i].op = pool[i].op /\ pool'[i].at = pool[i].at
                                /\ pool'[i].wait = pool[i].wait + 1
                                /\ pool[i].at = "ready" => pool'[i].age = Grown(pool[i].age, Old)
  BY Ticked
<1>2. ReadYoung'
  <2> SUFFICES ASSUME NEW i \in DOMAIN pool', pool'[i].op = "healthy", pool'[i].at = "ready"
               PROVE  pool'[i].age <= pool'[i].wait
    BY DEF ReadYoung
  <2>0. i \in DOMAIN pool /\ pool[i].op = "healthy" /\ pool[i].at = "ready"
    BY <1>1
  <2>1. pool[i].wait \in Nat /\ pool[i].age \in 0 .. Old /\ pool[i].age <= pool[i].wait
    BY <2>0, WaitType, JobShape DEF SteadyInv, ReadYoung
  <2>2. Grown(pool[i].age, Old) <= pool[i].age + 1 /\ Grown(pool[i].age, Old) \in Nat
    <3>1. Old \in Nat /\ pool[i].age \in 0 .. Old
      BY <2>1, Caps
    <3>2. Grown(pool[i].age, Old) \in 0 .. Old /\ Grown(pool[i].age, Old) <= pool[i].age + 1
      BY ONLY <3>1, GrownType
    <3> QED BY <3>1, <3>2
  <2>3. pool'[i].age = Grown(pool[i].age, Old) /\ pool'[i].wait = pool[i].wait + 1
    BY <1>1, <2>0
  <2> QED BY <2>1, <2>2, <2>3
<1>3. CASE ses # "draining"
  <2>1. steady' = 0
    BY <1>3 DEF Tick
  <2> QED BY <1>2, <2>1, Anew
<1>4. CASE ses = "draining"
  <2>1. /\ steady' = Grown(steady, Settled + 1) /\ beat' = beat + 1 /\ poller' = [poller EXCEPT !.up = Grown(@, Up), !.next = @ - 1]
        /\ stamp'.age = Grown(stamp.age, Old) /\ stamp'.error = stamp.error
        /\ poller.pc = "idle" /\ ses' = ses
    <3>1. beat \in 0 .. Heartbeat /\ beat < Heartbeat
      BY <1>4, Parts DEF Tick, Quiet, Beating, Threads_OK
    <3>2. beat' = beat + 1
      BY <3>1 DEF Tick, Grown, Least
    <3> QED BY <1>4, <3>2, Parts DEF Tick, Quiet, Stamp_OK
  <2>2. /\ steady \in Nat /\ stamp.age \in Nat /\ beat \in Nat
        /\ steady' \in Nat /\ steady' <= steady + 1
        /\ stamp'.age \in Nat /\ stamp'.age <= stamp.age + 1
    <3>1. steady \in 0 .. Settled + 1 /\ stamp.age \in 0 .. Old /\ beat \in 0 .. Heartbeat
      BY Parts DEF Threads_OK, Stamp_OK
    <3>2. Settled + 1 \in Nat /\ Old \in Nat
      BY Caps
    <3>3. /\ Grown(steady, Settled + 1) \in 0 .. Settled + 1 /\ Grown(steady, Settled + 1) <= steady + 1
          /\ Grown(stamp.age, Old) \in 0 .. Old /\ Grown(stamp.age, Old) <= stamp.age + 1
      BY <3>1, <3>2, GrownType
    <3> QED BY <2>1, <3>1, <3>2, <3>3
  <2>3. Lag' \in Nat /\ Lag \in Nat /\ Lag' <= Lag + 1
    <3>1. CASE stamp.error
      <4>1. Lag' = steady' /\ Lag = steady
        BY <2>1, <3>1 DEF Lag
      <4> QED BY <2>2, <4>1
    <3>2. CASE ~stamp.error
      <4>1. Lag' = Least(steady', stamp'.age) /\ Lag = Least(steady, stamp.age)
        BY <2>1, <3>2 DEF Lag
      <4> QED BY <2>2, <4>1 DEF Least
    <3> QED BY <3>1, <3>2
  <2>4. DownsOlder'
    <3> SUFFICES ASSUME NEW i \in DOMAIN pool', pool'[i].op = "down" PROVE steady' <= pool'[i].wait
      BY DEF DownsOlder
    <3>0. i \in DOMAIN pool /\ pool[i].op = "down"
      BY <1>1
    <3>1. steady <= pool[i].wait /\ pool[i].wait \in Nat /\ pool'[i].wait = pool[i].wait + 1
      BY <1>1, <3>0, WaitType DEF SteadyInv, DownsOlder
    <3> QED BY <2>2, <3>1
  <2>5. Settling'
    <3>1. CASE Lag <= Delay + beat
      <4>1. Lag' <= Delay + (beat + 1)
        BY <2>2, <2>3, <3>1
      <4> QED BY <2>1, <4>1 DEF Settling
    <3>2. CASE \E i \in DOMAIN pool : pool[i].op = "healthy" /\ Lag <= Delay + Heartbeat + pool[i].wait
      <4>1. PICK i \in DOMAIN pool : pool[i].op = "healthy" /\ Lag <= Delay + Heartbeat + pool[i].wait
        BY <3>2
      <4>2. pool[i].wait \in Nat
        BY WaitType
      <4>3. Lag' <= Delay + Heartbeat + (pool[i].wait + 1)
        BY <2>3, <4>1, <4>2
      <4>4. i \in DOMAIN pool' /\ pool'[i].op = "healthy" /\ pool'[i].wait = pool[i].wait + 1
        BY <1>1, <4>1
      <4> QED BY <4>3, <4>4 DEF Settling
    <3> QED BY <3>1, <3>2 DEF SteadyInv, Settling
  <2>6. SteadyDrains' /\ StaleEarly'
    BY <1>4, <2>1, Parts DEF SteadyDrains, StaleEarly, Poller_OK
  <2> QED BY <1>2, <2>4, <2>5, <2>6 DEF SteadyInv
<1> QED BY <1>3, <1>4

LEMMA SteadyInit == Init => SteadyInv
<1> SUFFICES ASSUME Init PROVE SteadyInv
  OBVIOUS
<1>1. DOMAIN pool = {}
  BY DEF Init
<1>2. Lag = 0 /\ beat = 0 /\ steady = 0 /\ poller.pc = "idle"
  BY Caps DEF Init, Lag, Least, Starting
<1> QED BY <1>1, <1>2 DEF SteadyInv, SteadyDrains, DownsOlder, ReadYoung, Settling, StaleEarly

LEMMA SteadyStep == TypeOK /\ SteadyInv /\ [Next]_vars => SteadyInv'
<1> SUFFICES ASSUME TypeOK, SteadyInv, [Next]_vars PROVE SteadyInv'
  OBVIOUS
<1>0. TypeOK'
  BY FallbackTypes
<1>1. CASE UNCHANGED vars
  BY <1>1 DEF vars, SteadyInv, SteadyDrains, DownsOlder, ReadYoung, Settling, StaleEarly, Lag
<1> QED BY <1>0, <1>1, SessionSteady, PoolSteady, PollerSteady, TickSteady DEF Next

(* Once a session drains and its stamps have settled, the poller leaves its *)
(* fetch out, whatever the order its stamps are done in, but for a read of  *)
(* the heartbeat that fails.                                                *)
THEOREM FetchIsNeeded == Spec => NoNeedlessFetch
<1>1. TypeOK /\ SteadyInv /\ [Next]_vars => [Fetch => (steady <= Settled \/ poller.pc = "unread")]_vars
  BY DEF SteadyInv, StaleEarly, Fetch, Judging
<1> QED BY <1>1, FallbackInit, FallbackTypes, SteadyInit, SteadyStep, PTL DEF Spec, NoNeedlessFetch

-----------------------------------------------------------------------------
(* By one or the other.  A "healthy" stamp is as old as the gap, less the   *)
(* pause a replay may have made of it; so, less what a stamp takes, is a    *)
(* row that holds the fetch back; and so the poller's wait is all there is  *)
(* to come.  With a session that is connected and about to receive, the     *)
(* gap is as good as over: it is not lost before (~Flaps).                  *)

Pending == IF ses = "connected" THEN 0 ELSE gap

GapSession == /\ ses = "draining" => gap = 0
              /\ ses = "replay" => gap <= spent
GapPool    == \A i \in DOMAIN pool : pool[i].op = "healthy" => Pending <= Budget + pool[i].wait
GapStamp   == Healthy => Pending <= Budget + Delay + stamp.age
GapPoller  == \/ Pending <= Budget + Delay + MaxAge + Interval - poller.next
              \/ poller.up < Holdoff + Grace + Interval - poller.next

GapInv == GapSession /\ GapPool /\ GapStamp /\ GapPoller /\ GapCovered

LEMMA GapTypes ==
    TypeOK => /\ gap \in Nat /\ spent \in 0 .. Budget
              /\ Pending \in Nat /\ Pending <= gap
              /\ stamp.age \in 0 .. Old /\ stamp.error \in BOOLEAN
              /\ poller.up \in 0 .. Up /\ poller.next \in -Round .. Holdoff + Interval
<1> SUFFICES ASSUME TypeOK
             PROVE  /\ gap \in Nat /\ spent \in 0 .. Budget
                    /\ Pending \in Nat /\ Pending <= gap
                    /\ stamp.age \in 0 .. Old /\ stamp.error \in BOOLEAN
                    /\ poller.up \in 0 .. Up /\ poller.next \in -Round .. Holdoff + Interval
  OBVIOUS
<1>1. gap \in Nat /\ spent \in 0 .. Budget
  BY Parts, Caps DEF Threads_OK
<1> QED BY <1>1, Parts DEF Pending, Stamp_OK, Poller_OK

(* The stamps of a step that submits a healthy one only within the budget.  *)
LEMMA PoolCame ==
    ASSUME TypeOK, GapPool, NEW op, Came(op),
           Pending' \in Nat, Pending' <= Pending, op = "healthy" => Pending' <= Budget
    PROVE  GapPool'
<1> SUFFICES ASSUME NEW k \in DOMAIN pool', pool'[k].op = "healthy"
             PROVE  Pending' <= Budget + pool'[k].wait
  BY DEF GapPool
<1>1. CASE pool'[k] = New(op)
  <2>1. op = "healthy" /\ pool'[k].wait = 0
    BY <1>1 DEF New
  <2> QED BY <2>1
<1>2. CASE \E j \in DOMAIN pool : pool'[k] = pool[j]
  <2>1. PICK j \in DOMAIN pool : pool'[k] = pool[j]
    BY <1>2
  <2>2. pool[j].wait \in Nat /\ Pending <= Budget + pool[j].wait
    BY <2>1, WaitType DEF GapPool
  <2> QED BY <2>1, <2>2, GapTypes
<1> QED BY <1>1, <1>2 DEF Came

LEMMA SessionGap ==
    ASSUME ~Flaps, TypeOK, GapInv, Session
    PROVE  GapInv'
<1> USE GapTypes DEF GapInv
<1>1. UNCHANGED <<stamp, poller>>
  BY DEF Session, Hold, LetGo, ConnectFails, Connect, FirstReceive, ReplayPause, ReplayResume,
         Suspend, Resume, Beat, Lost, Crash, Restart
<1>2. GapSession'
  BY DEF GapSession, Session, Hold, LetGo, ConnectFails, Connect, FirstReceive, ReplayPause, ReplayResume,
         Suspend, Resume, Beat, Lost, Crash, Restart, Drains
<1>3. gap' \in {gap, 0} /\ Pending' \in {Pending, 0}
  BY DEF Pending, Session, Hold, LetGo, ConnectFails, Connect, FirstReceive, ReplayPause, ReplayResume,
         Suspend, Resume, Beat, Lost, Crash, Restart, Drains
<1>4. Pending' \in Nat /\ Pending' <= Pending /\ gap' \in Nat /\ gap' <= gap
  BY <1>3
<1>5. GapPool'
  <2>1. CASE Connect \/ Resume
    <3>1. Submits("healthy") /\ Pending' = 0
      BY <2>1 DEF Connect, Resume, Submits, Drains, Pending
    <3> QED BY <1>4, <3>1, PoolChange, PoolCame, Parts DEF Ops
  <2>2. CASE Beat
    <3>1. Submits("healthy") /\ Pending' = gap /\ gap <= Budget
      BY <2>2 DEF Beat, Submits, Pending, Beating, GapSession
    <3> QED BY <1>4, <3>1, PoolChange, PoolCame, Parts DEF Ops
  <2>3. CASE ~Connect /\ ~Resume /\ ~Beat
    <3>1. Submits("down")
      BY <2>3 DEF Session, Hold, LetGo, ConnectFails, FirstReceive, ReplayPause, ReplayResume,
         Suspend, Lost, Crash, Restart, Submits
    <3> QED BY <1>4, <3>1, PoolChange, PoolCame, Parts DEF Ops
  <2> QED BY <2>1, <2>2, <2>3
<1>6. GapStamp'
  BY <1>1, <1>4 DEF GapStamp, Healthy
<1>7. GapPoller'
  BY <1>1, <1>4 DEF GapPoller
<1>8. GapCovered'
  BY <1>1, <1>4, Caps DEF GapCovered
<1> QED BY <1>2, <1>5, <1>6, <1>7, <1>8

LEMMA PoolGap ==
    ASSUME TypeOK, GapInv, Pool
    PROVE  GapInv'
<1> USE GapTypes DEF GapInv
<1> PICK i \in Taken : Take(i) \/ Commit(i) \/ StampFails(i)
  BY DEF Pool
<1>0. i \in DOMAIN pool
  <2>1. DOMAIN pool = 1 .. Len(pool) /\ Len(pool) \in Nat
    BY PoolShape, Parts
  <2> QED BY <2>1 DEF Taken, Least
<1>1. UNCHANGED <<ses, spent, gap, poller>> /\ Pending' = Pending
  BY DEF Take, Commit, StampFails, Pending
<1>2. GapSession' /\ GapPoller' /\ GapCovered'
  BY <1>1 DEF GapSession, GapPoller, GapCovered
<1>3. GapPool'
  <2>1. CASE Take(i)
    <3>1. /\ DOMAIN pool' = DOMAIN pool
          /\ \A k \in DOMAIN pool : pool'[k].op = pool[k].op /\ pool'[k].wait = pool[k].wait
      <4>1. /\ DOMAIN pool' = DOMAIN pool
            /\ \A k \in DOMAIN pool \ {i} : pool'[k] = pool[k]
            /\ pool'[i] = [op |-> pool[i].op, wait |-> pool[i].wait, at |-> "ready",
                           age |-> Read(pool[i].op).age, since |-> Read(pool[i].op).since]
        BY <2>1, Took
      <4>2. pool'[i].op = pool[i].op /\ pool'[i].wait = pool[i].wait
        BY <4>1
      <4> QED BY <4>1, <4>2
    <3> QED BY <1>1, <3>1 DEF GapPool
  <2>2. CASE Commit(i) \/ StampFails(i)
    <3>1. Came("down")
      BY <2>2, PoolChange, Parts DEF Commit, StampFails, Finishes, Ops
    <3> QED BY <1>1, <3>1, PoolCame
  <2> QED BY <2>1, <2>2
<1>4. GapStamp'
  <2>1. CASE Take(i) \/ StampFails(i)
    <3>1. stamp' = stamp
      BY <2>1 DEF Take, StampFails
    <3> QED BY <1>1, <3>1 DEF GapStamp, Healthy
  <2>2. CASE Commit(i)
    <3>1. pool[i] \in Jobs /\ pool[i].wait \in 0 .. Delay
      BY <1>0, WaitType
    <3>2. /\ pool[i].op \in {"healthy", "down"} /\ pool[i].age \in 0 .. Old
          /\ stamp'.age = pool[i].age /\ stamp'.error = (pool[i].op = "down")
      BY <2>2, <3>1, JobShape DEF Commit, Ops
    <3>3. CASE pool[i].op = "healthy"
      <4>1. Pending <= Budget + pool[i].wait
        BY <1>0, <3>3 DEF GapPool
      <4>2. Pending <= Budget + Delay + pool[i].age
        BY <3>1, <3>2, <4>1
      <4> QED BY <1>1, <3>2, <4>2 DEF GapStamp
    <3>4. CASE pool[i].op = "down"
      BY <3>2, <3>4 DEF GapStamp, Healthy
    <3> QED BY <3>2, <3>3, <3>4
  <2> QED BY <2>1, <2>2
<1> QED BY <1>2, <1>3, <1>4

LEMMA PollerGap ==
    ASSUME TypeOK, GapInv, Poller
    PROVE  GapInv'
<1> USE GapTypes DEF GapInv
<1>1. /\ UNCHANGED <<ses, spent>> /\ stamp'.age = stamp.age /\ stamp'.error = stamp.error
      /\ gap' \in {gap, 0}
  BY Parts DEF Stamp_OK, Poller, Defer, Stale, Unread, Graced, Fetch, PollerRestart
<1>2. Pending' \in Nat /\ Pending' <= Pending /\ gap' \in Nat /\ gap' <= gap
  BY <1>1 DEF Pending
<1>3. GapSession'
  BY <1>1 DEF GapSession
<1>4. GapStamp'
  BY <1>1, <1>2 DEF GapStamp, Healthy
<1>5. GapPool'
  <2>1. /\ DOMAIN pool' = DOMAIN pool
        /\ \A k \in DOMAIN pool : pool'[k].op = pool[k].op /\ pool'[k].wait = pool[k].wait
    BY Restarted DEF Poller, Defer, Stale, Unread, Graced, Fetch
  <2> SUFFICES ASSUME NEW k \in DOMAIN pool', pool'[k].op = "healthy"
               PROVE  Pending' <= Budget + pool'[k].wait
    BY DEF GapPool
  <2>2. pool[k].wait \in Nat /\ Pending <= Budget + pool[k].wait /\ pool'[k].wait = pool[k].wait
    BY <2>1, WaitType DEF GapPool
  <2> QED BY <1>2, <2>2
<1>6. GapPoller'
  <2>1. CASE Defer
    <3>1. Pending <= Budget + Delay + MaxAge
      BY <2>1 DEF Defer, GapStamp, Healthy
    <3>2. poller'.next = Interval
      BY <2>1, Parts DEF Defer, Deferred, Poller_OK
    <3>3. Pending' <= Budget + Delay + MaxAge + Interval - Interval
      BY <1>2, <3>1
    <3> QED BY <3>2, <3>3 DEF GapPoller
  <2>2. CASE Stale \/ Unread
    <3>1. poller'.next = poller.next /\ poller'.up = poller.up
      BY <2>2, Parts DEF Stale, Unread, Poller_OK
    <3> QED BY <1>2, <3>1 DEF GapPoller
  <2>3. CASE Graced
    <3>1. poller.up < Holdoff + Grace /\ poller'.next = Interval /\ poller'.up = poller.up
      BY <2>3, Parts DEF Graced, Deferred, Poller_OK
    <3>2. poller.up < Holdoff + Grace + Interval - Interval
      BY <3>1
    <3> QED BY <3>1, <3>2 DEF GapPoller
  <2>4. CASE Fetch
    <3>1. Pending' = 0 /\ poller'.next = Interval
      BY <2>4, Parts DEF Fetch, Pending, Deferred, Poller_OK
    <3>2. 0 <= Budget + Delay + MaxAge + Interval - Interval
      OBVIOUS
    <3> QED BY <3>1, <3>2 DEF GapPoller
  <2>5. CASE PollerRestart
    <3>1. poller'.up = 0 /\ poller'.next = Holdoff
      BY <2>5 DEF PollerRestart, Starting
    <3>2. 0 < Holdoff + Grace + Interval - Holdoff
      OBVIOUS
    <3> QED BY <3>1, <3>2 DEF GapPoller
  <2> QED BY <2>1, <2>2, <2>3, <2>4, <2>5 DEF Poller
<1>7. GapCovered'
  <2>1. poller'.up \in {poller.up, 0}
    <3>1. CASE PollerRestart
      BY <3>1 DEF PollerRestart, Starting
    <3>2. CASE Defer \/ Stale \/ Unread \/ Graced \/ Fetch
      BY <3>2, Parts DEF Poller_OK, Defer, Stale, Unread, Graced, Fetch, Deferred
    <3> QED BY <3>1, <3>2 DEF Poller
  <2>2. 0 < Up
    BY DEF Up
  <2> QED BY <1>2, <2>1, <2>2, Caps DEF GapCovered
<1> QED BY <1>3, <1>4, <1>5, <1>6, <1>7

LEMMA TickGap ==
    ASSUME TypeOK, TypeOK', GapInv, Tick
    PROVE  GapInv'
<1> USE GapTypes DEF GapInv
<1>1. ses # "connected" /\ ses' = ses /\ Pending = gap /\ Pending' = gap'
  BY DEF Tick, Quiet, Pending
<1>2. gap' \in Nat /\ gap' <= gap + 1 /\ (ses = "draining" => gap' = 0)
  <2>1. Covered + 1 \in Nat /\ gap \in 0 .. Covered + 1
    BY Parts, Caps DEF Threads_OK
  <2>2. Grown(gap, Covered + 1) \in 0 .. Covered + 1 /\ Grown(gap, Covered + 1) <= gap + 1
    BY ONLY <2>1, GrownType
  <2>3. gap' = IF ses = "draining" THEN 0 ELSE Grown(gap, Covered + 1)
    BY DEF Tick
  <2> QED BY <2>1, <2>2, <2>3
<1>3. GapSession'
  <2>1. ses = "replay" => spent' = spent + 1
    BY DEF Tick
  <2> QED BY <1>1, <1>2, <2>1 DEF GapSession
<1>4. GapPool'
  <2> SUFFICES ASSUME NEW k \in DOMAIN pool', pool'[k].op = "healthy"
               PROVE  Pending' <= Budget + pool'[k].wait
    BY DEF GapPool
  <2>1. k \in DOMAIN pool /\ pool[k].op = "healthy" /\ pool'[k].wait = pool[k].wait + 1
    BY Ticked
  <2>2. pool[k].wait \in Nat /\ gap <= Budget + pool[k].wait
    BY <1>1, <2>1, WaitType DEF GapPool
  <2>3. gap' <= Budget + (pool[k].wait + 1)
    BY <1>2, <2>2
  <2> QED BY <1>1, <2>1, <2>3
<1>5. GapStamp'
  <2> SUFFICES ASSUME Healthy' PROVE gap' <= Budget + Delay + stamp'.age
    BY <1>1 DEF GapStamp
  <2>1. stamp'.age = Grown(stamp.age, Old) /\ ~stamp'.error /\ stamp'.error = stamp.error /\ stamp'.age <= MaxAge
    BY Parts DEF Tick, Healthy, Stamp_OK
  <2>2. Grown(stamp.age, Old) = stamp.age + 1 /\ stamp.age <= MaxAge
    BY <2>1, Caps DEF Grown, Least
  <2>3. gap <= Budget + Delay + stamp.age
    BY <1>1, <2>1, <2>2 DEF GapStamp, Healthy
  <2>4. gap' <= Budget + Delay + (stamp.age + 1)
    BY <1>2, <2>3
  <2> QED BY <2>1, <2>2, <2>4
<1>6. poller'.next = poller.next - 1 /\ poller'.up = Grown(poller.up, Up)
  BY Parts DEF Tick, Poller_OK
<1>7. Grown(poller.up, Up) \in 0 .. Up /\ Grown(poller.up, Up) <= poller.up + 1
  <2>1. Up \in Nat /\ poller.up \in 0 .. Up
    BY Caps
  <2> QED BY ONLY <2>1, GrownType
<1>8. \/ gap' <= Budget + Delay + MaxAge + Interval - (poller.next - 1)
      \/ Grown(poller.up, Up) < Holdoff + Grace + Interval - (poller.next - 1)
  BY <1>1, <1>2, <1>7 DEF GapPoller
<1>9. GapPoller'
  BY <1>1, <1>6, <1>8 DEF GapPoller
<1>10. GapCovered'
  <2>1. poller.next - 1 >= -Round
    <3>1. poller.next \in -Round .. Holdoff + Interval /\ poller.next > -Round
      BY Parts DEF Tick, Quiet, Poller_OK
    <3> QED BY <3>1
  <2>2. gap' <= Covered \/ Grown(poller.up, Up) < Up
    BY <1>2, <1>7, <1>8, <2>1, Caps DEF Up
  <2> QED BY <1>2, <1>6, <2>2, Caps DEF GapCovered
<1> QED BY <1>3, <1>4, <1>5, <1>9, <1>10

LEMMA GapInit == Init => GapInv
<1> SUFFICES ASSUME Init PROVE GapInv
  OBVIOUS
<1>1. /\ ses = "away" /\ gap = 0 /\ Pending = 0 /\ DOMAIN pool = {}
      /\ stamp.age = Old /\ poller.up = 0 /\ poller.next = Holdoff
  BY DEF Init, Pending, Starting
<1>2. GapStamp
  BY <1>1, Caps DEF GapStamp, Healthy
<1>3. GapPoller /\ GapCovered
  BY <1>1, Caps DEF GapPoller, GapCovered
<1> QED BY <1>1, <1>2, <1>3 DEF GapInv, GapSession, GapPool

LEMMA GapStep == ~Flaps /\ TypeOK /\ GapInv /\ [Next]_vars => GapInv'
<1> SUFFICES ASSUME ~Flaps, TypeOK, GapInv, [Next]_vars PROVE GapInv'
  OBVIOUS
<1>0. TypeOK'
  BY FallbackTypes
<1>1. CASE UNCHANGED vars
  BY <1>1 DEF vars, GapInv, GapSession, GapPool, GapStamp, GapPoller, GapCovered, Pending, Healthy
<1> QED BY <1>0, <1>1, SessionGap, PoolGap, PollerGap, TickGap DEF Next

(* When no connection is lost before its first receive, no gap outgrows the *)
(* replay's budget, a stamp, the window and a period of the fetch, once the *)
(* poller is past its start.                                                *)
THEOREM GapIsCovered == ~Flaps /\ Spec => []GapCovered
<1> SUFFICES ASSUME ~Flaps PROVE Spec => []GapCovered
  OBVIOUS
<1>1. GapInv => GapCovered
  BY DEF GapInv
<1>2. TypeOK /\ GapInv /\ [Next]_vars => GapInv'
  BY GapStep
<1> QED BY <1>1, <1>2, FallbackInit, FallbackTypes, GapInit, PTL DEF Spec

-----------------------------------------------------------------------------
(* A restart of both.  What the row and the stamps know since the poller    *)
(* started, a session that was there since has told them.                   *)

Told == /\ Connected => joined
        /\ stamp.since => joined
        /\ \A i \in DOMAIN pool : /\ pool[i].op = "healthy" => joined
                                  /\ pool[i].at = "ready" /\ pool[i].since => joined

LEMMA ToldStep ==
    ASSUME TypeOK, Told, [Next]_vars
    PROVE  Told'
<1>1. CASE Session
  <2>1. UNCHANGED stamp /\ (joined => joined') /\ (Connected' => joined')
    BY <1>1 DEF Told, Connected, Session, Hold, LetGo, ConnectFails, Connect, FirstReceive, ReplayPause,
           ReplayResume, Suspend, Resume, Beat, Lost, Crash, Restart, Drains
  <2>2. PICK op \in Ops : Submits(op) /\ (op = "healthy" => joined')
    <3>1. CASE Connect \/ Resume \/ Beat
      <4>1. Submits("healthy") /\ joined'
        BY <3>1 DEF Told, Connected, Connect, Resume, Beat, Beating, Submits
      <4> QED BY <4>1 DEF Ops
    <3>2. CASE ~Connect /\ ~Resume /\ ~Beat
      <4>1. Submits("down")
        BY <1>1, <3>2 DEF Session, Hold, LetGo, ConnectFails, FirstReceive, ReplayPause, ReplayResume,
           Suspend, Lost, Crash, Restart, Submits
      <4> QED BY <4>1 DEF Ops
    <3> QED BY <3>1, <3>2
  <2>3. Came(op)
    BY <2>2, PoolChange, Parts
  <2>4. ASSUME NEW k \in DOMAIN pool'
        PROVE  /\ pool'[k].op = "healthy" => joined'
               /\ pool'[k].at = "ready" /\ pool'[k].since => joined'
    <3>1. CASE pool'[k] = New(op)
      BY <2>2, <3>1 DEF New
    <3>2. CASE \E j \in DOMAIN pool : pool'[k] = pool[j]
      BY <2>1, <3>2 DEF Told
    <3> QED BY <2>3, <3>1, <3>2 DEF Came
  <2> QED BY <2>1, <2>4 DEF Told
<1>2. CASE Pool
  <2> PICK i \in Taken : Take(i) \/ Commit(i) \/ StampFails(i)
    BY <1>2 DEF Pool
  <2>0. i \in DOMAIN pool
    <3>1. DOMAIN pool = 1 .. Len(pool) /\ Len(pool) \in Nat
      BY PoolShape, Parts
    <3> QED BY <3>1 DEF Taken, Least
  <2>1. UNCHANGED <<ses, joined>>
    BY DEF Take, Commit, StampFails
  <2>2. CASE Take(i)
    <3>1. /\ DOMAIN pool' = DOMAIN pool
          /\ \A k \in DOMAIN pool \ {i} : pool'[k] = pool[k]
          /\ pool'[i].op = pool[i].op /\ pool'[i].since = Read(pool[i].op).since
      <4>1. /\ DOMAIN pool' = DOMAIN pool
            /\ \A k \in DOMAIN pool \ {i} : pool'[k] = pool[k]
            /\ pool'[i] = [op |-> pool[i].op, wait |-> pool[i].wait, at |-> "ready",
                           age |-> Read(pool[i].op).age, since |-> Read(pool[i].op).since]
        BY <2>2, Took
      <4>2. pool'[i].op = pool[i].op /\ pool'[i].since = Read(pool[i].op).since
        BY <4>1
      <4> QED BY <4>1, <4>2
    <3>2. Read(pool[i].op).since => joined
      BY <2>0 DEF Read, Told
    <3> QED BY <2>1, <2>2, <3>1, <3>2 DEF Told, Connected, Take
  <2>3. CASE Commit(i) \/ StampFails(i)
    <3>1. \A k \in DOMAIN pool' : \E j \in DOMAIN pool : pool'[k] = pool[j]
      BY <2>3, Removed, Parts DEF Commit, StampFails
    <3>2. stamp'.since => joined
      BY <2>0, <2>3 DEF Commit, StampFails, Told
    <3> QED BY <2>1, <3>1, <3>2 DEF Told, Connected
  <2> QED BY <2>2, <2>3
<1>3. CASE Defer \/ Stale \/ Unread \/ Graced \/ Fetch \/ UNCHANGED vars
  BY <1>3 DEF Told, Connected, Defer, Stale, Unread, Graced, Fetch, vars
<1>4. CASE PollerRestart
  <2>1. /\ DOMAIN pool' = DOMAIN pool
        /\ \A k \in DOMAIN pool : /\ pool'[k].op = pool[k].op /\ pool'[k].at = pool[k].at
                                  /\ pool[k].at = "ready" => ~pool'[k].since
    BY <1>4, Restarted
  <2>2. ses' = ses /\ ~stamp'.since
    BY <1>4, Parts DEF PollerRestart, Stamp_OK
  <2>3. joined' = (Connected \/ \E k \in DOMAIN pool : pool[k].op = "healthy")
    BY <1>4 DEF PollerRestart
  <2>4. ASSUME NEW k \in DOMAIN pool'
        PROVE  /\ pool'[k].op = "healthy" => joined'
               /\ ~(pool'[k].at = "ready" /\ pool'[k].since)
    BY <2>1, <2>3
  <2> QED BY <2>2, <2>3, <2>4 DEF Told, Connected
<1>5. CASE Tick
  <2>1. /\ DOMAIN pool' = DOMAIN pool
        /\ \A k \in DOMAIN pool : /\ pool'[k].op = pool[k].op /\ pool'[k].at = pool[k].at
                                  /\ pool[k].at = "ready" => pool'[k].since = pool[k].since
    BY <1>5, Ticked
  <2>2. UNCHANGED <<ses, joined>> /\ stamp'.since = stamp.since
    BY <1>5, Parts DEF Tick, Stamp_OK
  <2>3. ASSUME NEW k \in DOMAIN pool'
        PROVE  /\ pool'[k].op = "healthy" => joined'
               /\ pool'[k].at = "ready" /\ pool'[k].since => joined'
    BY <2>1, <2>2 DEF Told
  <2> QED BY <2>2, <2>3 DEF Told, Connected
<1> QED BY <1>1, <1>2, <1>3, <1>4, <1>5 DEF Next, Poller

(* Before its grace is over the poller stands in only for a session that    *)
(* has been there since the poller started.                                 *)
THEOREM RestartIsQuiet == Spec => ShedIsQuiet
<1>1. Init => Told
  BY DEF Init, Told, Connected
<1>2. TypeOK /\ Told /\ [Next]_vars => Told'
  BY ToldStep
<1>3. Told /\ [Next]_vars => [(Fetch /\ poller.up < Holdoff + Grace) => joined]_vars
  BY DEF Told, Fetch, InGrace
<1> QED BY <1>1, <1>2, <1>3, FallbackInit, FallbackTypes, PTL DEF Spec, ShedIsQuiet
=============================================================================
