-------------------------- MODULE TfrAlerts_proofs --------------------------
(***************************************************************************)
(* Proofs about the dedup file and the alerts that go through it.           *)
(*                                                                          *)
(* First the file, for any processes, slots, contents and retention (no     *)
(* step of this part uses TfrAssumption): the file and the copies have      *)
(* their types; a copy that would be served is the file, unless two         *)
(* replaces fall in one tick of the file system; and then questions and     *)
(* records are those of one shared map.                                     *)
(*                                                                          *)
(* Then, for any TFRs, texts, faults and hours: the alerts use the file as  *)
(* PushDedup says, so what is proved of that file holds of it here; nothing *)
(* counts as given that was neither sent nor silenced; a window correction  *)
(* goes out once; a text goes out once per retention; and what stood in the *)
(* list before the rollout is not sent.                                     *)
(***************************************************************************)
EXTENDS TfrAlerts, TLAPS

-----------------------------------------------------------------------------
(* The dedup file.                                                          *)

(* What a call carries at each of its points.                               *)
LEMMA CallShape ==
    ASSUME NEW c \in Calls
    PROVE  /\ c.at \in {"idle", "stat", "told", "read", "lock", "write", "restat"}
           /\ c.at \in {"stat", "told"} =>
                c \in [at : {"stat", "told"}, key : Keys, hash : Hashes, periodic : BOOLEAN, push : BOOLEAN]
           /\ c.at = "read" =>
                c \in [at : {"read"}, key : Keys, hash : Hashes, periodic : BOOLEAN, current : BOOLEAN]
           /\ c.at = "lock" => c \in [at : {"lock"}, key : Keys, entry : Entries]
           /\ c.at \in {"write", "restat"} =>
                c \in [at : {"write", "restat"}, key : Keys, entry : Entries, dict : Dicts]
  BY DEF Calls, AskCalls, RecordCalls, Idle

LEMMA ForgottenIsRecord == Forgotten \in Records
  BY DedupAssumption DEF Forgotten, Records

LEMMA EntryIsRecord == ASSUME NEW e \in Entries PROVE e \in Records
  BY DedupAssumption DEF Entries, Records

LEMMA EmptyIsDict == Empty \in Dicts
  BY ForgottenIsRecord DEF Empty, Dicts

LEMMA MergedIsDict ==
    ASSUME NEW d \in Dicts, NEW k \in Keys, NEW e \in Entries
    PROVE  Merged(d, k, e) \in Dicts
  BY ForgottenIsRecord, EntryIsRecord DEF Merged, Dicts

LEMMA ToldIsCall ==
    ASSUME NEW k \in Keys, NEW h \in Hashes, NEW b \in BOOLEAN, NEW d \in Dicts
    PROVE  Told(k, h, b, d) \in Calls
<1>1. /\ ShouldPush(d[k], h, now) \in BOOLEAN
      /\ PeriodicPush(d[k], h, now) \in BOOLEAN
  BY DEF ShouldPush, PeriodicPush
<1> QED
  BY <1>1 DEF Told, Calls, AskCalls

-----------------------------------------------------------------------------
(* A step that gives one process a call, or none, and leaves the file be.   *)
LEMMA CallGiven ==
    ASSUME DedupTypeOK, NEW p \in Procs, NEW c \in Calls, call' = [call EXCEPT ![p] = c]
    PROVE  call' \in [Procs -> Calls]
  BY DEF DedupTypeOK

LEMMA IdleIsCall == Idle \in Calls
  BY DEF Calls

LEMMA UnloadedIsCache == Unloaded \in [view : Dicts, current : BOOLEAN]
  BY EmptyIsDict DEF Unloaded

(* Each action keeps the types.                                             *)
LEMMA DedupTypeStep == DedupTypeOK /\ [DedupNext]_dvars => DedupTypeOK'
<1> SUFFICES ASSUME DedupTypeOK, [DedupNext]_dvars PROVE DedupTypeOK'
  OBVIOUS
<1> USE DedupAssumption
<1>1. CASE Tick
  BY <1>1 DEF Tick, DedupTypeOK
<1>2. ASSUME NEW p \in Procs, Hit(p) PROVE DedupTypeOK'
  <2>1. call[p] \in [at : {"stat", "told"}, key : Keys, hash : Hashes, periodic : BOOLEAN, push : BOOLEAN]
    BY <1>2, CallShape DEF Hit, DedupTypeOK
  <2>2. Told(call[p].key, call[p].hash, call[p].periodic, cache[p].view) \in Calls
    BY <2>1, ToldIsCall DEF DedupTypeOK
  <2> QED BY <1>2, <2>2, CallGiven DEF Hit, DedupTypeOK
<1>3. ASSUME NEW p \in Procs, Miss(p) PROVE DedupTypeOK'
  <2>1. call[p] \in [at : {"stat", "told"}, key : Keys, hash : Hashes, periodic : BOOLEAN, push : BOOLEAN]
    BY <1>3, CallShape DEF Miss, DedupTypeOK
  <2>2. [at |-> "read", key |-> call[p].key, hash |-> call[p].hash,
         periodic |-> call[p].periodic, current |-> TRUE] \in Calls
    BY <2>1 DEF Calls, AskCalls
  <2> QED BY <1>3, <2>2, CallGiven DEF Miss, DedupTypeOK
<1>4. ASSUME NEW p \in Procs, Reload(p) PROVE DedupTypeOK'
  <2>1. call[p] \in [at : {"read"}, key : Keys, hash : Hashes, periodic : BOOLEAN, current : BOOLEAN]
    BY <1>4, CallShape DEF Reload, DedupTypeOK
  <2>2. Told(call[p].key, call[p].hash, call[p].periodic, disk) \in Calls
    BY <2>1, ToldIsCall DEF DedupTypeOK
  <2>3. cache' \in [Procs -> [view : Dicts, current : BOOLEAN]]
    BY <1>4, <2>1 DEF Reload, DedupTypeOK
  <2> QED BY <1>4, <2>2, <2>3, CallGiven DEF Reload, DedupTypeOK
<1>5. ASSUME NEW p \in Procs, Return(p) PROVE DedupTypeOK'
  BY <1>5, IdleIsCall, CallGiven DEF Return, DedupTypeOK
<1>6. ASSUME NEW p \in Procs, NEW k \in Keys, NEW h \in Hashes, NEW b \in BOOLEAN, Ask(p, k, h, b)
      PROVE DedupTypeOK'
  <2>1. [at |-> "stat", key |-> k, hash |-> h, periodic |-> b, push |-> FALSE] \in Calls
    BY DEF Calls, AskCalls
  <2> QED BY <1>6, <2>1, CallGiven DEF Ask, DedupTypeOK
<1>7. ASSUME NEW p \in Procs, NEW k \in Keys, NEW h \in Hashes, Record(p, k, h) PROVE DedupTypeOK'
  <2>1. [at |-> "lock", key |-> k, entry |-> [ts |-> now, hash |-> h]] \in Calls
    BY DEF Calls, RecordCalls, Entries, DedupTypeOK
  <2> QED BY <1>7, <2>1, CallGiven DEF Record, DedupTypeOK
<1>8. ASSUME NEW p \in Procs, Take(p) PROVE DedupTypeOK'
  <2>1. call[p] \in [at : {"lock"}, key : Keys, entry : Entries]
    BY <1>8, CallShape DEF Take, DedupTypeOK
  <2>2. Merged(disk, call[p].key, call[p].entry) \in Dicts
    BY <2>1, MergedIsDict DEF DedupTypeOK
  <2>3. [at |-> "write", key |-> call[p].key, entry |-> call[p].entry,
         dict |-> Merged(disk, call[p].key, call[p].entry)] \in Calls
    BY <2>1, <2>2 DEF Calls, RecordCalls
  <2> QED BY <1>8, <2>3, CallGiven DEF Take, DedupTypeOK
<1>9. ASSUME NEW p \in Procs, Replace(p) PROVE DedupTypeOK'
  <2>1. call[p] \in [at : {"write", "restat"}, key : Keys, entry : Entries, dict : Dicts]
    BY <1>9, CallShape DEF Replace, DedupTypeOK
  <2>2. PICK moved \in BOOLEAN :
          /\ cache' = [q \in Procs |-> [cache[q] EXCEPT !.current = @ /\ ~moved]]
          /\ call' = [q \in Procs |->
                        IF q = p THEN [call[q] EXCEPT !.at = "restat"]
                        ELSE IF call[q].at = "read" THEN [call[q] EXCEPT !.current = @ /\ ~moved]
                        ELSE call[q]]
    BY <1>9 DEF Replace
  <2>3. ASSUME NEW q \in Procs PROVE [cache[q] EXCEPT !.current = @ /\ ~moved] \in [view : Dicts, current : BOOLEAN]
    BY DEF DedupTypeOK
  <2>4. ASSUME NEW q \in Procs PROVE call'[q] \in Calls
    <3>1. CASE q = p
      BY <2>1, <2>2, <3>1 DEF Calls, RecordCalls
    <3>2. CASE q # p /\ call[q].at = "read"
      <4>1. call[q] \in [at : {"read"}, key : Keys, hash : Hashes, periodic : BOOLEAN, current : BOOLEAN]
        BY <3>2, CallShape DEF DedupTypeOK
      <4>2. [call[q] EXCEPT !.current = @ /\ ~moved]
              \in [at : {"read"}, key : Keys, hash : Hashes, periodic : BOOLEAN, current : BOOLEAN]
        BY <4>1
      <4> QED BY <2>2, <3>2, <4>2 DEF Calls, AskCalls
    <3>3. CASE q # p /\ call[q].at # "read"
      BY <2>2, <3>3 DEF DedupTypeOK
    <3> QED BY <3>1, <3>2, <3>3
  <2>5. disk' \in Dicts
    BY <1>9, <2>1 DEF Replace
  <2>6. cache' \in [Procs -> [view : Dicts, current : BOOLEAN]]
    BY <2>2, <2>3
  <2>7. call' \in [Procs -> Calls]
    BY <2>2, <2>4
  <2> QED BY <1>9, <2>5, <2>6, <2>7 DEF Replace, DedupTypeOK
<1>10. ASSUME NEW p \in Procs, Restat(p) PROVE DedupTypeOK'
  <2>1. call[p] \in [at : {"write", "restat"}, key : Keys, entry : Entries, dict : Dicts]
    BY <1>10, CallShape DEF Restat, DedupTypeOK
  <2>2. cache' \in [Procs -> [view : Dicts, current : BOOLEAN]]
    BY <1>10, <2>1 DEF Restat, DedupTypeOK
  <2> QED BY <1>10, <2>2, IdleIsCall, CallGiven DEF Restat, DedupTypeOK
<1>11. ASSUME NEW p \in Procs, Die(p) PROVE DedupTypeOK'
  <2>1. cache' \in [Procs -> [view : Dicts, current : BOOLEAN]]
    BY <1>11, UnloadedIsCache DEF Die, DedupTypeOK
  <2> QED BY <1>11, <2>1, IdleIsCall, CallGiven DEF Die, DedupTypeOK
<1>12. ASSUME NEW p \in Procs, Abandon(p) PROVE DedupTypeOK'
  BY <1>12, IdleIsCall, CallGiven DEF Abandon, DedupTypeOK
<1>13. CASE UNCHANGED dvars
  BY <1>13 DEF dvars, DedupTypeOK
<1> QED
  BY <1>1, <1>2, <1>3, <1>4, <1>5, <1>6, <1>7, <1>8, <1>9, <1>10, <1>11, <1>12, <1>13
     DEF DedupNext, DedupStep

LEMMA DedupTypeInit == DedupInit => DedupTypeOK
<1> SUFFICES ASSUME DedupInit PROVE DedupTypeOK
  OBVIOUS
<1>1. disk \in Dicts
  BY DedupAssumption, ForgottenIsRecord DEF DedupInit, Dicts, Records
<1> QED BY <1>1, DedupAssumption, UnloadedIsCache, IdleIsCall DEF DedupInit, DedupTypeOK

(* The file, the copies and the calls stay well typed, however many         *)
(* processes share the file.                                                *)
THEOREM DedupTypeCorrect == DedupSpec => []DedupTypeOK
  BY DedupTypeInit, DedupTypeStep, PTL DEF DedupSpec

-----------------------------------------------------------------------------
(* CacheFresh, process by process.                                          *)
Fresh(p) == cache[p].current => cache[p].view = disk

Writing(p) ==
    /\ call[p].at \in {"lock", "write"} => call[p].entry.ts <= now
    /\ call[p].at \in {"write", "restat"} => flock = p
    /\ call[p].at = "write" =>
         /\ call[p].dict[call[p].key] = call[p].entry
         /\ \A j \in Keys \ {call[p].key} :
               \/ call[p].dict[j] = disk[j]
               \/ call[p].dict[j] = Forgotten /\ now - disk[j].ts > Retention
    /\ call[p].at = "restat" => call[p].dict = disk

LEMMA FreshByProcess == CacheFresh <=> \A p \in Procs : Fresh(p) /\ Writing(p)
  BY DEF CacheFresh, Fresh, Writing

(* A step that gives one process a call that holds nothing of the file, and *)
(* leaves the file, the clock and the others' lock alone.                   *)
LEMMA CallKeepsFresh ==
    ASSUME DedupTypeOK, CacheFresh, NEW p \in Procs,
           call'[p].at \in {"idle", "stat", "told", "read"},
           \A q \in Procs \ {p} : call'[q] = call[q],
           disk' = disk, now' = now,
           flock' = flock \/ flock = p,
           \A q \in Procs : cache'[q] = cache[q] \/ Fresh(q)'
    PROVE  CacheFresh'
<1> SUFFICES ASSUME NEW q \in Procs PROVE Fresh(q)' /\ Writing(q)'
  BY DEF CacheFresh, Fresh, Writing
<1>1. Fresh(q)'
  BY DEF CacheFresh, Fresh
<1>2. CASE q = p
  BY <1>1, <1>2 DEF Writing, DedupTypeOK
<1>3. CASE q # p
  <2>1. call'[q] = call[q]
    BY <1>3 DEF DedupTypeOK
  <2>2. Writing(q)
    BY FreshByProcess
  <2>3. call[q].at \in {"write", "restat"} => flock' = q
    BY <1>3, <2>2 DEF Writing
  <2> QED BY <1>1, <2>1, <2>2, <2>3 DEF Writing
<1> QED BY <1>2, <1>3

(* If no two replaces fall in one tick, each action keeps every copy that   *)
(* would be served equal to the file.                                       *)
LEMMA CacheFreshStep ==
    ASSUME ~Coarse, DedupTypeOK, CacheFresh, [DedupNext]_dvars
    PROVE  CacheFresh'
<1> USE DedupAssumption
<1>1. CASE Tick
  <2> SUFFICES ASSUME NEW q \in Procs PROVE Fresh(q)' /\ Writing(q)'
    BY DEF CacheFresh, Fresh, Writing
  <2>1. Fresh(q) /\ Writing(q)
    BY FreshByProcess
  <2>2. Fresh(q)'
    BY <1>1, <2>1 DEF Tick, Fresh
  <2>3. ASSUME call[q].at \in {"lock", "write"} PROVE call[q].entry.ts \in Nat
    BY <2>3, CallShape DEF DedupTypeOK, Entries
  <2>4. \A j \in Keys : disk[j].ts \in Nat
    BY DEF DedupTypeOK, Dicts, Records
  <2>5. /\ now \in Nat /\ now' = now + 1 /\ disk' = disk /\ call' = call /\ flock' = flock
        /\ Retention \in Nat
    BY <1>1 DEF Tick, DedupTypeOK
  <2>6. ASSUME call[q].at = "write"
        PROVE  \A j \in Keys \ {call[q].key} :
                  \/ call[q].dict[j] = disk[j]
                  \/ call[q].dict[j] = Forgotten /\ now' - disk[j].ts > Retention
    <3>1. ASSUME NEW j \in Keys, now - disk[j].ts > Retention PROVE now' - disk[j].ts > Retention
      <4> DEFINE e == disk[j].ts
      <4>1. e \in Int /\ now - e > Retention
        BY <2>4, <3>1
      <4> HIDE DEF e
      <4>2. now' - e > Retention
        BY <2>5, <4>1
      <4> QED BY <4>2 DEF e
    <3> QED BY <2>1, <2>6, <3>1 DEF Writing
  <2>7. Writing(q)'
    <3>1. call[q].at \in {"lock", "write"} => call[q].entry.ts <= now'
      <4> DEFINE e == call[q].entry.ts
      <4>1. call[q].at \in {"lock", "write"} => e \in Nat /\ e <= now
        BY <2>1, <2>3 DEF Writing
      <4> HIDE DEF e
      <4>2. call[q].at \in {"lock", "write"} => e <= now'
        BY <2>5, <4>1
      <4> QED BY <4>2 DEF e
    <3>2. /\ call[q].at \in {"write", "restat"} => flock = q
          /\ call[q].at = "write" => call[q].dict[call[q].key] = call[q].entry
          /\ call[q].at = "restat" => call[q].dict = disk
      BY <2>1 DEF Writing
    <3> HIDE <2>1
    <3> QED BY <2>5, <2>6, <3>1, <3>2, Zenon DEF Writing
  <2> QED BY <2>2, <2>7
<1>2. ASSUME NEW p \in Procs, Hit(p) \/ Miss(p) PROVE CacheFresh'
  <2>1. call'[p].at \in {"told", "read"} /\ \A q \in Procs \ {p} : call'[q] = call[q]
    BY <1>2 DEF Hit, Miss, Told, DedupTypeOK
  <2> QED BY <1>2, <2>1, CallKeepsFresh DEF Hit, Miss
<1>3. ASSUME NEW p \in Procs, Reload(p) PROVE CacheFresh'
  <2>1. ASSUME NEW q \in Procs PROVE cache'[q] = cache[q] \/ Fresh(q)'
    BY <1>3 DEF Reload, Fresh, DedupTypeOK
  <2>2. call'[p].at = "told" /\ \A q \in Procs \ {p} : call'[q] = call[q]
    BY <1>3 DEF Reload, Told, DedupTypeOK
  <2> QED BY <1>3, <2>1, <2>2, CallKeepsFresh DEF Reload
<1>4. ASSUME NEW p \in Procs, Return(p) \/ Abandon(p) PROVE CacheFresh'
  <2>1. call'[p].at = "idle" /\ \A q \in Procs \ {p} : call'[q] = call[q]
    BY <1>4 DEF Return, Abandon, Idle, DedupTypeOK
  <2> QED BY <1>4, <2>1, CallKeepsFresh DEF Return, Abandon
<1>5. ASSUME NEW p \in Procs, NEW k \in Keys, NEW h \in Hashes, NEW b \in BOOLEAN, Ask(p, k, h, b)
      PROVE CacheFresh'
  <2>1. call'[p].at = "stat" /\ \A q \in Procs \ {p} : call'[q] = call[q]
    BY <1>5 DEF Ask, DedupTypeOK
  <2> QED BY <1>5, <2>1, CallKeepsFresh DEF Ask
<1>6. ASSUME NEW p \in Procs, Die(p) PROVE CacheFresh'
  <2>1. ASSUME NEW q \in Procs PROVE cache'[q] = cache[q] \/ Fresh(q)'
    BY <1>6 DEF Die, Fresh, Unloaded, DedupTypeOK
  <2>2. call'[p].at = "idle" /\ \A q \in Procs \ {p} : call'[q] = call[q]
    BY <1>6 DEF Die, Idle, DedupTypeOK
  <2> QED BY <1>6, <2>1, <2>2, CallKeepsFresh DEF Die
<1>7. ASSUME NEW p \in Procs, NEW k \in Keys, NEW h \in Hashes, Record(p, k, h) PROVE CacheFresh'
  <2> SUFFICES ASSUME NEW q \in Procs PROVE Fresh(q)' /\ Writing(q)'
    BY DEF CacheFresh, Fresh, Writing
  <2>1. Fresh(q) /\ Writing(q)
    BY FreshByProcess
  <2>2. CASE q = p
    BY <1>7, <2>1, <2>2 DEF Record, Fresh, Writing, DedupTypeOK
  <2>3. CASE q # p
    BY <1>7, <2>1, <2>3 DEF Record, Fresh, Writing, DedupTypeOK
  <2> QED BY <2>2, <2>3
<1>8. ASSUME NEW p \in Procs, Take(p) PROVE CacheFresh'
  <2> SUFFICES ASSUME NEW q \in Procs PROVE Fresh(q)' /\ Writing(q)'
    BY DEF CacheFresh, Fresh, Writing
  <2>1. Fresh(q) /\ Writing(q)
    BY FreshByProcess
  <2>2. Fresh(q)'
    BY <1>8, <2>1 DEF Take, Fresh
  <2>3. CASE q = p
    <3>1. call[p] \in [at : {"lock"}, key : Keys, entry : Entries]
      BY <1>8, CallShape DEF Take, DedupTypeOK
    <3>2. call'[p] = [at |-> "write", key |-> call[p].key, entry |-> call[p].entry,
                      dict |-> Merged(disk, call[p].key, call[p].entry)]
      BY <1>8 DEF Take, DedupTypeOK
    <3>3. ASSUME NEW j \in Keys \ {call[p].key}
          PROVE  \/ Merged(disk, call[p].key, call[p].entry)[j] = disk[j]
                 \/ /\ Merged(disk, call[p].key, call[p].entry)[j] = Forgotten
                    /\ now - disk[j].ts > Retention
      <4>1. disk[j].ts \in Nat /\ now \in Nat /\ Retention \in Nat
        BY DEF DedupTypeOK, Dicts, Records
      <4> QED BY <4>1 DEF Merged
    <3>4. Merged(disk, call[p].key, call[p].entry)[call[p].key] = call[p].entry
      BY <3>1 DEF Merged
    <3>5. flock' = p /\ now' = now /\ disk' = disk /\ call[p].entry.ts <= now
      BY <1>8, <2>1, <2>3 DEF Take, Writing
    <3> QED BY <2>2, <2>3, <3>2, <3>3, <3>4, <3>5 DEF Writing
  <2>4. CASE q # p
    BY <1>8, <2>1, <2>2, <2>4 DEF Take, Writing, DedupTypeOK
  <2> QED BY <2>3, <2>4
<1>9. ASSUME NEW p \in Procs, Replace(p) PROVE CacheFresh'
  <2> SUFFICES ASSUME NEW q \in Procs PROVE Fresh(q)' /\ Writing(q)'
    BY DEF CacheFresh, Fresh, Writing
  <2>1. Writing(q) /\ Writing(p)
    BY FreshByProcess
  <2>2. /\ cache' = [r \in Procs |-> [cache[r] EXCEPT !.current = @ /\ ~TRUE]]
        /\ call' = [r \in Procs |->
                       IF r = p THEN [call[r] EXCEPT !.at = "restat"]
                       ELSE IF call[r].at = "read" THEN [call[r] EXCEPT !.current = @ /\ ~TRUE]
                       ELSE call[r]]
    BY <1>9 DEF Replace
  <2>3. Fresh(q)'
    BY <2>2 DEF Fresh, DedupTypeOK
  <2>4. CASE q = p
    <3>1. call[p] \in [at : {"write", "restat"}, key : Keys, entry : Entries, dict : Dicts]
      BY <1>9, CallShape DEF Replace, DedupTypeOK
    <3>2. call'[p].at = "restat" /\ call'[p].dict = call[p].dict
      BY <2>2, <3>1
    <3> QED BY <1>9, <2>1, <2>3, <2>4, <3>2 DEF Replace, Writing
  <2>5. CASE q # p
    <3>1. call[q].at \notin {"write", "restat"}
      BY <1>9, <2>1, <2>5 DEF Replace, Writing
    <3>2. CASE call[q].at = "read"
      <4>1. call[q] \in [at : {"read"}, key : Keys, hash : Hashes, periodic : BOOLEAN, current : BOOLEAN]
        BY <3>2, CallShape DEF DedupTypeOK
      <4>2. call'[q].at = "read"
        BY <2>2, <2>5, <3>2, <4>1
      <4> QED BY <2>3, <4>2 DEF Writing
    <3>3. CASE call[q].at # "read"
      BY <1>9, <2>1, <2>2, <2>3, <2>5, <3>1, <3>3 DEF Replace, Writing
    <3> QED BY <3>2, <3>3
  <2> QED BY <2>4, <2>5
<1>10. ASSUME NEW p \in Procs, Restat(p) PROVE CacheFresh'
  <2>1. Writing(p)
    BY FreshByProcess
  <2>2. ASSUME NEW q \in Procs PROVE cache'[q] = cache[q] \/ Fresh(q)'
    BY <1>10, <2>1 DEF Restat, Fresh, Writing, DedupTypeOK
  <2>3. call'[p].at = "idle" /\ \A q \in Procs \ {p} : call'[q] = call[q]
    BY <1>10 DEF Restat, Idle, DedupTypeOK
  <2>4. flock = p
    BY <1>10, <2>1 DEF Restat, Writing
  <2> QED BY <1>10, <2>2, <2>3, <2>4, CallKeepsFresh DEF Restat
<1>11. CASE UNCHANGED dvars
  BY <1>11 DEF dvars, CacheFresh
<1> QED
  BY <1>1, <1>2, <1>3, <1>4, <1>5, <1>6, <1>7, <1>8, <1>9, <1>10, <1>11 DEF DedupNext, DedupStep

LEMMA CacheFreshInit == DedupInit => CacheFresh
  BY DEF DedupInit, CacheFresh, Idle, Unloaded

(* A copy that would be served is the file, as long as the file system's    *)
(* clock tells two replaces apart.                                          *)
THEOREM CopiesAreFresh == ~Coarse /\ DedupSpec => []CacheFresh
<1>1. DedupInit => DedupTypeOK /\ CacheFresh
  BY DedupTypeInit, CacheFreshInit
<1>2. ~Coarse /\ DedupTypeOK /\ CacheFresh /\ [DedupNext]_dvars => (DedupTypeOK /\ CacheFresh)'
  BY DedupTypeStep, CacheFreshStep
<1>3. CASE ~Coarse
  <2>1. DedupTypeOK /\ CacheFresh /\ [DedupNext]_dvars => (DedupTypeOK /\ CacheFresh)'
    BY <1>2, <1>3
  <2> QED BY <1>1, <2>1, PTL DEF DedupSpec
<1>4. CASE Coarse
  BY <1>4
<1> QED BY <1>3, <1>4

-----------------------------------------------------------------------------
(* The map that PushDedup implements.                                       *)
answers == [p \in Procs |-> Answered(call[p])]

LEMMA MapInitial == DedupInit => Shared!MapInit
  BY DEF DedupInit, Shared!MapInit, Shared!Forgotten, Shared!Unasked, Forgotten, Answered, Idle

(* What a step of p does to p's answer is all that it does to the answers.  *)
LEMMA OnlyAnswer ==
    ASSUME DedupTypeOK, NEW p \in Procs, \A q \in Procs \ {p} : Answered(call'[q]) = Answered(call[q])
    PROVE  answers' = [answers EXCEPT ![p] = Answered(call'[p])]
  BY DEF answers

(* A step that leaves the file and the clock alone and takes p's answer     *)
(* away, or does nothing to it.                                             *)
LEMMA NoNewAnswer ==
    ASSUME DedupTypeOK, NEW p \in Procs, disk' = disk, now' = now,
           \A q \in Procs \ {p} : call'[q] = call[q],
           call'[p].at # "told"
    PROVE  Shared!Done(p) \/ UNCHANGED <<disk, now, answers>>
<1>1. Answered(call'[p]) = [key |-> "none"]
  BY DEF Answered
<1>2. answers' = [answers EXCEPT ![p] = [key |-> "none"]]
  BY <1>1, OnlyAnswer
<1> QED BY <1>2 DEF Shared!Done, Shared!Unasked, answers

(* An answer is given from the file.                                        *)
LEMMA AnswerFromFile ==
    ASSUME DedupTypeOK, NEW p \in Procs, disk' = disk, now' = now,
           NEW k \in Keys, NEW h \in Hashes, NEW b \in BOOLEAN,
           call' = [call EXCEPT ![p] = Told(k, h, b, disk)], call[p].at # "told"
    PROVE  Shared!Answer(p, k, h) \/ UNCHANGED <<disk, now, answers>>
<1>1. /\ call'[p] = Told(k, h, b, disk)
      /\ \A q \in Procs \ {p} : call'[q] = call[q]
  BY DEF DedupTypeOK
<1>2. answers' = [answers EXCEPT ![p] = Answered(Told(k, h, b, disk))]
  BY <1>1, OnlyAnswer
<1>3. CASE b
  <2>1. Answered(Told(k, h, b, disk)) = [key |-> "none"]
    BY <1>3 DEF Answered, Told
  <2>2. answers[p] = [key |-> "none"]
    BY DEF answers, Answered
  <2> QED BY <1>2, <2>1, <2>2 DEF answers
<1>4. CASE ~b
  <2>1. Answered(Told(k, h, b, disk)) =
          [key |-> k, hash |-> h, push |-> Shared!ShouldPush(disk[k], h, now)]
    BY <1>4 DEF Answered, Told, ShouldPush, Shared!ShouldPush
  <2> QED BY <1>2, <2>1 DEF Shared!Answer, answers
<1> QED BY <1>3, <1>4

(* Each step of the processes is a step of the map or a stutter.            *)
LEMMA MapStep ==
    ASSUME ~Coarse, DedupTypeOK, CacheFresh, [DedupNext]_dvars
    PROVE  Shared!MapNext \/ UNCHANGED <<disk, now, answers>>
<1> USE DedupAssumption
<1>1. CASE Tick
  BY <1>1 DEF Tick, Shared!MapNext, Shared!TimePasses, answers
<1>2. ASSUME NEW p \in Procs, Hit(p) PROVE Shared!MapNext \/ UNCHANGED <<disk, now, answers>>
  <2>1. call[p] \in [at : {"stat", "told"}, key : Keys, hash : Hashes, periodic : BOOLEAN, push : BOOLEAN]
    BY <1>2, CallShape DEF Hit, DedupTypeOK
  <2>2. cache[p].view = disk
    BY <1>2 DEF Hit, CacheFresh
  <2>3. Shared!Answer(p, call[p].key, call[p].hash) \/ UNCHANGED <<disk, now, answers>>
    BY <1>2, <2>1, <2>2, AnswerFromFile DEF Hit
  <2> QED BY <2>1, <2>3 DEF Shared!MapNext
<1>3. ASSUME NEW p \in Procs, Reload(p) PROVE Shared!MapNext \/ UNCHANGED <<disk, now, answers>>
  <2>1. call[p] \in [at : {"read"}, key : Keys, hash : Hashes, periodic : BOOLEAN, current : BOOLEAN]
    BY <1>3, CallShape DEF Reload, DedupTypeOK
  <2>2. Shared!Answer(p, call[p].key, call[p].hash) \/ UNCHANGED <<disk, now, answers>>
    BY <1>3, <2>1, AnswerFromFile DEF Reload
  <2> QED BY <2>1, <2>2 DEF Shared!MapNext
<1>4. ASSUME NEW p \in Procs, Miss(p) \/ Return(p) \/ Abandon(p) \/ Die(p) \/ Take(p) \/ Restat(p)
      PROVE  Shared!MapNext \/ UNCHANGED <<disk, now, answers>>
  <2>1. /\ call'[p].at # "told" /\ disk' = disk /\ now' = now
        /\ \A q \in Procs \ {p} : call'[q] = call[q]
    BY <1>4 DEF Miss, Return, Abandon, Die, Take, Restat, Idle, DedupTypeOK
  <2> QED BY <2>1, NoNewAnswer DEF Shared!MapNext
<1>5. ASSUME NEW p \in Procs, NEW k \in Keys, NEW h \in Hashes, Record(p, k, h)
      PROVE  Shared!MapNext \/ UNCHANGED <<disk, now, answers>>
  <2>1. /\ call'[p].at # "told" /\ disk' = disk /\ now' = now
        /\ \A q \in Procs \ {p} : call'[q] = call[q]
    BY <1>5 DEF Record, DedupTypeOK
  <2> QED BY <2>1, NoNewAnswer DEF Shared!MapNext
<1>6. ASSUME NEW p \in Procs, NEW k \in Keys, NEW h \in Hashes, NEW b \in BOOLEAN, Ask(p, k, h, b)
      PROVE  Shared!MapNext \/ UNCHANGED <<disk, now, answers>>
  <2>1. /\ call'[p].at # "told" /\ disk' = disk /\ now' = now
        /\ \A q \in Procs \ {p} : call'[q] = call[q]
    BY <1>6 DEF Ask, DedupTypeOK
  <2> QED BY <2>1, NoNewAnswer DEF Shared!MapNext
<1>7. ASSUME NEW p \in Procs, Replace(p) PROVE Shared!MapNext \/ UNCHANGED <<disk, now, answers>>
  <2>1. call[p] \in [at : {"write", "restat"}, key : Keys, entry : Entries, dict : Dicts]
    BY <1>7, CallShape DEF Replace, DedupTypeOK
  <2>2. Writing(p)
    BY FreshByProcess
  <2>3. ASSUME NEW q \in Procs PROVE Answered(call'[q]) = Answered(call[q])
    <3>1. CASE q = p
      <4>1. call'[p].at = "restat"
        BY <1>7, <2>1 DEF Replace
      <4> QED BY <1>7, <3>1, <4>1 DEF Replace, Answered
    <3>2. CASE q # p /\ call[q].at = "read"
      <4>1. call[q] \in [at : {"read"}, key : Keys, hash : Hashes, periodic : BOOLEAN, current : BOOLEAN]
        BY <3>2, CallShape DEF DedupTypeOK
      <4>2. call'[q].at = "read"
        BY <1>7, <3>2, <4>1 DEF Replace
      <4> QED BY <3>2, <4>2 DEF Answered
    <3>3. CASE q # p /\ call[q].at # "read"
      BY <1>7, <3>3 DEF Replace
    <3> QED BY <3>1, <3>2, <3>3
  <2>4. answers' = answers
    BY <2>3 DEF answers
  <2>5. call[p].entry.ts \in 1 .. now /\ call[p].entry = [ts |-> call[p].entry.ts, hash |-> call[p].entry.hash]
    BY <1>7, <2>1, <2>2 DEF Replace, Writing, Entries, DedupTypeOK
  <2>6. \A j \in Keys \ {call[p].key} :
           disk'[j] = disk[j] \/ (disk'[j] = Shared!Forgotten /\ now - disk[j].ts > Retention)
    BY <1>7, <2>2 DEF Replace, Writing, Forgotten, Shared!Forgotten
  <2>7. Shared!Recorded(call[p].key, call[p].entry.hash)
    BY <1>7, <2>2, <2>4, <2>5, <2>6 DEF Replace, Writing, Shared!Recorded, answers
  <2>8. call[p].key \in Keys /\ call[p].entry.hash \in Hashes
    BY <2>1 DEF Entries
  <2> QED BY <2>7, <2>8 DEF Shared!MapNext
<1>8. CASE UNCHANGED dvars
  BY <1>8 DEF dvars, answers
<1> QED
  BY <1>1, <1>2, <1>3, <1>4, <1>5, <1>6, <1>7, <1>8 DEF DedupNext, DedupStep

(* The processes together behave as one map: nothing recorded is lost to    *)
(* another's write, and every question is answered from what is recorded.   *)
THEOREM OneSharedMap == ~Coarse /\ DedupSpec => ImplementsMap
<1>1. DedupInit => Shared!MapInit /\ DedupTypeOK /\ CacheFresh
  BY MapInitial, DedupTypeInit, CacheFreshInit
<1>2. CASE ~Coarse
  <2>1. DedupTypeOK /\ CacheFresh /\ [DedupNext]_dvars => (DedupTypeOK /\ CacheFresh)'
    BY <1>2, DedupTypeStep, CacheFreshStep
  <2>2. DedupTypeOK /\ CacheFresh /\ [DedupNext]_dvars
          => [Shared!MapNext]_<<disk, now, [p \in Procs |-> Answered(call[p])]>>
    BY <1>2, MapStep DEF answers
  <2> QED BY <1>1, <2>1, <2>2, PTL DEF DedupSpec, ImplementsMap, Shared!MapSpec
<1>3. CASE Coarse
  BY <1>3
<1> QED BY <1>2, <1>3

-----------------------------------------------------------------------------
(* The alerts.                                                              *)

(* What the pusher's loop is at when it goes on to its next function.       *)
LEMMA AtIsJob == ASSUME NEW j \in Jobs PROVE At(j) \in JobStates
  BY DEF At, JobStates, Rows, NoRows

LEMMA FromIsJob ==
    ASSUME NEW done
    PROVE  \A j \in {FromWiden(done), FromCutover(done), FromFix(done), FromBaseline(done)} :
              j \in JobStates /\ j.step = "start" /\ j.left = {}
<1>1. ASSUME NEW j \in Jobs PROVE At(j) \in JobStates /\ At(j).step = "start" /\ At(j).left = {}
  <2>1. At(j).step = "start" /\ At(j).left = {}
    BY DEF At
  <2> QED BY <2>1, AtIsJob
<1> QED BY <1>1 DEF FromWiden, FromCutover, FromFix, FromBaseline, Jobs

LEMMA AfterIsJob ==
    ASSUME NEW done, NEW j \in Jobs
    PROVE  After(j, done) \in JobStates /\ After(j, done).step = "start" /\ After(j, done).left = {}
<1>1. At("push") \in JobStates /\ At("push").step = "start" /\ At("push").left = {}
  <2>1. At("push").step = "start" /\ At("push").left = {}
    BY DEF At
  <2> QED BY <2>1, AtIsJob DEF Jobs
<1> QED BY <1>1, FromIsJob DEF After, Jobs

LEMMA BeginIsJob ==
    ASSUME NEW j \in Jobs, NEW list \in Rows, NEW left \in SUBSET Tfrs, Begin(j, list, left)
    PROVE  job' \in JobStates
<1>1. [t \in Tfrs |-> IF t \in left THEN list[t] ELSE NoRow] \in Rows
  BY DEF Rows
<1> QED BY <1>1 DEF Begin, JobStates

LEMMA LeaveIsJob ==
    ASSUME job \in JobStates, NEW t \in Tfrs, NEW keep \in BOOLEAN, Leave(t, keep)
    PROVE  job' \in JobStates
<1>1. [job.list EXCEPT ![t] = NoRow] \in Rows
  BY DEF JobStates, Rows
<1>2. (IF keep THEN job.kept \cup {t} ELSE job.kept) \in SUBSET Tfrs
  BY DEF JobStates
<1> QED BY <1>1, <1>2 DEF Leave, JobStates

-----------------------------------------------------------------------------
(* The inductive invariant: where the pusher's loop is, it is in a call or  *)
(* not; a call in progress is about the TFR it visits.                      *)
PollListed == poll.at \in {"detail", "upsert"} => \A t \in poll.left : poll.list[t] # NoHash

Asking == {"stat", "told", "read"}

Calling ==
    /\ job.step # "visit" \/ job.at = "fix" => Free
    /\ job.step = "visit" /\ job.at \in {"baseline", "cutover", "push"} => job.left \subseteq Listed(job.list)
    /\ call[Skill].at # "idle" => call[Skill].key = Enrichment
    /\ call[Pusher].at # "idle" => call[Pusher].key \in Tfrs
    /\ call[Pusher].at \in Asking =>
         /\ job.at \in {"cutover", "push"} /\ ~call[Pusher].periodic
         /\ call[Pusher].key \in job.left
         /\ call[Pusher].hash = job.list[call[Pusher].key].text

(* A row of the list under way has a text to record.                        *)
LEMMA ListedText ==
    ASSUME TypeOK, NEW t \in Listed(job.list)
    PROVE  t \in Tfrs /\ t \in Keys /\ t # Enrichment /\ job.list[t].text \in Hashes
  BY TfrAssumption DEF TypeOK, JobStates, Rows, Listed, Row, Texts

LEMMA ReadyIsListed ==
    ASSUME NEW t \in Tfrs, FixReady(t) \/ WidenReady(t)
    PROVE  t \in Listed(job.list)
  BY DEF FixReady, WidenReady, Listed

LEMMA TheProcesses == Pusher \in Procs /\ Skill \in Procs /\ Pusher # Skill /\ Enrichment \in Keys
  BY TfrAssumption

(* Whatever happens, the dedup file and its callers take a step of theirs.  *)
LEMMA DedupPart ==
    ASSUME TypeOK, Calling, [Next]_vars
    PROVE  [DedupNext]_dvars
<1> USE TheProcesses
<1>1. ASSUME NEW t \in Tfrs, BaselineVisit(t) PROVE DedupNext
  <2>1. t \in Listed(job.list)
    BY <1>1 DEF BaselineVisit, Visiting, Calling
  <2> QED BY <1>1, <2>1, ListedText DEF BaselineVisit, DedupNext
<1>2. ASSUME NEW t \in Tfrs, CutoverVisit(t) \/ PushVisit(t) PROVE DedupNext
  <2>1. t \in Listed(job.list)
    BY <1>2 DEF CutoverVisit, PushVisit, Visiting, Calling
  <2> QED BY <1>2, <2>1, ListedText DEF CutoverVisit, PushVisit, AskAbout, DedupNext
<1>3. ASSUME NEW t \in Tfrs, CutoverActs(t) \/ Push(t) \/ Suppressed(t) PROVE DedupNext
  <2>1. t \in Listed(job.list)
    BY <1>3 DEF CutoverActs, Push, Suppressed, Visiting, Calling
  <2>2. Record(Pusher, t, job.list[t].text) \/ Return(Pusher)
    BY <1>3 DEF CutoverActs, Push, Suppressed
  <2> QED BY <2>1, <2>2, ListedText DEF DedupNext
<1>4. ASSUME NEW t \in Tfrs, WidenSend(t) PROVE [DedupNext]_dvars
  <2>1. t \in Listed(job.list)
    BY <1>4, ReadyIsListed DEF WidenSend
  <2>2. Record(Pusher, t, job.list[t].text) \/ UNCHANGED dvars
    BY <1>4 DEF WidenSend
  <2> QED BY <2>1, <2>2, ListedText DEF DedupNext
<1>5. ASSUME NEW t \in Tfrs, FixSkip(t) \/ FixSend(t) \/ WidenSkip(t) PROVE UNCHANGED dvars
  BY <1>5 DEF FixSkip, FixSend, WidenSkip
<1>6. CASE BaselineStart \/ BaselineDone \/ FixStart \/ FixDone \/ CutoverStart \/ CutoverJudge
            \/ CutoverDone \/ WidenStart \/ WidenDone \/ PushStart \/ PushDone
  BY <1>6 DEF BaselineStart, BaselineDone, FixStart, FixDone, CutoverStart, CutoverJudge, CutoverDone,
              WidenStart, WidenDone, PushStart, PushDone
<1>7. CASE SkillStep
  <2>1. CASE SkillAsks
    <3>1. Summary \in Hashes
      BY TfrAssumption DEF Summary
    <3> QED BY <2>1, <3>1 DEF SkillAsks, DedupNext
  <2>2. CASE SkillActs
    <3>1. call[Skill].hash \in Hashes
      BY <2>2, CallShape DEF SkillActs, TypeOK, DedupTypeOK
    <3> QED BY <2>2, <3>1 DEF SkillActs, DedupNext
  <2> QED BY <1>7, <2>1, <2>2 DEF SkillStep
<1>8. CASE PollerStep
  BY <1>8 DEF PollerStep, FetchStart, FetchDetails, Upsert, ExpireTfrs, FetchStamp, FetchFails, PollerRestart
<1>9. CASE World
  BY <1>9 DEF World, FaaChanges, TickTock, DedupNext
<1>10. ASSUME NEW p \in Procs, Dedup(p) PROVE DedupNext
  BY <1>10 DEF Dedup, DedupNext
<1>11. CASE JobFails \/ PusherRestart \/ SkillRestart
  BY <1>11 DEF JobFails, PusherRestart, SkillRestart, DedupNext
<1>12. CASE UNCHANGED vars
  BY <1>12 DEF vars
<1> QED
  BY <1>1, <1>2, <1>3, <1>4, <1>5, <1>6, <1>7, <1>8, <1>9, <1>10, <1>11, <1>12 DEF Next, PusherStep

-----------------------------------------------------------------------------
(* Types, part by part: the file's are kept by DedupPart.                   *)
Polls == [at : {"detail", "upsert", "stamp"}, list : [Tfrs -> MaybeText],
          got : [Tfrs -> MaybeText], left : SUBSET Tfrs, after : BOOLEAN]

World_OK ==
    /\ faa \in [Tfrs -> MaybeText]
    /\ rows \in Rows
    /\ details \in [Tfrs -> [of : MaybeText, text : MaybeText]]
    /\ poll \in {Idle} \cup Polls
    /\ stamped \in BOOLEAN

Files_OK ==
    /\ markers \subseteq Jobs \ {"push"}
    /\ waits \subseteq {"fix", "cutover", "widen"}
    /\ fixIds \subseteq Tfrs
    /\ cutAt \in 0 .. MaxNow

News  == [text : Texts \cup {NoHash}, ts : 0 .. MaxNow, once : SUBSET Senders]
Given_OK ==
    /\ heard \subseteq Tfrs \X Texts
    /\ silenced \subseteq Tfrs \X Texts
    /\ last \in [Tfrs -> News]
    /\ fixed \in [Tfrs -> Nat]

Day_OK == day \in [tfrs : SUBSET Tfrs, news : SUBSET Tfrs, faults : Nat, until : Nat, skill : BOOLEAN]

LEMMA TypeParts ==
    TypeOK <=> DedupTypeOK /\ World_OK /\ Files_OK /\ job \in JobStates /\ Given_OK /\ Day_OK
  BY DEF TypeOK, World_OK, Polls, Files_OK, Given_OK, News, Day_OK

LEMMA TypePartsNext ==
    DedupTypeOK' /\ World_OK' /\ Files_OK' /\ job' \in JobStates /\ Given_OK' /\ Day_OK' => TypeOK'
  BY DEF TypeOK, World_OK, Polls, Files_OK, Given_OK, News, Day_OK

LEMMA WorldStays == World_OK /\ PollListed /\ UNCHANGED wvars => World_OK' /\ PollListed'
  BY DEF World_OK, PollListed, wvars
LEMMA FilesStay == Files_OK /\ UNCHANGED fvars => Files_OK'
  BY DEF Files_OK, fvars
LEMMA GivenStays == Given_OK /\ UNCHANGED gvars => Given_OK'
  BY DEF Given_OK, gvars
LEMMA DayStays == Day_OK /\ UNCHANGED day => Day_OK'
  BY DEF Day_OK

LEMMA FaultyDay == ASSUME TypeOK, Faulty PROVE Day_OK'
<1>1. day.faults - 1 \in Nat
  BY TypeParts DEF Faulty, Day_OK
<1> QED BY <1>1, TypeParts DEF Faulty, Day_OK

LEMMA SentGiven ==
    ASSUME TypeOK, NEW t \in Tfrs, NEW x \in Texts, Sent(t, x)
    PROVE  heard' \subseteq Tfrs \X Texts /\ last' \in [Tfrs -> News]
<1>1. [text |-> x, ts |-> now, once |-> Senders] \in News
  BY DEF News, TypeOK, DedupTypeOK
<1>2. heard \subseteq Tfrs \X Texts /\ last \in [Tfrs -> News]
  BY TypeParts DEF Given_OK
<1> QED BY <1>1, <1>2 DEF Sent

LEMMA UnsureGiven == ASSUME TypeOK, Unsure PROVE last' \in [Tfrs -> News]
<1>1. last \in [Tfrs -> News]
  BY TypeParts DEF Given_OK
<1>2. ASSUME NEW t \in Tfrs
      PROVE  [last[t] EXCEPT !.once = {}] \in News /\ [last[t] EXCEPT !.once = @ \ {"widen"}] \in News
  BY <1>1 DEF News
<1> QED BY <1>1, <1>2 DEF Unsure

(* What the pusher sees of the table is of its rows.                        *)
LEMMA ActiveRow ==
    ASSUME NEW t \in Tfrs
    PROVE  Active[t] = NoRow \/ (Active[t] = rows[t] /\ rows[t] # NoRow)
  BY DEF Active

LEMMA ActiveRows == ASSUME rows \in Rows PROVE Active \in Rows
  BY DEF Active, Rows

(* The steps of the pusher's loop.                                          *)
LEMMA PusherTypes ==
    ASSUME TypeOK, Calling, PusherStep
    PROVE  World_OK' /\ Files_OK' /\ job' \in JobStates /\ Given_OK' /\ Day_OK'
<1> USE TypeParts
<1>0. Active \in Rows /\ job \in JobStates /\ job.list \in Rows /\ job.kept \subseteq Tfrs /\ now \in 0 .. MaxNow
  BY ActiveRows DEF World_OK, JobStates, DedupTypeOK
<1>1. CASE BaselineStart
  <2>1. job' \in JobStates
    BY <1>0, <1>1, BeginIsJob DEF BaselineStart, Jobs, Listed
  <2> QED BY <1>1, <2>1 DEF BaselineStart, wvars, fvars, gvars, World_OK, Files_OK, Given_OK, Day_OK
<1>2. CASE BaselineDone
  BY <1>0, <1>2, FromIsJob DEF BaselineDone, wvars, gvars, World_OK, Files_OK, Given_OK, Day_OK, Jobs
<1>3. CASE FixStart
  <2>1. PICK ids \in SUBSET Tfrs :
          \/ /\ markers' = markers \cup {"fix"}
             /\ job' = FromCutover(markers')
             /\ UNCHANGED <<fixIds, waits>>
          \/ /\ Begin("fix", Active, ids)
             /\ fixIds' = ids /\ waits' = waits \cup {"fix"} /\ UNCHANGED markers
    <3>1. (IF "fix" \in waits THEN fixIds ELSE {t \in Tfrs : cutAt < disk[t].ts}) \in SUBSET Tfrs
      BY DEF Files_OK
    <3> QED BY <1>3, <3>1 DEF FixStart
  <2>2. job' \in JobStates
    BY <1>0, <2>1, BeginIsJob, FromIsJob DEF Jobs
  <2> QED BY <1>3, <2>1, <2>2 DEF FixStart, wvars, gvars, World_OK, Files_OK, Given_OK, Day_OK, Jobs
<1>4. CASE FixDone
  BY <1>0, <1>4, FromIsJob DEF FixDone, wvars, gvars, World_OK, Files_OK, Given_OK, Day_OK, Jobs
<1>5. CASE CutoverStart
  <2>1. job' \in JobStates
    BY <1>0, <1>5 DEF CutoverStart, At, JobStates, Jobs
  <2> QED BY <1>5, <2>1 DEF CutoverStart, gvars, World_OK, Files_OK, Given_OK, Day_OK
<1>6. CASE CutoverJudge
  <2>1. job' \in JobStates
    BY <1>0, <1>6, BeginIsJob, FromIsJob DEF CutoverJudge, Jobs, Listed
  <2> QED BY <1>6, <2>1 DEF CutoverJudge, wvars, fvars, gvars, World_OK, Files_OK, Given_OK, Day_OK
<1>7. CASE CutoverDone
  BY <1>0, <1>7, FromIsJob DEF CutoverDone, wvars, gvars, World_OK, Files_OK, Given_OK, Day_OK, Jobs
<1>8. CASE WidenStart
  <2>1. job' \in JobStates
    BY <1>0, <1>8, BeginIsJob, TfrAssumption DEF WidenStart, Jobs, Tfrs
  <2> QED BY <1>8, <2>1 DEF WidenStart, wvars, gvars, World_OK, Files_OK, Given_OK, Day_OK
<1>9. CASE WidenDone
  BY <1>0, <1>9, AtIsJob DEF WidenDone, wvars, gvars, World_OK, Files_OK, Given_OK, Day_OK, Jobs
<1>10. CASE PushStart
  <2>1. job' \in JobStates
    BY <1>0, <1>10, BeginIsJob DEF PushStart, Jobs, Listed
  <2> QED BY <1>10, <2>1 DEF PushStart, wvars, fvars, gvars, World_OK, Files_OK, Given_OK, Day_OK
<1>11. CASE PushDone
  BY <1>0, <1>11, FromIsJob DEF PushDone, wvars, fvars, gvars, World_OK, Files_OK, Given_OK, Day_OK
<1>12. ASSUME NEW t \in Tfrs,
              BaselineVisit(t) \/ CutoverActs(t) \/ WidenSkip(t) \/ FixSkip(t) \/ Suppressed(t)
       PROVE  World_OK' /\ Files_OK' /\ job' \in JobStates /\ Given_OK' /\ Day_OK'
  <2>1. \E keep \in BOOLEAN : Leave(t, keep)
    BY <1>12 DEF BaselineVisit, CutoverActs, WidenSkip, FixSkip, Suppressed
  <2>2. job' \in JobStates
    BY <1>0, <2>1, LeaveIsJob
  <2> QED BY <1>12, <2>2 DEF BaselineVisit, CutoverActs, WidenSkip, FixSkip, Suppressed,
                             wvars, fvars, gvars, World_OK, Files_OK, Given_OK, Day_OK
<1>13. ASSUME NEW t \in Tfrs, CutoverVisit(t) \/ PushVisit(t)
       PROVE  World_OK' /\ Files_OK' /\ job' \in JobStates /\ Given_OK' /\ Day_OK'
  BY <1>13 DEF CutoverVisit, PushVisit, wvars, fvars, gvars, World_OK, Files_OK, Given_OK, Day_OK
<1>14. ASSUME NEW t \in Tfrs, FixSend(t)
       PROVE  World_OK' /\ Files_OK' /\ job' \in JobStates /\ Given_OK' /\ Day_OK'
  <2>1. job' \in JobStates
    BY <1>0, <1>14, LeaveIsJob DEF FixSend
  <2>2. Day_OK'
    BY <1>14, FaultyDay DEF FixSend, Day_OK
  <2>3. fixed' \in [Tfrs -> Nat]
    <3>1. fixed \in [Tfrs -> Nat] /\ fixed[t] + 1 \in Nat
      BY DEF Given_OK
    <3> QED BY <1>14, <3>1 DEF FixSend
  <2> QED BY <1>14, <2>1, <2>2, <2>3 DEF FixSend, wvars, fvars, World_OK, Files_OK, Given_OK
<1>15. ASSUME NEW t \in Tfrs, WidenSend(t) \/ Push(t)
       PROVE  World_OK' /\ Files_OK' /\ job' \in JobStates /\ Given_OK' /\ Day_OK'
  <2>0. \E keep \in BOOLEAN : Leave(t, keep)
    BY <1>15 DEF WidenSend, Push
  <2>1. job' \in JobStates
    BY <1>0, <2>0, LeaveIsJob
  <2>2. t \in Listed(job.list)
    <3>1. CASE WidenSend(t)
      BY <3>1, ReadyIsListed DEF WidenSend
    <3>2. CASE Push(t)
      BY <3>2 DEF Push, Visiting, Calling
    <3> QED BY <1>15, <3>1, <3>2
  <2>3. \/ Sent(t, job.list[t].text) /\ UNCHANGED day
        \/ UNCHANGED <<heard, last>> /\ Faulty
    <3>1. CASE WidenSend(t)
      BY <3>1 DEF WidenSend
    <3>2. CASE Push(t)
      BY <3>2 DEF Push
    <3> QED BY <1>15, <3>1, <3>2
  <2>4. heard' \subseteq Tfrs \X Texts /\ last' \in [Tfrs -> News]
    BY <2>2, <2>3, ListedText, SentGiven DEF Given_OK, Texts
  <2>5. Day_OK'
    BY <2>3, FaultyDay DEF Day_OK
  <2> QED BY <1>15, <2>1, <2>4, <2>5 DEF WidenSend, Push, wvars, fvars, World_OK, Files_OK, Given_OK
<1> QED
  BY <1>1, <1>2, <1>3, <1>4, <1>5, <1>6, <1>7, <1>8, <1>9, <1>10, <1>11, <1>12, <1>13, <1>14, <1>15
     DEF PusherStep

-----------------------------------------------------------------------------
(* The other steps.                                                         *)
LEMMA PollerTypes ==
    ASSUME TypeOK, PollListed, PollerStep
    PROVE  World_OK' /\ PollListed' /\ Day_OK'
<1> USE TypeParts
<1>0. poll # Idle => poll \in Polls
  BY DEF World_OK
<1>1. CASE FetchStart
  <2>1. [t \in Tfrs |-> NoHash] \in [Tfrs -> MaybeText]
    BY DEF MaybeText
  <2> QED BY <1>1, <2>1 DEF FetchStart, World_OK, PollListed, Day_OK, Polls
<1>2. CASE FetchDetails
  <2>1. poll \in Polls
    BY <1>0, <1>2 DEF FetchDetails, Idle
  <2>2. PICK fetched \in SUBSET Tfrs :
          details' = [t \in Tfrs |-> IF t \in fetched
                                     THEN [of |-> poll.list[t], text |-> Published(t)]
                                     ELSE details[t]]
    <3>1. poll.left \subseteq Tfrs
      BY <2>1 DEF Polls
    <3> QED BY <1>2, <3>1 DEF FetchDetails
  <2>3. details' \in [Tfrs -> [of : MaybeText, text : MaybeText]]
    <3>1. \A t \in Tfrs : poll.list[t] \in MaybeText /\ Published(t) \in MaybeText
      BY <2>1 DEF Polls, Published, World_OK
    <3> QED BY <2>2, <3>1 DEF World_OK
  <2>4. [t \in Tfrs |-> details'[t].text] \in [Tfrs -> MaybeText]
    BY <2>3
  <2>5. poll' = [poll EXCEPT !.at = "upsert", !.got = [t \in Tfrs |-> details'[t].text]]
    BY <1>2 DEF FetchDetails
  <2>6. poll' \in Polls /\ poll'.left = poll.left /\ poll'.list = poll.list
    BY <2>1, <2>4, <2>5 DEF Polls
  <2> QED BY <1>2, <2>3, <2>6 DEF FetchDetails, World_OK, PollListed, Day_OK
<1>3. ASSUME NEW t \in Tfrs, Upsert(t) PROVE World_OK' /\ PollListed' /\ Day_OK'
  <2>1. poll \in Polls
    BY <1>0, <1>3 DEF Upsert, Idle
  <2>2. poll.list[t] \in Texts /\ poll.got[t] \in MaybeText
    BY <1>3, <2>1 DEF Upsert, PollListed, Polls, MaybeText
  <2>3. rows' \in Rows
    BY <1>3, <2>2 DEF Upsert, World_OK, Rows, Row
  <2>4. poll' = [poll EXCEPT !.left = @ \ {t}]
    BY <1>3 DEF Upsert
  <2>5. poll' \in Polls /\ poll'.left \subseteq poll.left /\ poll'.list = poll.list /\ poll'.at = poll.at
    BY <2>1, <2>4 DEF Polls
  <2> QED BY <1>3, <2>3, <2>5 DEF Upsert, World_OK, PollListed, Day_OK
<1>4. CASE ExpireTfrs
  <2>1. poll \in Polls
    BY <1>0, <1>4 DEF ExpireTfrs, Idle
  <2>2. rows' \in Rows
    BY <1>4 DEF ExpireTfrs, World_OK, Rows
  <2>3. poll' \in Polls /\ poll'.at = "stamp"
    BY <1>4, <2>1 DEF ExpireTfrs, Polls
  <2> QED BY <1>4, <2>2, <2>3 DEF ExpireTfrs, World_OK, PollListed, Day_OK
<1>5. CASE FetchStamp
  <2>1. poll.after \in BOOLEAN
    BY <1>0, <1>5 DEF FetchStamp, Polls, Idle
  <2> QED BY <1>5, <2>1 DEF FetchStamp, World_OK, PollListed, Day_OK, Idle
<1>6. CASE FetchFails
  BY <1>6, FaultyDay DEF FetchFails, World_OK, PollListed, Idle
<1>7. CASE PollerRestart
  <2>1. NoDetails \in [Tfrs -> [of : MaybeText, text : MaybeText]]
    BY DEF NoDetails, MaybeText
  <2> QED BY <1>7, <2>1, FaultyDay DEF PollerRestart, World_OK, PollListed, Idle
<1> QED BY <1>1, <1>2, <1>3, <1>4, <1>5, <1>6, <1>7 DEF PollerStep

LEMMA DedupTypes ==
    ASSUME TypeOK, Calling, NEW p \in Procs, Dedup(p)
    PROVE  Given_OK'
<1> USE TypeParts
<1>1. CASE p = Pusher /\ call[p].at = "write" /\ Silencing
  <2>1. call[p] \in [at : {"write", "restat"}, key : Keys, entry : Entries, dict : Dicts]
    BY <1>1, CallShape DEF DedupTypeOK
  <2>2. call[p].key \in Tfrs
    BY <1>1 DEF Calling
  <2>3. [text |-> call[p].entry.hash, ts |-> call[p].entry.ts, once |-> Senders] \in News
    BY <2>1, DedupAssumption DEF News, Entries, Texts
  <2>4. /\ last' = [last EXCEPT ![call[p].key] =
                     [text |-> call[p].entry.hash, ts |-> call[p].entry.ts, once |-> Senders]]
        /\ silenced' = silenced \cup {<<call[p].key, call[p].entry.hash>>}
    BY <1>1 DEF Dedup
  <2>5. call[p].entry.hash \in Texts
    BY <2>1 DEF Entries, Texts
  <2> QED BY <1>1, <2>2, <2>3, <2>4, <2>5 DEF Dedup, Given_OK
<1>2. CASE ~(p = Pusher /\ call[p].at = "write" /\ Silencing)
  BY <1>2 DEF Dedup, Given_OK
<1> QED BY <1>1, <1>2

LEMMA TypeStep ==
    ASSUME TypeOK, PollListed, Calling, [Next]_vars
    PROVE  TypeOK' /\ PollListed'
<1>0. DedupTypeOK'
  BY DedupPart, DedupTypeStep, TypeParts
<1> SUFFICES World_OK' /\ PollListed' /\ Files_OK' /\ job' \in JobStates /\ Given_OK' /\ Day_OK'
  BY <1>0, TypePartsNext
<1> USE TypeParts
<1>1. CASE PusherStep
  <2>1. poll' = poll
    BY <1>1 DEF PusherStep, BaselineStart, BaselineDone, FixStart, FixDone, CutoverStart, CutoverJudge,
           CutoverDone, WidenStart, WidenDone, PushStart, PushDone, BaselineVisit, FixSkip, FixSend,
           CutoverVisit, CutoverActs, WidenSkip, WidenSend, PushVisit, Suppressed, Push, wvars
  <2>2. PollListed'
    BY <2>1 DEF PollListed
  <2> QED BY <1>1, <2>2, PusherTypes
<1>2. CASE SkillStep
  <2>1. UNCHANGED <<wvars, fvars, gvars, job, day>>
    BY <1>2 DEF SkillStep, SkillAsks, SkillActs
  <2> QED BY <2>1, WorldStays, FilesStay, GivenStays, DayStays
<1>3. CASE PollerStep
  <2>1. UNCHANGED <<fvars, gvars, job>>
    BY <1>3 DEF PollerStep, FetchStart, FetchDetails, Upsert, ExpireTfrs, FetchStamp, FetchFails, PollerRestart
  <2> QED BY <1>3, <2>1, PollerTypes, FilesStay, GivenStays
<1>4. ASSUME NEW t \in Tfrs, NEW x \in Texts \cup {NoHash}, FaaChanges(t, x)
      PROVE  World_OK' /\ PollListed' /\ Files_OK' /\ job' \in JobStates /\ Given_OK' /\ Day_OK'
  <2>1. Day_OK'
    BY <1>4 DEF FaaChanges, Day_OK
  <2>2. World_OK' /\ PollListed'
    BY <1>4 DEF FaaChanges, World_OK, PollListed, MaybeText
  <2>3. UNCHANGED <<fvars, gvars, job>>
    BY <1>4 DEF FaaChanges
  <2> QED BY <2>1, <2>2, <2>3, FilesStay, GivenStays
<1>5. CASE TickTock
  <2>1. UNCHANGED <<wvars, fvars, gvars, job, day>>
    BY <1>5 DEF TickTock
  <2> QED BY <2>1, WorldStays, FilesStay, GivenStays, DayStays
<1>6. ASSUME NEW p \in Procs, Dedup(p)
      PROVE  World_OK' /\ PollListed' /\ Files_OK' /\ job' \in JobStates /\ Given_OK' /\ Day_OK'
  <2>1. UNCHANGED <<wvars, fvars, job, day>>
    BY <1>6 DEF Dedup
  <2> QED BY <1>6, <2>1, DedupTypes, WorldStays, FilesStay, DayStays
<1>7. CASE JobFails \/ PusherRestart
  <2>1. job' \in JobStates
    BY <1>7, FromIsJob, AfterIsJob DEF JobFails, PusherRestart, JobStates
  <2>2. last' \in [Tfrs -> News] /\ Day_OK'
    BY <1>7, UnsureGiven, FaultyDay DEF JobFails, PusherRestart
  <2>3. fixed' \in [Tfrs -> Nat]
    BY <1>7 DEF JobFails, PusherRestart
  <2>4. UNCHANGED <<wvars, fvars, heard, silenced>>
    BY <1>7 DEF JobFails, PusherRestart
  <2>5. Given_OK'
    BY <2>2, <2>3, <2>4 DEF Given_OK
  <2> QED BY <2>1, <2>2, <2>4, <2>5, WorldStays, FilesStay
<1>8. CASE SkillRestart
  <2>1. UNCHANGED <<wvars, fvars, gvars, job>> /\ Day_OK'
    BY <1>8, FaultyDay DEF SkillRestart
  <2> QED BY <2>1, WorldStays, FilesStay, GivenStays
<1>9. CASE UNCHANGED vars
  <2>1. UNCHANGED <<wvars, fvars, gvars, job, day>>
    BY <1>9 DEF vars
  <2> QED BY <2>1, WorldStays, FilesStay, GivenStays, DayStays
<1> QED
  BY <1>1, <1>2, <1>3, <1>4, <1>5, <1>6, <1>7, <1>8, <1>9 DEF Next, World

-----------------------------------------------------------------------------
(* What a step may leave of a call: it goes on with the same key, question  *)
(* and entry, or is over.                                                   *)
Writes == {"lock", "write"}

Keeps(q) ==
    /\ call'[q].at # "idle" => call[q].at # "idle" /\ call'[q].key = call[q].key
    /\ call'[q].at \in Asking =>
         call[q].at \in Asking /\ call'[q].hash = call[q].hash /\ call'[q].periodic = call[q].periodic
    /\ call'[q].at \in Writes => call[q].at \in Writes /\ call'[q].entry = call[q].entry
    /\ call[q] = Idle => call'[q] = Idle

LEMMA StepKeeps ==
    ASSUME DedupTypeOK, NEW p \in Procs, DedupStep(p), NEW q \in Procs
    PROVE  Keeps(q)
<1>1. CASE Hit(p)
  BY <1>1 DEF Hit, Told, Keeps, Asking, Writes, Idle, DedupTypeOK
<1>2. CASE Miss(p)
  BY <1>2 DEF Miss, Keeps, Asking, Writes, Idle, DedupTypeOK
<1>3. CASE Reload(p)
  BY <1>3 DEF Reload, Told, Keeps, Asking, Writes, Idle, DedupTypeOK
<1>4. CASE Take(p)
  BY <1>4 DEF Take, Keeps, Asking, Writes, Idle, DedupTypeOK
<1>5. CASE Replace(p)
  <2>1. CASE q = p
    <3>1. call[p] \in [at : {"write", "restat"}, key : Keys, entry : Entries, dict : Dicts]
      BY <1>5, CallShape DEF Replace, DedupTypeOK
    <3>2. call'[p] = [call[p] EXCEPT !.at = "restat"]
      BY <1>5 DEF Replace
    <3> QED BY <1>5, <2>1, <3>1, <3>2 DEF Replace, Keeps, Asking, Writes, Idle
  <2>2. CASE q # p /\ call[q].at = "read"
    <3>1. call[q] \in [at : {"read"}, key : Keys, hash : Hashes, periodic : BOOLEAN, current : BOOLEAN]
      BY <2>2, CallShape DEF DedupTypeOK
    <3>2. /\ call'[q].at = "read" /\ call'[q].key = call[q].key
          /\ call'[q].hash = call[q].hash /\ call'[q].periodic = call[q].periodic
      BY <1>5, <2>2, <3>1 DEF Replace
    <3> QED BY <2>2, <3>2 DEF Keeps, Asking, Writes, Idle
  <2>3. CASE q # p /\ call[q].at # "read"
    <3>1. call'[q] = call[q]
      BY <1>5, <2>3 DEF Replace
    <3> QED BY <3>1 DEF Keeps
  <2> QED BY <2>1, <2>2, <2>3
<1>6. CASE Restat(p)
  BY <1>6 DEF Restat, Keeps, Asking, Writes, Idle, DedupTypeOK
<1> QED BY <1>1, <1>2, <1>3, <1>4, <1>5, <1>6 DEF DedupStep

LEMMA EndKeeps ==
    ASSUME DedupTypeOK, NEW p \in Procs, Return(p) \/ Abandon(p) \/ Die(p) \/ UNCHANGED call, NEW q \in Procs
    PROVE  Keeps(q) /\ (~UNCHANGED call => call'[p] = Idle)
  BY DEF Return, Abandon, Die, Keeps, Asking, Writes, Idle, DedupTypeOK

(* What counts as given: sent or silenced, or being silenced.               *)
Giving ==
    call[Pusher].at \in Writes /\ ~Silencing =>
        <<call[Pusher].key, call[Pusher].entry.hash>> \in heard \cup silenced

Monotone == heard \subseteq heard' /\ silenced \subseteq silenced'

LEMMA KeepsCalling ==
    ASSUME Calling, Giving, Monotone, Keeps(Pusher), Keeps(Skill), job' = job
    PROVE  Calling' /\ Giving'
<1>1. /\ job.step # "visit" \/ job.at = "fix" => Free'
      /\ call'[Skill].at # "idle" => call'[Skill].key = Enrichment
      /\ call'[Pusher].at # "idle" => call'[Pusher].key \in Tfrs
  BY DEF Calling, Keeps, Free
<1>2. call'[Pusher].at \in Asking =>
         /\ job.at \in {"cutover", "push"} /\ ~call'[Pusher].periodic
         /\ call'[Pusher].key \in job.left
         /\ call'[Pusher].hash = job.list[call'[Pusher].key].text
  BY DEF Calling, Keeps, Asking
<1>3. Calling'
  BY <1>1, <1>2 DEF Calling
<1>4. Giving'
  BY DEF Giving, Monotone, Keeps, Writes, Silencing
<1> QED BY <1>3, <1>4

(* The pusher goes from one function to the next when it is in no call.     *)
LEMMA BetweenCalls ==
    ASSUME Calling, Keeps(Skill), call'[Pusher] = Idle,
           job'.step = "visit" /\ job'.at \in {"baseline", "cutover", "push"}
              => job'.left \subseteq Listed(job'.list)
    PROVE  Calling' /\ Giving'
  BY DEF Calling, Giving, Keeps, Free, Asking, Writes, Idle

LEMMA BeginListed ==
    ASSUME NEW j, NEW list, NEW left \in SUBSET Listed(list), Begin(j, list, left)
    PROVE  job'.left \subseteq Listed(job'.list)
  BY DEF Begin, Listed

LEMMA LeaveListed ==
    ASSUME TypeOK, NEW t \in Tfrs, NEW keep \in BOOLEAN, Leave(t, keep)
    PROVE  /\ job'.at = job.at /\ job'.step = job.step
           /\ job.left \subseteq Listed(job.list) => job'.left \subseteq Listed(job'.list)
<1>1. job \in JobStates /\ job.list \in [Tfrs -> Row \cup {NoRow}]
  BY DEF TypeOK, JobStates, Rows
<1>2. /\ job'.at = job.at /\ job'.step = job.step /\ job'.left = job.left \ {t}
      /\ job'.list = [job.list EXCEPT ![t] = NoRow]
  BY <1>1 DEF Leave, JobStates
<1> QED BY <1>1, <1>2 DEF Listed

(* A visit that ends the question about t, or is about a TFR it asks        *)
(* nothing about.                                                           *)
LEMMA LeaveCalling ==
    ASSUME TypeOK, Calling, Giving, Monotone, Keeps(Pusher), Keeps(Skill), job.step = "visit",
           NEW t \in Tfrs, NEW keep \in BOOLEAN, Leave(t, keep), call'[Pusher].at \notin Asking
    PROVE  Calling' /\ Giving'
<1>1. /\ job'.at = job.at /\ job'.step = job.step
      /\ job.left \subseteq Listed(job.list) => job'.left \subseteq Listed(job'.list)
  BY LeaveListed
<1>2. Calling'
  BY <1>1 DEF Calling, Keeps, Free
<1>3. Giving'
  BY <1>1 DEF Giving, Monotone, Keeps, Writes, Silencing
<1> QED BY <1>2, <1>3

(* A visit that records t, sent or about to be silenced.                    *)
LEMMA LeaveRecording ==
    ASSUME TypeOK, Calling, job.step = "visit", job.at # "fix",
           NEW t \in Tfrs, NEW keep \in BOOLEAN, Leave(t, keep),
           NEW h, Record(Pusher, t, h), Silencing \/ <<t, h>> \in heard'
    PROVE  Calling' /\ Giving'
<1> USE TheProcesses
<1>1. /\ job'.at = job.at /\ job'.step = job.step
      /\ job.left \subseteq Listed(job.list) => job'.left \subseteq Listed(job'.list)
  BY LeaveListed
<1>2. /\ call'[Pusher] = [at |-> "lock", key |-> t, entry |-> [ts |-> now, hash |-> h]]
      /\ call'[Skill] = call[Skill]
  BY DEF Record, TypeOK, DedupTypeOK
<1>3. Calling'
  BY <1>1, <1>2 DEF Calling, Asking
<1>4. Giving'
  BY <1>1, <1>2 DEF Giving, Writes, Silencing
<1> QED BY <1>3, <1>4

LEMMA OnlyGrows == ASSUME [Next]_vars PROVE Monotone
<1>1. CASE PusherStep
  BY <1>1 DEF PusherStep, BaselineStart, BaselineDone, FixStart, FixDone, CutoverStart, CutoverJudge,
         CutoverDone, WidenStart, WidenDone, PushStart, PushDone, BaselineVisit, FixSkip, FixSend,
         CutoverVisit, CutoverActs, WidenSkip, WidenSend, PushVisit, Suppressed, Push, Sent, gvars, Monotone
<1>2. CASE SkillStep \/ PollerStep \/ World
  BY <1>2 DEF SkillStep, SkillAsks, SkillActs, PollerStep, FetchStart, FetchDetails, Upsert, ExpireTfrs,
         FetchStamp, FetchFails, PollerRestart, World, FaaChanges, TickTock, gvars, Monotone
<1>3. ASSUME NEW p \in Procs, Dedup(p) PROVE Monotone
  BY <1>3 DEF Dedup, Monotone
<1>4. CASE JobFails \/ PusherRestart \/ SkillRestart
  BY <1>4 DEF JobFails, PusherRestart, SkillRestart, gvars, Monotone
<1>5. CASE UNCHANGED vars
  BY <1>5 DEF vars, gvars, Monotone
<1> QED BY <1>1, <1>2, <1>3, <1>4, <1>5 DEF Next

(* Each step keeps the pusher's calls in order with its loop.               *)
LEMMA CallingStep ==
    ASSUME TypeOK, Calling, Giving, [Next]_vars
    PROVE  Calling' /\ Giving'
<1>0. Monotone /\ DedupTypeOK
  BY OnlyGrows, TypeParts
<1> USE TheProcesses, <1>0
<1>1. CASE BaselineStart \/ FixStart \/ CutoverStart \/ CutoverJudge \/ WidenStart \/ PushStart
  <2>1. Free /\ UNCHANGED call
    BY <1>1 DEF BaselineStart, FixStart, CutoverStart, CutoverJudge, WidenStart, PushStart, Calling, dvars
  <2>2. Keeps(Skill) /\ call'[Pusher] = Idle
    BY <2>1, EndKeeps DEF Free
  <2>3. job'.step = "visit" /\ job'.at \in {"baseline", "cutover", "push"} => job'.left \subseteq Listed(job'.list)
    <3>1. CASE BaselineStart
      BY <3>1, BeginListed DEF BaselineStart
    <3>2. CASE FixStart
      BY <3>2, FromIsJob DEF FixStart, Begin
    <3>3. CASE CutoverStart
      BY <3>3 DEF CutoverStart, At
    <3>4. CASE CutoverJudge
      BY <3>4, FromIsJob, BeginListed DEF CutoverJudge
    <3>5. CASE WidenStart
      BY <3>5 DEF WidenStart, Begin
    <3>6. CASE PushStart
      BY <3>6, BeginListed DEF PushStart
    <3> QED BY <1>1, <3>1, <3>2, <3>3, <3>4, <3>5, <3>6
  <2> QED BY <2>2, <2>3, BetweenCalls
<1>2. CASE BaselineDone \/ FixDone \/ CutoverDone \/ WidenDone \/ PushDone
  <2>1. Free /\ UNCHANGED call
    BY <1>2 DEF BaselineDone, FixDone, CutoverDone, WidenDone, PushDone, Over, dvars
  <2>2. Keeps(Skill) /\ call'[Pusher] = Idle
    BY <2>1, EndKeeps DEF Free
  <2>3. job'.step = "start"
    BY <1>2, FromIsJob DEF BaselineDone, FixDone, CutoverDone, WidenDone, PushDone, At
  <2> QED BY <2>2, <2>3, BetweenCalls
<1>3. ASSUME NEW t \in Tfrs, BaselineVisit(t) PROVE Calling' /\ Giving'
  BY <1>3, LeaveRecording DEF BaselineVisit, Visiting, Silencing
<1>4. ASSUME NEW t \in Tfrs, FixSkip(t) \/ FixSend(t) \/ WidenSkip(t) PROVE Calling' /\ Giving'
  <2>1. \E keep \in BOOLEAN : Leave(t, keep)
    BY <1>4 DEF FixSkip, FixSend, WidenSkip
  <2>2. UNCHANGED call /\ job.step = "visit"
    BY <1>4 DEF FixSkip, FixSend, WidenSkip, Visiting, dvars
  <2>3. call[Pusher].at \notin Asking
    BY <1>4 DEF FixSkip, FixSend, WidenSkip, Calling
  <2> QED BY <2>1, <2>2, <2>3, EndKeeps, LeaveCalling
<1>5. ASSUME NEW t \in Tfrs, CutoverVisit(t) \/ PushVisit(t) PROVE Calling' /\ Giving'
  <2>1. /\ call'[Pusher] = [at |-> "stat", key |-> t, hash |-> job.list[t].text, periodic |-> FALSE, push |-> FALSE]
        /\ call'[Skill] = call[Skill]
    BY <1>5 DEF CutoverVisit, PushVisit, AskAbout, Ask, DedupTypeOK
  <2>2. job' = job /\ job.step = "visit" /\ t \in job.left /\ job.at \in {"cutover", "push"}
    BY <1>5 DEF CutoverVisit, PushVisit, Visiting
  <2> QED BY <2>1, <2>2 DEF Calling, Giving, Writes
<1>6. ASSUME NEW t \in Tfrs, CutoverActs(t) PROVE Calling' /\ Giving'
  <2>1. Leave(t, FALSE) /\ job.step = "visit" /\ job.at = "cutover"
    BY <1>6 DEF CutoverActs, Visiting
  <2>2. CASE Record(Pusher, t, job.list[t].text)
    BY <2>1, <2>2, LeaveRecording DEF Silencing
  <2>3. CASE Return(Pusher)
    <3>1. call'[Pusher].at = "idle"
      BY <2>3 DEF Return, Idle, DedupTypeOK
    <3> QED BY <2>1, <2>3, <3>1, EndKeeps, LeaveCalling DEF Asking
  <2> QED BY <1>6, <2>2, <2>3 DEF CutoverActs
<1>7. ASSUME NEW t \in Tfrs, Push(t) \/ Suppressed(t) PROVE Calling' /\ Giving'
  <2>1. Leave(t, FALSE) /\ job.step = "visit" /\ job.at = "push"
    BY <1>7 DEF Push, Suppressed, Visiting
  <2>2. CASE Record(Pusher, t, job.list[t].text) /\ Sent(t, job.list[t].text)
    BY <2>1, <2>2, LeaveRecording DEF Sent
  <2>3. CASE Return(Pusher)
    <3>1. call'[Pusher].at = "idle"
      BY <2>3 DEF Return, Idle, DedupTypeOK
    <3> QED BY <2>1, <2>3, <3>1, EndKeeps, LeaveCalling DEF Asking
  <2>4. (Record(Pusher, t, job.list[t].text) /\ Sent(t, job.list[t].text)) \/ Return(Pusher)
    <3>1. CASE Push(t)
      BY <3>1 DEF Push
    <3>2. CASE Suppressed(t)
      BY <3>2 DEF Suppressed
    <3> QED BY <1>7, <3>1, <3>2
  <2> QED BY <2>2, <2>3, <2>4
<1>8. ASSUME NEW t \in Tfrs, WidenSend(t) PROVE Calling' /\ Giving'
  <2>1. job.step = "visit" /\ job.at = "widen" /\ Free
    BY <1>8 DEF WidenSend, Visiting
  <2>2. CASE Leave(t, FALSE) /\ Record(Pusher, t, job.list[t].text) /\ Sent(t, job.list[t].text)
    BY <2>1, <2>2, LeaveRecording DEF Sent
  <2>3. CASE Leave(t, TRUE) /\ UNCHANGED call
    <3>1. call'[Pusher].at \notin Asking
      BY <2>1, <2>3 DEF Asking, Free, Idle
    <3>2. Keeps(Pusher) /\ Keeps(Skill)
      BY <2>3, EndKeeps
    <3> QED BY <2>1, <2>3, <3>1, <3>2, LeaveCalling
  <2> QED BY <1>8, <2>2, <2>3 DEF WidenSend, dvars
<1>9. CASE SkillAsks
  <2>1. /\ call'[Skill] = [at |-> "stat", key |-> Enrichment, hash |-> Summary, periodic |-> TRUE, push |-> FALSE]
        /\ call'[Pusher] = call[Pusher] /\ job' = job
    BY <1>9 DEF SkillAsks, Ask, DedupTypeOK
  <2> QED BY <2>1 DEF Calling, Giving, Monotone, Free, Silencing
<1>10. CASE SkillActs
  <2>1. call[Skill].key = Enrichment /\ job' = job
    BY <1>10 DEF SkillActs, Calling
  <2>2. call'[Pusher] = call[Pusher] /\ (call'[Skill].at # "idle" => call'[Skill].key = Enrichment)
    BY <1>10 DEF SkillActs, Record, Return, Idle, DedupTypeOK
  <2> QED BY <2>1, <2>2 DEF Calling, Giving, Monotone, Free, Silencing
<1>11. CASE PollerStep \/ World
  <2>1. UNCHANGED <<call, job>>
    BY <1>11 DEF PollerStep, FetchStart, FetchDetails, Upsert, ExpireTfrs, FetchStamp, FetchFails, PollerRestart,
                 World, FaaChanges, TickTock, Tick, dvars
  <2> QED BY <2>1, EndKeeps, KeepsCalling
<1>12. ASSUME NEW p \in Procs, Dedup(p) PROVE Calling' /\ Giving'
  BY <1>12, StepKeeps, KeepsCalling DEF Dedup
<1>13. CASE JobFails \/ PusherRestart
  <2>1. Abandon(Pusher) \/ Die(Pusher)
    BY <1>13 DEF JobFails, PusherRestart
  <2>2. call'[Pusher] = Idle
    BY <2>1 DEF Abandon, Die, DedupTypeOK
  <2>3. job'.step = "start"
    BY <1>13, FromIsJob, AfterIsJob DEF JobFails, PusherRestart, TypeOK, JobStates
  <2> QED BY <2>1, <2>2, <2>3, EndKeeps, BetweenCalls
<1>14. CASE SkillRestart
  <2>1. Die(Skill) /\ job' = job
    BY <1>14 DEF SkillRestart
  <2> QED BY <2>1, EndKeeps, KeepsCalling
<1>15. CASE UNCHANGED vars
  <2>1. UNCHANGED <<call, job>>
    BY <1>15 DEF vars, dvars
  <2> QED BY <2>1, EndKeeps, KeepsCalling
<1> QED
  BY <1>1, <1>2, <1>3, <1>4, <1>5, <1>6, <1>7, <1>8, <1>9, <1>10, <1>11, <1>12, <1>13, <1>14, <1>15
     DEF Next, PusherStep, SkillStep

-----------------------------------------------------------------------------
(* The file at t's slot changes only when the pusher replaces it, or when   *)
(* its record is evicted.                                                   *)
Fades(t) == disk'[t] = disk[t] \/ (disk'[t] = Forgotten /\ now - disk[t].ts > Retention)

LEMMA SlotStep ==
    ASSUME TypeOK, Calling, CacheFresh, [Next]_vars, NEW t \in Tfrs
    PROVE  \/ Fades(t)
           \/ /\ Dedup(Pusher) /\ call[Pusher].at = "write" /\ call[Pusher].key = t
              /\ disk'[t] = call[Pusher].entry
<1> USE TheProcesses
<1>1. ASSUME NEW p \in Procs, Dedup(p), Replace(p)
      PROVE  \/ Fades(t)
             \/ /\ Dedup(Pusher) /\ call[Pusher].at = "write" /\ call[Pusher].key = t
                /\ disk'[t] = call[Pusher].entry
  <2>1. /\ call[p].at = "write" /\ disk' = call[p].dict
        /\ call[p].dict[call[p].key] = call[p].entry
        /\ \A j \in Keys \ {call[p].key} : \/ call[p].dict[j] = disk[j]
                                           \/ call[p].dict[j] = Forgotten /\ now - disk[j].ts > Retention
    BY <1>1 DEF Replace, CacheFresh
  <2>2. t \in Keys /\ t # Enrichment
    BY TfrAssumption
  <2>3. p = Skill => call[p].key = Enrichment
    BY <2>1 DEF Calling
  <2>4. p = Pusher \/ p = Skill
    BY TfrAssumption
  <2> QED BY <1>1, <2>1, <2>2, <2>3, <2>4 DEF Fades
<1>2. CASE \A p \in Procs : ~(Dedup(p) /\ Replace(p))
  <2>1. [DedupNext]_dvars
    BY DedupPart, TypeParts
  <2>2. CASE \E p \in Procs : Dedup(p)
    BY <1>2, <2>2 DEF Dedup, DedupStep, Hit, Miss, Reload, Take, Restat, Fades
  <2>3. CASE PusherStep
    BY <2>3 DEF PusherStep, BaselineStart, BaselineDone, FixStart, FixDone, CutoverStart, CutoverJudge,
         CutoverDone, WidenStart, WidenDone, PushStart, PushDone, BaselineVisit, FixSkip, FixSend,
         CutoverVisit, CutoverActs, WidenSkip, WidenSend, PushVisit, Suppressed, Push,
         AskAbout, Ask, Record, Return, dvars, Fades
  <2>4. CASE SkillStep \/ PollerStep \/ World
    BY <2>4 DEF SkillStep, SkillAsks, SkillActs, PollerStep, FetchStart, FetchDetails, Upsert, ExpireTfrs,
         FetchStamp, FetchFails, PollerRestart, World, FaaChanges, TickTock, Tick, Ask, Record, Return, dvars, Fades
  <2>5. CASE JobFails \/ PusherRestart \/ SkillRestart \/ UNCHANGED vars
    BY <2>5 DEF JobFails, PusherRestart, SkillRestart, Abandon, Die, vars, dvars, Fades
  <2> QED BY <2>2, <2>3, <2>4, <2>5 DEF Next
<1> QED BY <1>1, <1>2

LEMMA SwallowedStep ==
    ASSUME TypeOK, Calling, Giving, CacheFresh, NothingSwallowed, [Next]_vars
    PROVE  NothingSwallowed'
<1> SUFFICES ASSUME NEW t \in Tfrs, disk'[t] # Forgotten
             PROVE  <<t, disk'[t].hash>> \in heard' \cup silenced'
  BY DEF NothingSwallowed, Forgotten
<1>0. Monotone
  BY OnlyGrows
<1>1. CASE disk'[t] = disk[t]
  BY <1>0, <1>1 DEF NothingSwallowed, Monotone
<1>2. CASE /\ Dedup(Pusher) /\ call[Pusher].at = "write" /\ call[Pusher].key = t
           /\ disk'[t] = call[Pusher].entry
  <2>1. CASE Silencing
    BY <1>2, <2>1 DEF Dedup
  <2>2. CASE ~Silencing
    BY <1>0, <1>2, <2>2 DEF Giving, Writes, Monotone
  <2> QED BY <2>1, <2>2
<1> QED BY <1>1, <1>2, SlotStep DEF Fades

LEMMA TfrInit == Init => TypeOK /\ PollListed /\ Calling /\ Giving /\ CacheFresh /\ NothingSwallowed
<1> SUFFICES ASSUME Init PROVE TypeOK /\ PollListed /\ Calling /\ Giving /\ CacheFresh /\ NothingSwallowed
  OBVIOUS
<1> USE TheProcesses
<1>1. DedupInit /\ DedupTypeOK /\ CacheFresh
  BY DedupTypeInit, CacheFreshInit DEF Init
<1>2. OldText \in Texts
  BY TfrAssumption DEF OldText, Texts
<1>3. Day_OK /\ day.tfrs \subseteq Tfrs
  BY TfrAssumption DEF Init, Day_OK
<1>4. World_OK /\ PollListed
  <2>1. rows \in Rows
    BY <1>2 DEF Init, OldRows, Rows, Row, MaybeText
  <2>2. faa \in [Tfrs -> MaybeText]
    BY <1>2 DEF Init, MaybeText
  <2>3. details \in [Tfrs -> [of : MaybeText, text : MaybeText]]
    BY DEF Init, NoDetails, MaybeText
  <2> QED BY <2>1, <2>2, <2>3 DEF Init, World_OK, PollListed, Idle
<1>5. Files_OK
  BY DedupAssumption DEF Init, Files_OK, Jobs
<1>6. job \in JobStates /\ job.step = "start" /\ job.left = {}
  BY FromIsJob DEF Init
<1>7. Given_OK
  <2>1. NoNews \in News /\ [text |-> OldText, ts |-> 1, once |-> Senders] \in News
    BY <1>2, DedupAssumption DEF NoNews, News
  <2>2. last \in [Tfrs -> News]
    BY <2>1 DEF Init
  <2>3. heard \subseteq Tfrs \X Texts
    BY <1>2, <1>3 DEF Init
  <2> QED BY <2>2, <2>3 DEF Init, Given_OK
<1>8. Calling /\ Giving
  BY <1>1, <1>6 DEF DedupInit, Calling, Giving, Free, Idle, Asking, Writes
<1>9. NothingSwallowed
  <2> SUFFICES ASSUME NEW t \in Tfrs, disk[t] # Forgotten PROVE <<t, disk[t].hash>> \in heard
    BY DEF NothingSwallowed
  <2>1. t \in Keys
    BY TfrAssumption
  <2>2. /\ disk[t].hash = OldText /\ t \in day.tfrs /\ IsVip(t)
        /\ heard = {u \in day.tfrs : IsVip(u)} \X {OldText}
    BY <2>1 DEF Init, Empty
  <2> QED BY <2>2
<1> QED BY <1>1, <1>3, <1>4, <1>5, <1>6, <1>7, <1>8, <1>9, TypeParts

TfrInv == TypeOK /\ PollListed /\ Calling /\ Giving

LEMMA TfrInvariant == Spec => []TfrInv
<1>1. Init => TfrInv
  BY TfrInit DEF TfrInv
<1>2. TfrInv /\ [Next]_vars => TfrInv'
  BY TypeStep, CallingStep DEF TfrInv
<1> QED BY <1>1, <1>2, PTL DEF Spec

(* Every reachable state is well typed, for any TFRs and any days.          *)
THEOREM TfrTypeCorrect == Spec => []TypeOK
<1>1. TfrInv => TypeOK
  BY DEF TfrInv
<1> QED BY <1>1, TfrInvariant, PTL

(* The pusher and the skill use their dedup file as PushDedup's processes.  *)
THEOREM AlertsUseTheFile == Spec => DedupSpec
<1>1. Init => DedupInit
  BY DEF Init
<1>2. TfrInv /\ [Next]_vars => [DedupNext]_dvars
  BY DedupPart DEF TfrInv
<1> QED BY <1>1, <1>2, TfrInvariant, PTL DEF Spec, DedupSpec

(* So their copies are the file, and the file is one shared map.            *)
THEOREM AlertsShareOneMap == ~Coarse /\ Spec => []CacheFresh /\ ImplementsMap
  BY AlertsUseTheFile, CopiesAreFresh, OneSharedMap

(* No alert counts as given that was neither sent nor silenced.             *)
THEOREM NoneSwallowed == ~Coarse /\ Spec => []NothingSwallowed
<1>1. Init => NothingSwallowed
  BY TfrInit
<1>2. TfrInv /\ CacheFresh /\ NothingSwallowed /\ [Next]_vars => NothingSwallowed'
  BY SwallowedStep DEF TfrInv
<1>3. ~Coarse /\ Spec => []CacheFresh
  BY AlertsUseTheFile, CopiesAreFresh
<1> QED BY <1>1, <1>2, <1>3, TfrInvariant, PTL DEF Spec

-----------------------------------------------------------------------------
(* The loop: a function runs while its marker is not there, and visits each *)
(* TFR once.                                                                *)
LoopInv ==
    /\ job.at \notin markers
    /\ job.left \cap job.kept = {}
    /\ job.step # "visit" => job.left = {}
    /\ job.step = "judge" => job.at = "cutover"

LEMMA AtUnmarked ==
    ASSUME NEW done
    PROVE  /\ \A j \in {FromWiden(done), FromCutover(done), FromFix(done), FromBaseline(done)} :
                 j.at \notin done \/ j.at = "push"
           /\ \A k \in Jobs : After(k, done).at \notin done \/ After(k, done).at = "push"
<1>1. \A k \in Jobs : At(k).at = k
  BY DEF At
<1>2. \A j \in {FromWiden(done), FromCutover(done), FromFix(done), FromBaseline(done)} :
         j.at \notin done \/ j.at = "push"
  BY <1>1 DEF FromWiden, FromCutover, FromFix, FromBaseline, Jobs
<1>3. \A k \in Jobs : After(k, done) \in {At("push"), FromFix(done), FromCutover(done), FromWiden(done)}
  BY DEF After, Jobs
<1>4. At("push").at = "push"
  BY <1>1 DEF Jobs
<1> QED BY <1>2, <1>3, <1>4

(* Where the loop goes when a function begins, ends or fails.               *)
Lands  == job'.step = "start" /\ job'.left = {} /\ (job'.at \notin markers' \/ job'.at = "push")

Starting == BaselineStart \/ FixStart \/ CutoverStart \/ CutoverJudge \/ WidenStart \/ PushStart
Ending   == BaselineDone \/ FixDone \/ CutoverDone \/ WidenDone \/ PushDone
Failing  == JobFails \/ PusherRestart

LEMMA EndingLands == ASSUME TypeOK, Ending \/ Failing PROVE Lands
<1>1. job.at \in Jobs
  BY DEF TypeOK, JobStates
<1>2. CASE Ending
  <2>1. job' \in {FromWiden(markers'), FromCutover(markers'), FromFix(markers'), At("push")}
    BY <1>2 DEF Ending, BaselineDone, FixDone, CutoverDone, WidenDone, PushDone, fvars
  <2>2. At("push").at = "push" /\ At("push").step = "start" /\ At("push").left = {}
    BY DEF At
  <2> QED BY <2>1, <2>2, FromIsJob, AtUnmarked DEF Lands
<1>3. CASE Failing
  <2>1. job' = After(job.at, markers') \/ job' = FromBaseline(markers')
    BY <1>3 DEF Failing, JobFails, PusherRestart, fvars
  <2> QED BY <1>1, <2>1, FromIsJob, AfterIsJob, AtUnmarked DEF Lands
<1> QED BY <1>2, <1>3

(* A start moves within its function, or gives up on it.                    *)
LEMMA StartingMoves ==
    ASSUME TypeOK, Starting
    PROVE  \/ /\ job'.at = job.at /\ markers' = markers
              /\ job.step \in {"start", "judge"} /\ job'.step \in {"judge", "visit"}
              /\ job'.step = "judge" => job.at = "cutover" /\ job'.left = {} /\ job'.list = Active
              /\ job'.kept = {}
           \/ Lands
<1>1. CASE BaselineStart \/ WidenStart \/ PushStart
  BY <1>1 DEF BaselineStart, WidenStart, PushStart, Begin, fvars
<1>2. CASE FixStart
  BY <1>2, FromIsJob, AtUnmarked DEF FixStart, Begin, Lands
<1>3. CASE CutoverStart
  BY <1>3 DEF CutoverStart, At
<1>4. CASE CutoverJudge
  <2>1. markers' = markers
    BY <1>4 DEF CutoverJudge, fvars
  <2> QED BY <1>4, <2>1, FromIsJob, AtUnmarked DEF CutoverJudge, Begin, Lands
<1> QED BY <1>1, <1>2, <1>3, <1>4 DEF Starting

(* A visit leaves one TFR behind.                                           *)
LEMMA LeaveShape ==
    ASSUME TypeOK, NEW t \in Tfrs, NEW keep \in BOOLEAN, Leave(t, keep)
    PROVE  /\ job'.at = job.at /\ job'.step = job.step /\ job'.left = job.left \ {t}
           /\ job'.list = [job.list EXCEPT ![t] = NoRow]
           /\ job'.kept = IF keep THEN job.kept \cup {t} ELSE job.kept
<1>1. job \in JobStates
  BY DEF TypeOK
<1> QED BY <1>1 DEF Leave, JobStates

Leaves(t) ==
    /\ Visiting(t) /\ UNCHANGED fvars
    /\ \E keep \in BOOLEAN : Leave(t, keep)
    /\ UNCHANGED fixed \/ (job.at = "fix" /\ FixSend(t))

LEMMA LoopMoves ==
    ASSUME [Next]_vars
    PROVE  \/ UNCHANGED <<fvars, fixed, job>>
           \/ \E t \in Tfrs : Leaves(t)
           \/ (Starting \/ Ending) /\ UNCHANGED fixed
           \/ Failing /\ UNCHANGED fvars /\ fixed' = [t \in Tfrs |-> 0]
<1>1. ASSUME NEW t \in Tfrs,
             \/ BaselineVisit(t) \/ FixSkip(t) \/ CutoverActs(t) \/ WidenSkip(t) \/ WidenSend(t)
             \/ Suppressed(t) \/ Push(t)
      PROVE  Leaves(t)
  BY <1>1 DEF BaselineVisit, FixSkip, CutoverActs, WidenSkip, WidenSend, Suppressed, Push, Leaves, gvars
<1>2. ASSUME NEW t \in Tfrs, FixSend(t) PROVE Leaves(t)
  BY <1>2 DEF FixSend, Leaves
<1>3. ASSUME NEW t \in Tfrs, CutoverVisit(t) \/ PushVisit(t) PROVE UNCHANGED <<fvars, fixed, job>>
  BY <1>3 DEF CutoverVisit, PushVisit, gvars
<1>4. CASE Starting \/ Ending
  BY <1>4 DEF Starting, Ending, BaselineStart, FixStart, CutoverStart, CutoverJudge, WidenStart, PushStart,
         BaselineDone, FixDone, CutoverDone, WidenDone, PushDone, gvars
<1>5. CASE SkillStep \/ PollerStep \/ World \/ SkillRestart
  BY <1>5 DEF SkillStep, SkillAsks, SkillActs, PollerStep, FetchStart, FetchDetails, Upsert, ExpireTfrs,
         FetchStamp, FetchFails, PollerRestart, World, FaaChanges, TickTock, SkillRestart, gvars
<1>6. ASSUME NEW p \in Procs, Dedup(p) PROVE UNCHANGED <<fvars, fixed, job>>
  BY <1>6 DEF Dedup
<1>7. CASE Failing
  BY <1>7 DEF Failing, JobFails, PusherRestart
<1>8. CASE UNCHANGED vars
  BY <1>8 DEF vars, gvars
<1> QED BY <1>1, <1>2, <1>3, <1>4, <1>5, <1>6, <1>7, <1>8 DEF Next, PusherStep, Starting, Ending, Failing

LEMMA LoopStep == ASSUME TypeOK, TypeOK', LoopInv, [Next]_vars PROVE LoopInv'
<1>1. "push" \notin markers /\ "push" \notin markers'
  BY DEF TypeOK
<1>2. Lands => LoopInv'
  BY <1>1 DEF Lands, LoopInv
<1>3. CASE UNCHANGED <<fvars, fixed, job>>
  BY <1>3 DEF LoopInv, fvars
<1>4. ASSUME NEW t \in Tfrs, Leaves(t) PROVE LoopInv'
  <2>1. PICK keep \in BOOLEAN : Leave(t, keep)
    BY <1>4 DEF Leaves
  <2> QED BY <1>4, <2>1, LeaveShape DEF Leaves, Visiting, LoopInv, fvars
<1>5. CASE Starting
  BY <1>2, <1>5, StartingMoves DEF LoopInv
<1> QED BY <1>2, <1>3, <1>4, <1>5, LoopMoves, EndingLands

LEMMA LoopInit == Init => LoopInv
<1>1. Init => /\ job.at \notin markers \/ job.at = "push"
              /\ job.step = "start" /\ job.left = {} /\ "push" \notin markers
  BY AtUnmarked, FromIsJob DEF Init
<1> QED BY <1>1 DEF LoopInv

-----------------------------------------------------------------------------
(* The window corrections.                                                  *)

(* Who may still be corrected: the ids of the state file, or, while the     *)
(* function is at work, those it has not come to and those it keeps.        *)
Candidates == IF job.at = "fix" /\ job.step # "start" THEN job.left \cup job.kept ELSE fixIds

Corrected(t) ==
    /\ fixed[t] \in {0, 1}
    /\ fixed[t] = 1 => "fix" \in markers \/ ("fix" \in waits /\ t \notin Candidates)

CorrectInv ==
    /\ job.at = "fix" /\ job.step # "start" => "fix" \in waits
    /\ \A t \in Tfrs : Corrected(t)

LEMMA CorrectStep ==
    ASSUME TypeOK, TypeOK', LoopInv, LoopInv', CorrectInv, [Next]_vars
    PROVE  CorrectInv'
<1>1. CASE UNCHANGED <<fvars, fixed, job>>
  BY <1>1 DEF CorrectInv, Corrected, Candidates, fvars
<1>2. ASSUME NEW u \in Tfrs, Leaves(u) PROVE CorrectInv'
  <2>1. PICK keep \in BOOLEAN : Leave(u, keep)
    BY <1>2 DEF Leaves
  <2>2. /\ job'.at = job.at /\ job'.step = job.step /\ job'.left = job.left \ {u}
        /\ job'.kept = IF keep THEN job.kept \cup {u} ELSE job.kept
    BY <2>1, LeaveShape
  <2>3. u \in job.left /\ job.step = "visit" /\ UNCHANGED fvars
    BY <1>2 DEF Leaves, Visiting
  <2>4. Candidates' \subseteq Candidates
    BY <2>2, <2>3 DEF Candidates, fvars
  <2>5. ASSUME NEW t \in Tfrs, UNCHANGED fixed PROVE Corrected(t)'
    BY <2>3, <2>4, <2>5 DEF CorrectInv, Corrected, fvars
  <2>6. ASSUME NEW t \in Tfrs, job.at = "fix", FixSend(u) PROVE Corrected(t)'
    <3>1. CASE UNCHANGED fixed
      BY <2>5, <3>1
    <3>2. CASE fixed' = [fixed EXCEPT ![u] = @ + 1] /\ Leave(u, FALSE)
      <4>1. fixed \in [Tfrs -> Nat]
        BY DEF TypeOK
      <4>2. CASE t = u
        <5>1. u \in Candidates /\ "fix" \notin markers
          BY <2>3, <2>6 DEF Candidates, LoopInv
        <5>2. fixed[u] = 0
          BY <5>1 DEF CorrectInv, Corrected
        <5>3. fixed'[u] = 1
          BY <3>2, <4>1, <5>2
        <5>4. job'.left = job.left \ {u} /\ job'.kept = job.kept
          BY <3>2, LeaveShape
        <5>5. u \notin job.kept
          BY <2>3 DEF LoopInv
        <5>6. u \notin Candidates' /\ "fix" \in waits'
          BY <2>2, <2>3, <2>6, <5>4, <5>5 DEF Candidates, CorrectInv, fvars
        <5> QED BY <4>2, <5>3, <5>6 DEF Corrected
      <4>3. CASE t # u
        <5>1. fixed'[t] = fixed[t]
          BY <3>2, <4>1, <4>3
        <5> QED BY <2>3, <2>4, <5>1 DEF CorrectInv, Corrected, fvars
      <4> QED BY <4>2, <4>3
    <3> QED BY <2>6, <3>1, <3>2 DEF FixSend
  <2> QED BY <1>2, <2>2, <2>3, <2>5, <2>6 DEF CorrectInv, Leaves, fvars
<1>3. CASE FixStart /\ UNCHANGED fixed
  <2>1. CASE /\ markers' = markers \cup {"fix"} /\ job' = FromCutover(markers')
             /\ UNCHANGED <<fixIds, waits>>
    <3>1. job'.at # "fix"
      BY <2>1 DEF LoopInv
    <3> QED BY <1>3, <2>1, <3>1 DEF CorrectInv, Corrected
  <2>2. CASE \E ids : /\ Begin("fix", Active, ids) /\ fixIds' = ids /\ UNCHANGED markers
                      /\ waits' = waits \cup {"fix"}
                      /\ "fix" \in waits => ids = fixIds
    <3>1. job'.left = fixIds' /\ job'.kept = {} /\ ("fix" \in waits => fixIds' = fixIds)
      BY <2>2 DEF Begin
    <3>2. Candidates' = fixIds'
      BY <3>1 DEF Candidates
    <3>3. Candidates = fixIds
      BY <1>3 DEF Candidates, FixStart
    <3> QED BY <1>3, <2>2, <3>1, <3>2, <3>3 DEF CorrectInv, Corrected
  <2> QED BY <1>3, <2>1, <2>2 DEF FixStart
<1>4. CASE FixDone /\ UNCHANGED fixed
  <2>1. Lands
    BY <1>4, EndingLands DEF Ending
  <2>2. Candidates = job.kept
    BY <1>4 DEF FixDone, Over, Candidates
  <2>3. Candidates' = fixIds'
    BY <2>1 DEF Lands, Candidates
  <2>4. \/ fixIds' = job.kept /\ UNCHANGED <<waits, markers>>
        \/ "fix" \in markers'
    BY <1>4 DEF FixDone
  <2> QED BY <1>4, <2>1, <2>2, <2>3, <2>4 DEF CorrectInv, Corrected, Lands
<1>5. CASE (Starting \/ Ending) /\ ~FixStart /\ ~FixDone /\ UNCHANGED fixed
  <2>1. /\ job.at # "fix" /\ fixIds' = fixIds
        /\ "fix" \in waits => "fix" \in waits'
        /\ markers \subseteq markers'
    BY <1>5 DEF Starting, Ending, BaselineStart, CutoverStart, CutoverJudge, WidenStart, PushStart,
           BaselineDone, CutoverDone, WidenDone, PushDone, fvars
  <2>2. job'.at = "fix" => job'.step = "start"
    BY <1>5, <2>1, StartingMoves, EndingLands DEF Lands
  <2>3. Candidates = fixIds /\ Candidates' = fixIds'
    BY <2>1, <2>2 DEF Candidates
  <2> QED BY <1>5, <2>1, <2>2, <2>3 DEF CorrectInv, Corrected
<1>6. CASE Failing /\ UNCHANGED fvars /\ fixed' = [t \in Tfrs |-> 0]
  BY <1>6, EndingLands DEF Lands, CorrectInv, Corrected
<1> QED BY <1>1, <1>2, <1>3, <1>4, <1>5, <1>6, LoopMoves

(* A window correction goes out once, however the rows, the restarts of the *)
(* others and the give-up times fall, as long as the pusher itself does not *)
(* restart or raise in between.                                             *)
THEOREM CorrectionsGoOutOnce == Spec => []CorrectedOnce
<1>1. Init => LoopInv /\ CorrectInv
  <2>1. Init => CorrectInv
    BY FromIsJob DEF Init, CorrectInv, Corrected
  <2> QED BY <2>1, LoopInit
<1>2. TfrInv /\ TfrInv' /\ LoopInv /\ CorrectInv /\ [Next]_vars => (LoopInv /\ CorrectInv)'
  BY LoopStep, CorrectStep DEF TfrInv
<1>3. CorrectInv => CorrectedOnce
  BY DEF CorrectInv, Corrected, CorrectedOnce
<1> QED BY <1>1, <1>2, <1>3, TfrInvariant, PTL DEF Spec

-----------------------------------------------------------------------------
(* Who is visited by which function.                                        *)
LeftRight ==
    /\ job.at = "baseline" => \A t \in job.left : IsVip(t)
    /\ job.at = "cutover" => job.left \cap Widened = {}
    /\ job.at = "widen" => job.left \subseteq Widened
    /\ job.at = "widen" /\ job.step = "visit" => job.kept \subseteq Widened
    /\ job.at = "push" => \A t \in job.left : /\ t \in Widened => "widen" \in markers
                                              /\ IsVip(t) \/ "cutover" \in markers

LEMMA LeftRightStep ==
    ASSUME TypeOK, LoopInv, LeftRight, [Next]_vars
    PROVE  LeftRight'
<1>1. Lands => LeftRight'
  BY DEF Lands, LeftRight
<1>2. CASE UNCHANGED <<fvars, fixed, job>>
  BY <1>2 DEF LeftRight, fvars
<1>3. ASSUME NEW t \in Tfrs, Leaves(t) PROVE LeftRight'
  <2>1. PICK keep \in BOOLEAN : Leave(t, keep)
    BY <1>3 DEF Leaves
  <2>2. /\ job'.at = job.at /\ job'.step = job.step /\ job'.left \subseteq job.left
        /\ job'.kept \subseteq job.kept \cup {t} /\ t \in job.left /\ markers' = markers
    BY <1>3, <2>1, LeaveShape DEF Leaves, Visiting, fvars
  <2> QED BY <2>2 DEF LeftRight
<1>4. CASE BaselineStart
  BY <1>4 DEF BaselineStart, Begin, LeftRight
<1>5. CASE FixStart
  <2>1. CASE markers' = markers \cup {"fix"} /\ job' = FromCutover(markers')
    <3>1. Lands
      BY <2>1, FromIsJob, AtUnmarked DEF Lands
    <3> QED BY <1>1, <3>1
  <2>2. CASE job'.at = "fix"
    BY <2>2 DEF LeftRight
  <2> QED BY <1>5, <2>1, <2>2 DEF FixStart, Begin
<1>6. CASE CutoverStart
  BY <1>6 DEF CutoverStart, At, LeftRight
<1>7. CASE CutoverJudge
  <2>1. CASE job' = FromWiden(markers)
    <3>1. markers' = markers
      BY <1>7 DEF CutoverJudge, fvars
    <3>2. Lands
      BY <2>1, <3>1, FromIsJob, AtUnmarked DEF Lands
    <3> QED BY <1>1, <3>2
  <2>2. CASE Begin("cutover", job.list, {t \in Listed(job.list) : IsSecurity(t)} \ Widened)
    BY <2>2 DEF Begin, LeftRight
  <2> QED BY <1>7, <2>1, <2>2 DEF CutoverJudge
<1>8. CASE WidenStart
  BY <1>8 DEF WidenStart, Begin, LeftRight
<1>9. CASE PushStart
  <2>1. /\ job'.at = "push" /\ markers' = markers
        /\ job'.left = {t \in Listed(Active) : /\ VipClass(t, Active[t])
                                               /\ SecurityOnly(t, Active[t]) => "cutover" \in markers
                                               /\ t \in Widened => "widen" \in markers}
    BY <1>9 DEF PushStart, Begin, fvars
  <2> QED BY <2>1 DEF LeftRight, VipClass, SecurityOnly
<1>10. CASE Ending \/ Failing
  BY <1>1, <1>10, EndingLands
<1> QED BY <1>2, <1>3, <1>4, <1>5, <1>6, <1>7, <1>8, <1>9, <1>10, LoopMoves DEF Starting

LEMMA LeftRightInit == Init => LeftRight
  BY FromIsJob DEF Init, LeftRight

-----------------------------------------------------------------------------
(* What happens to the pusher's call.                                       *)

(* An alert is given: t, which is visited, is recorded, and sent but for a  *)
(* function that silences.                                                  *)
Gives(t) ==
    /\ Visiting(t) /\ job.at # "fix"
    /\ Record(Pusher, t, job.list[t].text) /\ Leave(t, FALSE)
    /\ UNCHANGED <<disk, now, markers, rows, day>>
    /\ IF Silencing THEN UNCHANGED last ELSE Sent(t, job.list[t].text)
    /\ job.at \in {"cutover", "push"} => ToldOf(t) /\ call[Pusher].push

(* Nothing is under way in the file, nor any answer given.                  *)
Passive ==
    /\ call'[Pusher].at \notin Writes \cup {"told"}
    /\ Failing \/ (last' = last /\ call[Pusher].at \notin Writes)

(* Another's step, or one of the loop that has nothing to do with the call. *)
Stands ==
    /\ call'[Pusher] = call[Pusher] /\ last' = last
    /\ UNCHANGED <<markers, job>> \/ \E u \in Tfrs : Leaves(u) /\ job.at \in {"fix", "widen"}

(* The file's part of the call.                                             *)
Answers == Dedup(Pusher) /\ (Hit(Pusher) \/ Reload(Pusher))
Takes   == Dedup(Pusher) /\ Take(Pusher)
Files   == Dedup(Pusher) /\ Replace(Pusher)

LEMMA CallMoves ==
    ASSUME TypeOK, Calling, [Next]_vars
    PROVE  Passive \/ Stands \/ Answers \/ Takes \/ Files \/ \E t \in Tfrs : Gives(t)
<1> USE TheProcesses DEF Writes
<1>0. DedupTypeOK
  BY TypeParts
<1>1. ASSUME NEW t \in Tfrs, BaselineVisit(t) PROVE Gives(t)
  BY <1>1 DEF BaselineVisit, Visiting, Silencing, Gives, Record, wvars, fvars, gvars
<1>2. ASSUME NEW t \in Tfrs, FixSkip(t) \/ FixSend(t) \/ WidenSkip(t) PROVE Stands
  <2>1. Leaves(t) /\ job.at \in {"fix", "widen"}
    BY <1>2 DEF FixSkip, FixSend, WidenSkip, Leaves, gvars
  <2> QED BY <1>2, <2>1 DEF FixSkip, FixSend, WidenSkip, Stands, dvars, gvars
<1>3. ASSUME NEW t \in Tfrs, CutoverVisit(t) \/ PushVisit(t) PROVE Passive
  BY <1>0, <1>3 DEF CutoverVisit, PushVisit, AskAbout, Ask, Passive, gvars, Idle, DedupTypeOK
<1>4. ASSUME Return(Pusher), last' = last PROVE Passive
  <2>1. call'[Pusher].at = "idle"
    BY <1>0, <1>4 DEF Return, Idle, DedupTypeOK
  <2> QED BY <1>4, <2>1 DEF Passive, Return
<1>5. ASSUME NEW t \in Tfrs, CutoverActs(t) PROVE Gives(t) \/ Passive
  <2>1. CASE call[Pusher].push
    BY <1>5, <2>1 DEF CutoverActs, Gives, Silencing, Record, wvars, fvars, gvars
  <2>2. CASE ~call[Pusher].push
    BY <1>4, <1>5, <2>2 DEF CutoverActs, gvars
  <2> QED BY <1>5, <2>1, <2>2 DEF CutoverActs
<1>6. ASSUME NEW t \in Tfrs, Suppressed(t) PROVE Passive
  BY <1>4, <1>6 DEF Suppressed, gvars
<1>7. ASSUME NEW t \in Tfrs, WidenSend(t) PROVE Gives(t) \/ Stands
  <2>1. CASE Sent(t, job.list[t].text) /\ Record(Pusher, t, job.list[t].text) /\ Leave(t, FALSE) /\ UNCHANGED day
    BY <1>7, <2>1 DEF WidenSend, Gives, Silencing, Record, wvars, fvars
  <2>2. CASE Leave(t, TRUE) /\ UNCHANGED <<heard, last, dvars>>
    <3>1. Leaves(t)
      BY <1>7, <2>2 DEF WidenSend, Leaves
    <3> QED BY <1>7, <2>2, <3>1 DEF WidenSend, Stands, dvars
  <2> QED BY <1>7, <2>1, <2>2 DEF WidenSend
<1>8. ASSUME NEW t \in Tfrs, Push(t) PROVE Gives(t) \/ Passive
  <2>1. CASE Sent(t, job.list[t].text) /\ Record(Pusher, t, job.list[t].text) /\ UNCHANGED day
    BY <1>8, <2>1 DEF Push, Gives, Silencing, Record, wvars, fvars
  <2>2. CASE Return(Pusher) /\ UNCHANGED last
    BY <1>4, <2>2
  <2> QED BY <1>8, <2>1, <2>2 DEF Push
<1>9. CASE Starting \/ Ending
  <2>1. UNCHANGED <<call, last>>
    BY <1>9 DEF Starting, Ending, BaselineStart, FixStart, CutoverStart, CutoverJudge, WidenStart, PushStart,
           BaselineDone, FixDone, CutoverDone, WidenDone, PushDone, dvars, gvars
  <2>2. call[Pusher] = Idle
    BY <1>9 DEF Starting, Ending, BaselineStart, FixStart, CutoverStart, CutoverJudge, WidenStart, PushStart,
           BaselineDone, FixDone, CutoverDone, WidenDone, PushDone, Over, Calling, Free
  <2> QED BY <2>1, <2>2 DEF Passive, Idle
<1>10. CASE Failing
  <2>1. call'[Pusher].at = "idle"
    BY <1>0, <1>10 DEF Failing, JobFails, PusherRestart, Abandon, Die, Idle, DedupTypeOK
  <2> QED BY <1>10, <2>1 DEF Passive
<1>11. CASE SkillStep \/ SkillRestart
  BY <1>0, <1>11 DEF SkillStep, SkillAsks, SkillActs, Ask, Record, Return, SkillRestart, Die,
                     Stands, DedupTypeOK, fvars, gvars
<1>12. CASE PollerStep \/ World
  BY <1>12 DEF PollerStep, FetchStart, FetchDetails, Upsert, ExpireTfrs, FetchStamp, FetchFails, PollerRestart,
               World, FaaChanges, TickTock, Tick, Stands, dvars, fvars, gvars
<1>13. CASE Dedup(Pusher)
  <2>1. CASE Miss(Pusher) \/ Restat(Pusher)
    <3>1. call'[Pusher].at \in {"read", "idle"} /\ call[Pusher].at \in {"stat", "restat"}
      BY <1>0, <2>1 DEF Miss, Restat, Idle, DedupTypeOK
    <3> QED BY <1>13, <3>1 DEF Dedup, Passive
  <2> QED BY <1>13, <2>1 DEF Dedup, DedupStep, Answers, Takes, Files
<1>14. CASE Dedup(Skill)
  <2>1. UNCHANGED <<last, markers, job>>
    BY <1>14 DEF Dedup, fvars
  <2>2. CASE Replace(Skill) /\ call[Pusher].at = "read"
    <3>1. call[Pusher] \in [at : {"read"}, key : Keys, hash : Hashes, periodic : BOOLEAN, current : BOOLEAN]
      BY <1>0, <2>2, CallShape DEF DedupTypeOK
    <3>2. call'[Pusher].at = "read"
      BY <2>2, <3>1 DEF Replace
    <3> QED BY <2>1, <2>2, <3>2 DEF Passive
  <2>3. CASE ~(Replace(Skill) /\ call[Pusher].at = "read")
    <3>1. call'[Pusher] = call[Pusher]
      BY <1>0, <1>14, <2>3 DEF Dedup, DedupStep, Hit, Miss, Reload, Take, Replace, Restat, DedupTypeOK
    <3> QED BY <2>1, <3>1 DEF Stands
  <2> QED BY <2>2, <2>3
<1>15. CASE UNCHANGED vars
  BY <1>15 DEF vars, dvars, fvars, gvars, Stands
<1>16. Procs = {Pusher, Skill}
  BY TfrAssumption
<1> QED BY <1>1, <1>2, <1>3, <1>5, <1>6, <1>7, <1>8, <1>9, <1>10, <1>11, <1>12, <1>13, <1>14, <1>15, <1>16
        DEF Next, PusherStep, Starting, Ending, Failing

-----------------------------------------------------------------------------
(* What is remembered of the alerts that were given.                        *)

(* What is being written is the last alert of its TFR, unless it is to be   *)
(* silenced.                                                                *)
WriteInv ==
    LET c == call[Pusher]
    IN c.at \in Writes =>
         /\ c.key \notin job.left
         /\ job.at = "baseline" => IsVip(c.key)
         /\ job.at = "cutover" => c.key \notin Widened
         /\ ~Silencing => c.entry.ts = last[c.key].ts /\ c.entry.hash = last[c.key].text

LEMMA StandsLoop ==
    ASSUME TypeOK, Stands
    PROVE  job'.at = job.at /\ job'.left \subseteq job.left /\ markers' = markers
<1>1. CASE UNCHANGED <<markers, job>>
  BY <1>1
<1>2. CASE \E u \in Tfrs : Leaves(u)
  BY <1>2, LeaveShape DEF Leaves, fvars
<1> QED BY <1>1, <1>2 DEF Stands

LEMMA GivesShape ==
    ASSUME TypeOK, NEW t \in Tfrs, Gives(t)
    PROVE  /\ job'.at = job.at /\ job'.step = job.step /\ job'.left = job.left \ {t}
           /\ job'.kept = job.kept /\ t \in job.left
           /\ call[Pusher].at \in {"idle", "told"}
           /\ call'[Pusher] = [at |-> "lock", key |-> t,
                               entry |-> [ts |-> now, hash |-> job.list[t].text]]
           /\ Silencing => UNCHANGED last
           /\ ~Silencing =>
                last' = [last EXCEPT ![t] = [text |-> job.list[t].text, ts |-> now, once |-> Senders]]
<1>1. DedupTypeOK
  BY TypeParts
<1> QED BY <1>1, TheProcesses, LeaveShape DEF Gives, Visiting, Record, Sent, DedupTypeOK

LEMMA TakesShape ==
    ASSUME TypeOK, Takes
    PROVE  /\ call[Pusher].at = "lock" /\ call'[Pusher].at = "write"
           /\ call'[Pusher].key = call[Pusher].key /\ call'[Pusher].entry = call[Pusher].entry
           /\ UNCHANGED <<last, job, disk, now, markers>>
<1>1. DedupTypeOK
  BY TypeParts
<1> QED BY <1>1, TheProcesses DEF Takes, Dedup, Take, DedupTypeOK, fvars

LEMMA AnswersShape ==
    ASSUME TypeOK, Calling, CacheFresh, Answers
    PROVE  LET c == call[Pusher]
           IN /\ c.at \in {"stat", "read"} /\ ~c.periodic
              /\ call'[Pusher] = Told(c.key, c.hash, FALSE, disk)
              /\ UNCHANGED <<last, job, disk, now, markers, rows>>
<1>1. DedupTypeOK
  BY TypeParts
<1>2. call[Pusher].at \in {"stat", "read"} /\ UNCHANGED <<last, job, disk, now, markers, rows>>
  BY DEF Answers, Dedup, Hit, Reload, fvars, wvars
<1>3. ~call[Pusher].periodic
  BY <1>2 DEF Calling, Asking
<1>4. call[Pusher].periodic \in BOOLEAN
  BY <1>1, <1>2, TheProcesses, CallShape DEF DedupTypeOK
<1>5. call[Pusher].periodic = FALSE
  BY <1>3, <1>4
<1>6. CASE Hit(Pusher)
  <2>1. cache[Pusher].view = disk
    BY <1>6, TheProcesses DEF Hit, CacheFresh
  <2> QED BY <1>1, <1>2, <1>3, <1>5, <1>6, <2>1, TheProcesses DEF Hit, DedupTypeOK
<1>7. CASE Reload(Pusher)
  BY <1>1, <1>2, <1>3, <1>5, <1>7, TheProcesses DEF Reload, DedupTypeOK
<1> QED BY <1>6, <1>7 DEF Answers

LEMMA FilesShape ==
    ASSUME TypeOK, Calling, CacheFresh, Files
    PROVE  /\ call[Pusher].at = "write" /\ call[Pusher].key \in Tfrs
           /\ call[Pusher].entry \in Entries /\ call'[Pusher].at = "restat"
           /\ disk'[call[Pusher].key] = call[Pusher].entry
           /\ UNCHANGED <<job, now, markers, rows>>
           /\ Silencing => last' = [last EXCEPT ![call[Pusher].key] =
                   [text |-> call[Pusher].entry.hash, ts |-> call[Pusher].entry.ts, once |-> Senders]]
           /\ ~Silencing => UNCHANGED last
<1>1. DedupTypeOK
  BY TypeParts
<1>2. call[Pusher].at = "write"
  BY DEF Files, Replace
<1>3. call[Pusher] \in [at : {"write", "restat"}, key : Keys, entry : Entries, dict : Dicts]
  BY <1>1, <1>2, TheProcesses, CallShape DEF DedupTypeOK
<1>4. call[Pusher].key \in Tfrs
  BY <1>2 DEF Calling
<1>5. call'[Pusher].at = "restat"
  BY <1>3, TheProcesses DEF Files, Replace
<1>6. disk'[call[Pusher].key] = call[Pusher].entry
  BY <1>2, TheProcesses DEF Files, Replace, CacheFresh
<1> QED BY <1>2, <1>3, <1>4, <1>5, <1>6 DEF Files, Dedup, Replace, fvars, wvars

LEMMA WriteStep ==
    ASSUME TypeOK, Calling, CacheFresh, LeftRight, WriteInv, [Next]_vars
    PROVE  WriteInv'
<1>1. CASE Passive
  BY <1>1 DEF Passive, WriteInv
<1>2. CASE Stands
  BY <1>2, StandsLoop DEF Stands, WriteInv, Silencing
<1>3. CASE Answers
  BY <1>3, AnswersShape DEF Told, WriteInv, Writes
<1>4. CASE Takes
  BY <1>4, TakesShape DEF WriteInv, Writes, Silencing
<1>5. CASE Files
  BY <1>5, FilesShape DEF WriteInv, Writes
<1>6. ASSUME NEW t \in Tfrs, Gives(t) PROVE WriteInv'
  <2>1. last \in [Tfrs -> News]
    BY TypeParts DEF Given_OK
  <2>2. job.at = "baseline" => IsVip(t)
    BY <1>6, GivesShape DEF LeftRight
  <2>3. job.at = "cutover" => t \notin Widened
    BY <1>6, GivesShape DEF LeftRight
  <2>4. ~Silencing => last'[t].ts = now /\ last'[t].text = job.list[t].text
    <3>1. ~Silencing =>
             last' = [last EXCEPT ![t] = [text |-> job.list[t].text, ts |-> now, once |-> Senders]]
      BY <1>6, GivesShape
    <3> QED BY <2>1, <3>1
  <2>5. /\ call'[Pusher].key = t
        /\ call'[Pusher].entry.ts = now /\ call'[Pusher].entry.hash = job.list[t].text
    <3>1. call'[Pusher] = [at |-> "lock", key |-> t,
                           entry |-> [ts |-> now, hash |-> job.list[t].text]]
      BY <1>6, GivesShape
    <3> QED BY ONLY <3>1
  <2>6. job'.at = job.at /\ t \notin job'.left
    BY <1>6, GivesShape
  <2> QED BY <2>2, <2>3, <2>4, <2>5, <2>6 DEF WriteInv, Silencing
<1> QED BY <1>1, <1>2, <1>3, <1>4, <1>5, <1>6, CallMoves

(* Who was told of a text, and by which paths it is not to be told again,   *)
(* has it in the file, or it is on its way there, until the retention ends. *)
Lasts(t) == now - last[t].ts >= Retention

Kept(t) ==
    last[t].text # NoHash =>
      /\ last[t].ts >= 1
      /\ "push" \in last[t].once =>
           \/ Lasts(t)
           \/ disk[t].ts = last[t].ts /\ disk[t].hash = last[t].text
           \/ call[Pusher].at \in Writes /\ call[Pusher].key = t /\ ~Silencing

RecordedInv == \A t \in Tfrs : Kept(t)

LEMMA TimeGoesOn ==
    ASSUME TypeOK, Calling, [Next]_vars
    PROVE  now \in Nat /\ now' \in Nat /\ now' >= now
<1>1. now \in Nat
  BY TypeParts DEF DedupTypeOK
<1>2. now' = now \/ now' = now + 1
  BY DedupPart DEF DedupNext, DedupStep, Tick, Hit, Miss, Reload, Take, Replace, Restat, Return,
                   Abandon, Die, Record, Ask, dvars
<1> QED BY <1>1, <1>2

LEMMA UnsureKeeps ==
    ASSUME TypeOK, Unsure, NEW t \in Tfrs
    PROVE  /\ last'[t].text = last[t].text /\ last'[t].ts = last[t].ts
           /\ last'[t].once \subseteq last[t].once
           /\ call[Pusher].at \in Writes /\ call[Pusher].key = t /\ ~Silencing => last'[t].once = {}
           /\ job.at = "widen" /\ t \in Widened => "widen" \notin last'[t].once
<1>1. last[t] \in News
  BY TypeParts DEF Given_OK
<1> QED BY <1>1 DEF Unsure, News, Writes

(* An alert that is kept stays so while its last news does.                 *)
LEMMA LastsOn ==
    ASSUME TypeOK, Calling, [Next]_vars, NEW t \in Tfrs, last'[t].ts = last[t].ts, Lasts(t)
    PROVE  Lasts(t)'
<1> DEFINE s == last[t].ts
<1>1. s \in Nat /\ Retention \in Nat
  BY TypeParts, DedupAssumption DEF Given_OK, News
<1>2. last'[t].ts = s /\ now - s >= Retention
  BY DEF Lasts
<1> HIDE DEF s
<1>3. now' - s >= Retention
  BY <1>1, <1>2, TimeGoesOn
<1> QED BY <1>2, <1>3 DEF Lasts

LEMMA FadesKept ==
    ASSUME TypeOK, TypeOK', Calling, [Next]_vars, NEW t \in Tfrs, last'[t].ts = last[t].ts,
           last'[t].text = last[t].text, Fades(t),
           disk[t].ts = last[t].ts /\ disk[t].hash = last[t].text
    PROVE  Lasts(t)' \/ (disk'[t].ts = last'[t].ts /\ disk'[t].hash = last'[t].text)
<1>1. CASE disk'[t] = disk[t]
  BY <1>1
<1>2. CASE now - disk[t].ts > Retention
  <2>1. Lasts(t)
    <3> DEFINE s == last[t].ts
    <3>1. s \in Nat /\ Retention \in Nat /\ now \in Nat
      BY TypeParts, TimeGoesOn, DedupAssumption DEF Given_OK, News
    <3>2. now - s > Retention
      BY <1>2
    <3> HIDE DEF s
    <3>3. now - s >= Retention
      BY <3>1, <3>2
    <3> QED BY <3>3 DEF Lasts, s
  <2> QED BY <2>1, LastsOn
<1> QED BY <1>1, <1>2 DEF Fades

LEMMA RecordedStep ==
    ASSUME TypeOK, TypeOK', Calling, CacheFresh, WriteInv, RecordedInv, [Next]_vars
    PROVE  RecordedInv'
<1> SUFFICES ASSUME NEW t \in Tfrs PROVE Kept(t)'
  BY DEF RecordedInv
<1> USE TheProcesses
<1>1. Kept(t)
  BY DEF RecordedInv
<1>2. last \in [Tfrs -> News] /\ now \in 1 .. MaxNow
  BY TypeParts DEF Given_OK, DedupTypeOK
<1>3. ASSUME last'[t].text = last[t].text, last'[t].ts = last[t].ts,
             last'[t].once \subseteq last[t].once, Fades(t),
             call[Pusher].at \in Writes /\ call[Pusher].key = t /\ ~Silencing
               => \/ (call'[Pusher].at \in Writes /\ call'[Pusher].key = t /\ ~Silencing')
                  \/ last'[t].once = {}
      PROVE  Kept(t)'
  BY <1>1, <1>3, LastsOn, FadesKept DEF Kept
<1>4. Fades(t) \/ (Files /\ call[Pusher].key = t)
  BY SlotStep DEF Files, Dedup, DedupStep, Hit, Miss, Reload, Take, Restat
<1>5. CASE Passive /\ ~Files
  <2>1. last'[t].text = last[t].text /\ last'[t].ts = last[t].ts /\ last'[t].once \subseteq last[t].once
    BY <1>5, UnsureKeeps DEF Passive, Failing, JobFails, PusherRestart
  <2>2. call[Pusher].at \in Writes /\ call[Pusher].key = t /\ ~Silencing => last'[t].once = {}
    BY <1>5, UnsureKeeps DEF Passive, Failing, JobFails, PusherRestart
  <2> QED BY <1>3, <1>4, <1>5, <2>1, <2>2
<1>6. CASE (Stands \/ Answers \/ Takes) /\ ~Files
  <2>1. last' = last
    BY <1>6, AnswersShape, TakesShape DEF Stands
  <2>2. call[Pusher].at \in Writes /\ call[Pusher].key = t /\ ~Silencing
           => call'[Pusher].at \in Writes /\ call'[Pusher].key = t /\ ~Silencing'
    <3>1. CASE Stands
      BY <3>1, StandsLoop DEF Stands, Silencing
    <3>2. CASE Answers
      BY <3>2, AnswersShape DEF Writes
    <3>3. CASE Takes
      BY <3>3, TakesShape DEF Writes, Silencing
    <3> QED BY <1>6, <3>1, <3>2, <3>3
  <2> QED BY <1>3, <1>4, <1>6, <2>1, <2>2
<1>7. CASE Files
  <2> DEFINE c == call[Pusher]
  <2>1. c.at \in Writes /\ c.key \in Tfrs /\ c.entry \in Entries /\ disk'[c.key] = c.entry
    BY <1>7, FilesShape DEF Writes
  <2>2. CASE t = c.key
    <3>1. c.entry.ts >= 1
      BY <2>1, DedupAssumption DEF Entries
    <3>2. last'[t].ts = c.entry.ts /\ last'[t].text = c.entry.hash
      <4>1. CASE Silencing
        <5>1. last' = [last EXCEPT ![c.key] = [text |-> c.entry.hash, ts |-> c.entry.ts, once |-> Senders]]
          BY <1>7, <4>1, FilesShape
        <5> QED BY <1>2, <2>2, <5>1
      <4>2. CASE ~Silencing
        BY <1>7, <2>1, <2>2, <4>2, FilesShape DEF WriteInv
      <4> QED BY <4>1, <4>2
    <3> QED BY <2>1, <2>2, <3>1, <3>2 DEF Kept
  <2>3. CASE t # c.key
    <3>1. last'[t] = last[t]
      <4>1. CASE Silencing
        <5>1. last' = [last EXCEPT ![c.key] = [text |-> c.entry.hash, ts |-> c.entry.ts, once |-> Senders]]
          BY <1>7, <4>1, FilesShape
        <5> QED BY <1>2, <2>3, <5>1
      <4>2. CASE ~Silencing
        BY <1>7, <4>2, FilesShape
      <4> QED BY <4>1, <4>2
    <3> QED BY <1>3, <1>4, <2>3, <3>1
  <2> QED BY <2>2, <2>3
<1>8. ASSUME NEW u \in Tfrs, Gives(u) PROVE Kept(t)'
  <2>1. /\ call'[Pusher].at = "lock" /\ call'[Pusher].key = u /\ job'.at = job.at
        /\ call[Pusher].at \in {"idle", "told"}
    <3>1. /\ call'[Pusher] = [at |-> "lock", key |-> u,
                              entry |-> [ts |-> now, hash |-> job.list[u].text]]
          /\ job'.at = job.at /\ call[Pusher].at \in {"idle", "told"}
      BY <1>8, GivesShape
    <3> QED BY ONLY <3>1
  <2>2. disk' = disk
    BY <1>8 DEF Gives
  <2>3. CASE t = u /\ ~Silencing
    <3>1. last' = [last EXCEPT ![t] = [text |-> job.list[t].text, ts |-> now, once |-> Senders]]
      BY <1>8, <2>3, GivesShape
    <3>2. last'[t].ts >= 1
      <4>1. last'[t].ts = now
        BY <1>2, <3>1
      <4> QED BY <1>2, <4>1
    <3> QED BY <2>1, <2>3, <3>2 DEF Kept, Writes, Silencing
  <2>4. CASE ~(t = u /\ ~Silencing)
    <3>1. last'[t] = last[t]
      <4>1. CASE Silencing
        BY <1>8, <4>1, GivesShape
      <4>2. CASE ~Silencing
        <5>1. last' = [last EXCEPT ![u] = [text |-> job.list[u].text, ts |-> now, once |-> Senders]]
          BY <1>8, <4>2, GivesShape
        <5> QED BY <1>2, <2>4, <4>2, <5>1
      <4> QED BY <4>1, <4>2
    <3>2. call[Pusher].at \notin Writes
      BY <2>1 DEF Writes
    <3>3. Fades(t)
      BY <2>2 DEF Fades
    <3> QED BY <1>3, <3>1, <3>2, <3>3
  <2> QED BY <2>3, <2>4
<1> QED BY <1>5, <1>6, <1>7, <1>8, CallMoves

(* An answer to send means that the text is not the last one given, or that *)
(* its retention is over.                                                   *)
AnswerInv ==
    LET c == call[Pusher]
    IN c.at = "told" /\ c.push /\ last[c.key].text = c.hash /\ "push" \in last[c.key].once
         => Lasts(c.key)

LEMMA AnswerStep ==
    ASSUME TypeOK, TypeOK', Calling, CacheFresh, RecordedInv, AnswerInv, [Next]_vars
    PROVE  AnswerInv'
<1> DEFINE c == call[Pusher]
           k == c.key
<1>1. CASE Passive \/ Takes \/ Files \/ \E t \in Tfrs : Gives(t)
  <2>1. call'[Pusher].at # "told"
    <3>1. CASE Passive
      BY <3>1 DEF Passive
    <3>2. CASE Takes
      BY <3>2, TakesShape
    <3>3. CASE Files
      BY <3>3, FilesShape
    <3>4. ASSUME NEW t \in Tfrs, Gives(t) PROVE call'[Pusher].at # "told"
      <4>1. call'[Pusher] = [at |-> "lock", key |-> t,
                             entry |-> [ts |-> now, hash |-> job.list[t].text]]
        BY <3>4, GivesShape
      <4> QED BY ONLY <4>1
    <3> QED BY <1>1, <3>1, <3>2, <3>3, <3>4
  <2> QED BY <2>1 DEF AnswerInv
<1>2. CASE Stands
  <2>1. call'[Pusher] = c /\ last' = last
    BY <1>2 DEF Stands
  <2>2. SUFFICES ASSUME c.at = "told", c.push, last[k].text = c.hash, "push" \in last[k].once
                 PROVE  Lasts(k)'
    BY <2>1 DEF AnswerInv
  <2>3. Lasts(k) /\ k \in Tfrs
    BY <2>2 DEF AnswerInv, Calling
  <2> QED BY <2>1, <2>3, LastsOn
<1>3. CASE Answers
  <2>1. /\ c.at \in {"stat", "read"}
        /\ call'[Pusher] = Told(c.key, c.hash, FALSE, disk)
        /\ UNCHANGED <<last, disk, now>>
    BY <1>3, AnswersShape
  <2>2. k \in Tfrs /\ c.hash = job.list[k].text /\ k \in job.left /\ job.at \in {"cutover", "push"}
    BY <2>1 DEF Calling, Asking
  <2>3. call'[Pusher].key = k /\ call'[Pusher].hash = c.hash /\ call'[Pusher].push = ShouldPush(disk[k], c.hash, now)
    BY <2>1 DEF Told
  <2>4. c.hash \in Hashes
    BY <2>1, TheProcesses, CallShape, TypeParts DEF DedupTypeOK
  <2> SUFFICES ASSUME ShouldPush(disk[k], c.hash, now), last[k].text = c.hash, "push" \in last[k].once
               PROVE  Lasts(k)
    BY <2>1, <2>3 DEF AnswerInv, Lasts
  <2>5. last[k].text # NoHash
    BY <2>4, DedupAssumption
  <2>6. /\ last[k].ts >= 1
        /\ Lasts(k) \/ (disk[k].ts = last[k].ts /\ disk[k].hash = last[k].text)
    BY <2>1, <2>2, <2>5 DEF RecordedInv, Kept, Writes
  <2>7. disk[k].ts = last[k].ts /\ disk[k].hash = last[k].text => now - last[k].ts >= Retention
    BY <2>6 DEF ShouldPush
  <2> QED BY <2>6, <2>7 DEF Lasts
<1> QED BY <1>1, <1>2, <1>3, CallMoves
-----------------------------------------------------------------------------
(* Once per retention.                                                      *)

(* A news of t is a send, or a silencing that reached the file.             *)
LEMMA NewsMoves ==
    ASSUME TypeOK, Calling, CacheFresh, [Next]_vars, NEW t \in Tfrs
    PROVE  \/ last'[t] = last[t]
           \/ Unsure
           \/ Gives(t) /\ ~Silencing
           \/ Files /\ call[Pusher].key = t /\ Silencing
<1>1. last \in [Tfrs -> News]
  BY TypeParts DEF Given_OK
<1>2. CASE Passive
  BY <1>2 DEF Passive, Failing, JobFails, PusherRestart
<1>3. CASE Stands \/ Answers \/ Takes
  BY <1>3, AnswersShape, TakesShape DEF Stands
<1>4. CASE Files
  <2>1. CASE Silencing
    <3>1. last' = [last EXCEPT ![call[Pusher].key] =
             [text |-> call[Pusher].entry.hash, ts |-> call[Pusher].entry.ts, once |-> Senders]]
      BY <1>4, <2>1, FilesShape
    <3> QED BY <1>1, <1>4, <2>1, <3>1
  <2>2. CASE ~Silencing
    BY <1>4, <2>2, FilesShape
  <2> QED BY <2>1, <2>2
<1>5. ASSUME NEW u \in Tfrs, Gives(u)
      PROVE  last'[t] = last[t] \/ (Gives(t) /\ ~Silencing)
  <2>1. CASE Silencing
    BY <1>5, <2>1, GivesShape
  <2>2. CASE ~Silencing
    <3>1. last' = [last EXCEPT ![u] = [text |-> job.list[u].text, ts |-> now, once |-> Senders]]
      BY <1>5, <2>2, GivesShape
    <3> QED BY <1>1, <1>5, <2>2, <3>1
  <2> QED BY <2>1, <2>2
<1> QED BY <1>2, <1>3, <1>4, <1>5, CallMoves

(* The widen correction's alert is out only while its function has still to *)
(* write its marker, and has left the TFR behind.                           *)
WidenSent(t) == last[t].text # NoHash /\ "widen" \in last[t].once

WidenInv ==
    \A t \in Widened :
        WidenSent(t) /\ "widen" \notin markers =>
            job.at = "widen" /\ job.step = "visit" /\ t \notin job.left \cup job.kept

LEMMA MarkersStay == ASSUME TypeOK, [Next]_vars PROVE markers \subseteq markers'
<1>1. CASE Starting \/ Ending
  BY <1>1 DEF Starting, Ending, BaselineStart, FixStart, CutoverStart, CutoverJudge, WidenStart, PushStart,
         BaselineDone, FixDone, CutoverDone, WidenDone, PushDone, fvars
<1> QED BY <1>1, LoopMoves DEF Leaves, fvars

LEMMA WidenStep ==
    ASSUME TypeOK, Calling, CacheFresh, LoopInv, LeftRight, WriteInv, WidenInv, [Next]_vars
    PROVE  WidenInv'
<1> SUFFICES ASSUME NEW t \in Widened, WidenSent(t)', "widen" \notin markers'
             PROVE  job'.at = "widen" /\ job'.step = "visit" /\ t \notin job'.left \cup job'.kept
  BY DEF WidenInv
<1>1. "widen" \notin markers
  BY MarkersStay
<1>2. t \in Tfrs /\ ~IsVip(t)
  BY TfrAssumption DEF Tfrs, IsVip
<1>3. ~(Files /\ call[Pusher].key = t /\ Silencing)
  <2> SUFFICES ASSUME Files, call[Pusher].key = t, Silencing PROVE FALSE
    OBVIOUS
  <2>1. call[Pusher].at = "write"
    BY FilesShape
  <2> QED BY <1>2, <2>1 DEF WriteInv, Writes, Silencing
<1>4. CASE Gives(t) /\ ~Silencing
  <2>1. /\ job'.at = job.at /\ job'.step = job.step /\ job'.left = job.left \ {t}
        /\ job'.kept = job.kept /\ t \in job.left /\ job.step = "visit" /\ job.at # "fix"
    BY <1>2, <1>4, GivesShape DEF Gives, Visiting
  <2>2. job.at # "push"
    BY <1>1, <2>1 DEF LeftRight
  <2>3. job.at = "widen"
    BY <1>4, <2>1, <2>2 DEF Silencing, TypeOK, JobStates, Jobs
  <2> QED BY <2>1, <2>3 DEF LoopInv
<1>5. ASSUME last'[t].text = last[t].text, last'[t].once \subseteq last[t].once, ~Unsure
      PROVE  job'.at = "widen" /\ job'.step = "visit" /\ t \notin job'.left \cup job'.kept
  <2>1. job.at = "widen" /\ job.step = "visit" /\ t \notin job.left \cup job.kept
    BY <1>1, <1>5 DEF WidenInv, WidenSent
  <2>2. CASE UNCHANGED job
    BY <2>1, <2>2
  <2>3. ASSUME NEW u \in Tfrs, Leaves(u)
        PROVE  job'.at = "widen" /\ job'.step = "visit" /\ t \notin job'.left \cup job'.kept
    <3>1. PICK keep \in BOOLEAN : Leave(u, keep)
      BY <2>3 DEF Leaves
    <3>2. u \in job.left
      BY <2>3 DEF Leaves, Visiting
    <3> QED BY <2>1, <3>1, <3>2, LeaveShape
  <2>4. ~Starting
    BY <2>1 DEF Starting, BaselineStart, FixStart, CutoverStart, CutoverJudge, WidenStart, PushStart
  <2>5. ~Ending
    <3>1. job.kept \subseteq Widened
      BY <2>1 DEF LeftRight
    <3>2. job.kept = {}
      BY <2>1, <3>1, TfrAssumption
    <3> QED BY <2>1, <3>2 DEF Ending, BaselineDone, FixDone, CutoverDone, WidenDone, PushDone
  <2>6. ~Failing
    BY <1>5 DEF Failing, JobFails, PusherRestart
  <2> QED BY <2>2, <2>3, <2>4, <2>5, <2>6, LoopMoves
<1>6. CASE Unsure
  <2>1. /\ last'[t].text = last[t].text /\ last'[t].once \subseteq last[t].once
        /\ job.at = "widen" => "widen" \notin last'[t].once
    BY <1>2, <1>6, UnsureKeeps
  <2> QED BY <1>1, <2>1 DEF WidenInv, WidenSent
<1> QED BY <1>2, <1>3, <1>4, <1>5, <1>6, NewsMoves

OnceInv == LoopInv /\ LeftRight /\ WriteInv /\ RecordedInv /\ AnswerInv /\ WidenInv

LEMMA OnceStep ==
    ASSUME TypeOK, TypeOK', Calling, CacheFresh, OnceInv, [Next]_vars
    PROVE  OnceInv'
  BY LoopStep, LeftRightStep, WriteStep, RecordedStep, AnswerStep, WidenStep DEF OnceInv

LEMMA OnceInit == ASSUME Init PROVE OnceInv
<1>1. call[Pusher].at = "idle"
  BY TheProcesses DEF Init, DedupInit, Idle
<1>2. \A t \in Tfrs : last[t].text # NoHash =>
         /\ IsVip(t) /\ last[t].ts = 1 /\ last[t].text = OldText
         /\ disk[t].ts = 1 /\ disk[t].hash = OldText
  <2>1. CASE last = [t \in Tfrs |-> NoNews]
    BY <2>1 DEF NoNews
  <2>2. CASE LET pushed == {t \in day.tfrs : IsVip(t)}
                 old    == [text |-> OldText, ts |-> 1, once |-> Senders]
             IN /\ disk = [k \in Keys |-> IF k \in pushed THEN [ts |-> 1, hash |-> OldText] ELSE Forgotten]
                /\ last = [t \in Tfrs |-> IF t \in pushed THEN old ELSE NoNews]
    BY <2>2, TfrAssumption DEF NoNews
  <2> QED BY <2>1, <2>2 DEF Init
<1>3. RecordedInv
  BY <1>2 DEF RecordedInv, Kept
<1>4. WidenInv
  <2>1. \A t \in Widened : t \in Tfrs /\ ~IsVip(t)
    BY TfrAssumption DEF Tfrs, IsVip
  <2> QED BY <1>2, <2>1 DEF WidenInv, WidenSent
<1>5. WriteInv /\ AnswerInv
  BY <1>1 DEF WriteInv, AnswerInv, Writes
<1> QED BY <1>3, <1>4, <1>5, LoopInit, LeftRightInit DEF OnceInv

(* A send is an alert given: one the file let through, or the correction's. *)
LEMMA SendIsGiven ==
    ASSUME TypeOK, Calling, CacheFresh, [Next]_vars, NEW t \in Tfrs, NEW x, Sends(t, x)
    PROVE  Gives(t) /\ x = job.list[t].text
<1>1. call[Pusher].at # "lock" /\ call'[Pusher].at = "lock" /\ call'[Pusher].key = t /\ call'[Pusher].entry.hash = x
  BY DEF Sends
<1>2. ~Passive /\ ~Stands
  BY <1>1 DEF Passive, Stands, Writes
<1>3. ~Answers
  BY <1>1, AnswersShape DEF Told
<1>4. ~Takes /\ ~Files
  BY <1>1, TakesShape, FilesShape
<1>5. PICK u \in Tfrs : Gives(u)
  BY <1>2, <1>3, <1>4, CallMoves
<1>6. call'[Pusher] = [at |-> "lock", key |-> u, entry |-> [ts |-> now, hash |-> job.list[u].text]]
  BY <1>5, GivesShape
<1>7. u = t /\ x = job.list[u].text
  BY ONLY <1>1, <1>6
<1> QED BY <1>5, <1>7

(* What is sent again is sent after the retention of its record, unless a   *)
(* fault fell between the send and the record: whichever of the two paths   *)
(* of the pusher sends it, and whatever the skill writes into the file.     *)
THEOREM SentOncePerRetention == ~Coarse /\ Spec => OncePerRetention
<1>1. TfrInv /\ CacheFresh /\ OnceInv /\ [Next]_vars
        => \A t \in Tfrs, x \in Texts : Sends(t, x) /\ Unchanged(t, x) => now - last[t].ts >= Retention
  <2> SUFFICES ASSUME TfrInv, CacheFresh, OnceInv, [Next]_vars, NEW t \in Tfrs, NEW x \in Texts,
                      Sends(t, x), Unchanged(t, x)
               PROVE  Lasts(t)
    BY DEF Lasts
  <2>1. Gives(t) /\ x = job.list[t].text
    BY SendIsGiven DEF TfrInv
  <2>2. last[t].text = x /\ job.at \in last[t].once /\ x # NoHash
    BY DedupAssumption DEF Unchanged, Texts
  <2>3. CASE job.at = "push"
    <3>1. call[Pusher].at = "told" /\ call[Pusher].key = t /\ call[Pusher].push
      BY <2>1, <2>3 DEF Gives, ToldOf
    <3>2. call[Pusher].hash = x
      BY <2>1, <3>1 DEF TfrInv, Calling, Asking
    <3> QED BY <2>2, <2>3, <3>1, <3>2 DEF OnceInv, AnswerInv
  <2>4. CASE job.at = "widen"
    <3>1. t \in job.left /\ t \in Widened
      BY <2>1, <2>4 DEF Gives, Visiting, OnceInv, LeftRight
    <3>2. "widen" \notin markers
      BY <2>4 DEF OnceInv, LoopInv
    <3> QED BY <2>2, <2>4, <3>1, <3>2 DEF OnceInv, WidenInv, WidenSent
  <2> QED BY <2>3, <2>4 DEF Sends
<1>2. TfrInv /\ TfrInv' /\ CacheFresh /\ OnceInv /\ [Next]_vars => OnceInv'
  BY OnceStep DEF TfrInv
<1>3. Init => OnceInv
  BY OnceInit
<1>4. ~Coarse /\ Spec => []CacheFresh
  BY AlertsUseTheFile, CopiesAreFresh
<1>5. TfrInv /\ CacheFresh /\ OnceInv /\ [Next]_vars =>
        [\A t \in Tfrs, x \in Texts :
            Sends(t, x) /\ Unchanged(t, x) => now - last[t].ts >= Retention]_vars
  BY <1>1
<1> QED BY <1>2, <1>3, <1>4, <1>5, TfrInvariant, PTL DEF Spec, OncePerRetention

-----------------------------------------------------------------------------
(* The rollout.  t stands in the list the FAA publishes at the start.       *)
Standing == (Security \ Widened) \cap day.tfrs

(* A text the FAA has left behind does not come back into the table.        *)
Gone(t) ==
    /\ t \in day.news => faa[t] = OldText
    /\ poll # Idle /\ poll.list[t] # OldText => faa[t] # OldText
    /\ rows[t].text # OldText => /\ faa[t] # OldText
                                 /\ poll # Idle => poll.list[t] # OldText

LEMMA WorldMoves ==
    ASSUME TypeOK, [Next]_vars
    PROVE  /\ day'.tfrs = day.tfrs /\ day'.news \subseteq day.news
           /\ \/ PollerStep
              \/ UNCHANGED <<rows, poll>> /\ \E t \in Tfrs, x \in Texts \cup {NoHash} : FaaChanges(t, x)
              \/ UNCHANGED <<faa, rows, poll>>
<1>1. day \in [tfrs : SUBSET Tfrs, news : SUBSET Tfrs, faults : Nat, until : Nat, skill : BOOLEAN]
  BY DEF TypeOK
<1>2. Faulty => day'.tfrs = day.tfrs /\ day'.news = day.news
  BY <1>1 DEF Faulty
<1>3. ASSUME NEW t \in Tfrs, NEW x \in Texts \cup {NoHash}, FaaChanges(t, x)
      PROVE  day'.tfrs = day.tfrs /\ day'.news \subseteq day.news /\ UNCHANGED <<rows, poll>>
  BY <1>1, <1>3 DEF FaaChanges
<1>4. CASE Starting \/ Ending
  BY <1>4 DEF Starting, Ending, BaselineStart, FixStart, CutoverStart, CutoverJudge, WidenStart, PushStart,
         BaselineDone, FixDone, CutoverDone, WidenDone, PushDone, wvars
<1>5. ASSUME NEW t \in Tfrs,
             \/ BaselineVisit(t) \/ FixSkip(t) \/ FixSend(t) \/ CutoverVisit(t) \/ CutoverActs(t)
             \/ WidenSkip(t) \/ WidenSend(t) \/ PushVisit(t) \/ Suppressed(t) \/ Push(t)
      PROVE  UNCHANGED wvars /\ (UNCHANGED day \/ Faulty)
  BY <1>5 DEF BaselineVisit, FixSkip, FixSend, CutoverVisit, CutoverActs, WidenSkip, WidenSend,
              PushVisit, Suppressed, Push
<1>6. CASE Failing \/ SkillRestart \/ SkillStep \/ TickTock
  BY <1>2, <1>6 DEF Failing, JobFails, PusherRestart, SkillRestart, SkillStep, SkillAsks, SkillActs,
                    TickTock, wvars
<1>7. CASE PollerStep
  BY <1>2, <1>7 DEF PollerStep, FetchStart, FetchDetails, Upsert, ExpireTfrs, FetchStamp, FetchFails, PollerRestart
<1>8. ASSUME NEW p \in Procs, Dedup(p) PROVE UNCHANGED <<wvars, day>>
  BY <1>8 DEF Dedup
<1>9. CASE UNCHANGED vars
  BY <1>9 DEF vars, wvars
<1> QED BY <1>2, <1>3, <1>4, <1>5, <1>6, <1>7, <1>8, <1>9
        DEF Next, PusherStep, World, Starting, Ending, Failing, wvars

LEMMA OldIsText == OldText \in Texts /\ OldText # NoHash
<1>1. OldText \in Texts
  BY TfrAssumption DEF OldText, Texts
<1> QED BY <1>1, DedupAssumption DEF Texts

LEMMA GoneStep ==
    ASSUME TypeOK, NEW t \in Tfrs, Gone(t), [Next]_vars
    PROVE  Gone(t)' /\ (rows[t].text # OldText => rows'[t].text # OldText)
<1>1. World_OK
  BY TypeParts
<1>2. day'.news \subseteq day.news
  BY WorldMoves
<1>3. Idle.at = "idle"
  BY DEF Idle
<1>4. CASE PollerStep
  <2>1. CASE FetchDetails
    <3>1. poll # Idle /\ poll' # Idle /\ poll'.list = poll.list /\ UNCHANGED <<faa, rows>>
      BY <1>1, <1>3, <2>1 DEF FetchDetails, World_OK, Polls
    <3> QED BY <1>2, <3>1 DEF Gone
  <2>2. CASE FetchStart
    BY <1>2, <2>2 DEF FetchStart, Gone, World_OK
  <2>3. ASSUME NEW u \in Tfrs, Upsert(u)
        PROVE  Gone(t)' /\ (rows[t].text # OldText => rows'[t].text # OldText)
    <3>1. poll # Idle /\ poll'.list = poll.list /\ faa' = faa
      BY <1>1, <1>3, <2>3 DEF Upsert, World_OK, Polls
    <3>2. rows' = [rows EXCEPT ![u] = [text |-> poll.list[u], detail |-> poll.got[u],
                                       classed |-> TRUE]]
      BY <2>3 DEF Upsert
    <3>3. rows'[t] = rows[t] \/ rows'[t].text = poll.list[t]
      BY <1>1, <3>2 DEF World_OK, Rows
    <3>4. rows[t].text # OldText => rows'[t].text # OldText
      BY <3>1, <3>3 DEF Gone
    <3>5. rows'[t].text # OldText => rows[t].text # OldText \/ poll.list[t] # OldText
      BY <3>3
    <3> QED BY <1>2, <3>1, <3>4, <3>5 DEF Gone
  <2>4. CASE ExpireTfrs
    <3>1. poll # Idle /\ poll'.list = poll.list /\ faa' = faa
      BY <1>1, <1>3, <2>4 DEF ExpireTfrs, World_OK, Polls
    <3>2. rows'[t] = rows[t] \/ (rows'[t].text = NoHash /\ poll.list[t] = NoHash)
      BY <2>4 DEF ExpireTfrs, NoRow
    <3> QED BY <1>2, <3>1, <3>2, OldIsText DEF Gone
  <2>5. CASE FetchStamp \/ FetchFails \/ PollerRestart
    <3>1. day'.news \subseteq day.news /\ poll' = Idle /\ UNCHANGED <<faa, rows>>
      BY <1>2, <2>5 DEF FetchStamp, FetchFails, PollerRestart
    <3> QED BY <3>1 DEF Gone
  <2> QED BY <1>4, <2>1, <2>2, <2>3, <2>4, <2>5 DEF PollerStep
<1>5. ASSUME NEW u \in Tfrs, NEW x \in Texts \cup {NoHash}, FaaChanges(u, x), UNCHANGED <<rows, poll>>
      PROVE  Gone(t)'
  <2>1. u # t => faa'[t] = faa[t]
    BY <1>1, <1>5 DEF FaaChanges, World_OK
  <2>2. u = t => faa[t] = OldText /\ faa'[t] # OldText /\ t \notin day'.news
    BY <1>1, <1>5 DEF FaaChanges, World_OK, Gone, TypeOK
  <2> QED BY <1>2, <1>5, <2>1, <2>2 DEF Gone
<1>6. CASE UNCHANGED <<faa, rows, poll>>
  BY <1>2, <1>6 DEF Gone
<1> QED BY <1>4, <1>5, <1>6, WorldMoves

(* A window that is not over was not over before, and until then the pusher *)
(* sees of t what the table has.                                            *)
LEMMA OverStays ==
    ASSUME TypeOK, Calling, NEW t \in Tfrs, [Next]_vars, NoneOver(t)'
    PROVE  NoneOver(t)
<1> SUFFICES ASSUME NEW x \in Texts PROVE EndOf[t][x] = 0 \/ EndOf[t][x] > now
  BY DEF NoneOver
<1>1. EndOf[t][x] \in Nat
  BY TfrAssumption
<1>2. EndOf[t][x] = 0 \/ EndOf[t][x] > now'
  BY DEF NoneOver
<1> DEFINE e == EndOf[t][x]
<1>3. e \in Nat /\ (e = 0 \/ e > now')
  BY <1>1, <1>2
<1> HIDE DEF e
<1>4. now \in Nat /\ now' \in Nat /\ now' >= now
  BY TimeGoesOn
<1>5. e = 0 \/ e > now
  BY <1>3, <1>4
<1> QED BY <1>5 DEF e

LEMMA ActiveIsRow ==
    ASSUME TypeOK, NEW t \in Tfrs, NoneOver(t)
    PROVE  Active[t] = rows[t]
<1>1. rows[t] = NoRow \/ rows[t] \in Row
  BY TypeParts DEF World_OK, Rows
<1>2. rows[t] # NoRow => Open(t, rows[t])
  <2> SUFFICES ASSUME rows[t] \in Row, Timed(t, rows[t]) PROVE EndOf[t][rows[t].detail] > now
    BY <1>1 DEF Open
  <2>1. rows[t].detail \in Texts
    BY DEF Row, Timed, MaybeText
  <2> QED BY <2>1 DEF Timed, NoneOver
<1> QED BY <1>2 DEF Active

(* Neither a list that was read earlier nor a record under way has a text   *)
(* newer than the table's.                                                  *)
Read(t) ==
    /\ job.step = "judge" \/ t \in job.left =>
         (job.list[t].text # OldText => rows[t].text # OldText)
    /\ call[Pusher].at \in Writes /\ call[Pusher].key = t /\ call[Pusher].entry.hash # OldText =>
         rows[t].text # OldText

LEMMA ReadStep ==
    ASSUME TypeOK, Calling, CacheFresh, NEW t \in Tfrs, Gone(t), NoneOver(t), Read(t), [Next]_vars
    PROVE  Read(t)'
<1>1. rows[t].text # OldText => rows'[t].text # OldText
  BY GoneStep
<1>2. job'.step = "judge" \/ t \in job'.left => (job'.list[t].text # OldText => rows'[t].text # OldText)
  <2>1. CASE UNCHANGED job
    BY <1>1, <2>1 DEF Read
  <2>2. ASSUME NEW u \in Tfrs, Leaves(u), job'.step = "judge" \/ t \in job'.left
        PROVE  job'.list[t].text # OldText => rows'[t].text # OldText
    <3>1. PICK keep \in BOOLEAN : Leave(u, keep)
      BY <2>2 DEF Leaves
    <3>2. job'.left = job.left \ {u} /\ job'.step = "visit" /\ job'.list = [job.list EXCEPT ![u] = NoRow]
      BY <2>2, <3>1, LeaveShape DEF Leaves, Visiting
    <3>3. t # u /\ t \in job.left
      BY <2>2, <3>2
    <3>4. job'.list[t] = job.list[t]
      BY <3>2, <3>3
    <3> QED BY <1>1, <3>3, <3>4 DEF Read
  <2>3. CASE Lands
    BY <2>3 DEF Lands
  <2>4. CASE Starting
    <3>1. rows' = rows
      BY <2>4 DEF Starting, BaselineStart, FixStart, CutoverStart, CutoverJudge, WidenStart, PushStart, wvars
    <3>2. CASE CutoverJudge
      <4>1. CASE Begin("cutover", job.list, {u \in Listed(job.list) : IsSecurity(u)} \ Widened)
        <5>1. job.step = "judge" /\ job'.step = "visit"
          BY <3>2, <4>1 DEF CutoverJudge, Begin
        <5>2. t \in job'.left => job'.list[t] = job.list[t]
          BY <4>1 DEF Begin
        <5> QED BY <3>1, <5>1, <5>2 DEF Read
      <4>2. CASE job' = FromWiden(markers)
        BY <4>2, FromIsJob
      <4> QED BY <3>2, <4>1, <4>2 DEF CutoverJudge
    <3>3. CASE CutoverStart
      <4>1. job'.list = Active
        BY <3>3 DEF CutoverStart, At
      <4> QED BY <3>1, <4>1, ActiveIsRow
    <3>4. CASE \E j, left : Begin(j, Active, left)
      <4>1. PICK j, left : Begin(j, Active, left)
        BY <3>4
      <4>2. job'.step = "visit" /\ (t \in job'.left => job'.list[t] = rows[t])
        BY <4>1, ActiveIsRow DEF Begin
      <4> QED BY <3>1, <4>2
    <3>5. CASE FixStart /\ job' = FromCutover(markers')
      BY <3>5, FromIsJob
    <3> QED BY <2>4, <3>2, <3>3, <3>4, <3>5 DEF Starting, BaselineStart, FixStart, WidenStart, PushStart
  <2> QED BY <2>1, <2>2, <2>3, <2>4, LoopMoves, EndingLands
<1>3. call'[Pusher].at \in Writes /\ call'[Pusher].key = t /\ call'[Pusher].entry.hash # OldText
        => rows'[t].text # OldText
  <2>1. CASE Passive
    BY <2>1 DEF Passive
  <2>2. CASE Stands
    BY <1>1, <2>2 DEF Stands, Read
  <2>3. CASE Answers
    BY <2>3, AnswersShape DEF Told, Writes
  <2>4. CASE Takes
    BY <1>1, <2>4, TakesShape DEF Read, Writes
  <2>5. CASE Files
    BY <2>5, FilesShape DEF Writes
  <2>6. ASSUME NEW u \in Tfrs, Gives(u), call'[Pusher].key = t, call'[Pusher].entry.hash # OldText
        PROVE  rows'[t].text # OldText
    <3>1. /\ call'[Pusher] = [at |-> "lock", key |-> u, entry |-> [ts |-> now, hash |-> job.list[u].text]]
          /\ u \in job.left
      BY <2>6, GivesShape
    <3>2. u = t /\ job.list[t].text # OldText
      BY ONLY <2>6, <3>1
    <3> QED BY <1>1, <3>1, <3>2 DEF Read
  <2> QED BY <2>1, <2>2, <2>3, <2>4, <2>5, <2>6, CallMoves
<1> QED BY <1>2, <1>3 DEF Read

(* The file remembers t as it stood, or the memory of it is over.           *)
InFile(t) == now > Retention \/ (disk[t].hash = OldText /\ disk[t].ts > 0)

LEMMA InFileStep ==
    ASSUME TypeOK, Calling, CacheFresh, NEW t \in Tfrs, InFile(t), [Next]_vars,
           call[Pusher].at = "write" /\ call[Pusher].key = t => call[Pusher].entry.hash = OldText
    PROVE  InFile(t)'
<1>1. disk \in Dicts /\ t \in Keys /\ Retention \in Nat
  BY TfrAssumption, DedupAssumption, TypeParts DEF DedupTypeOK
<1>2. disk[t] \in Records
  BY <1>1 DEF Dicts
<1>3. now > Retention => now' > Retention
  BY <1>1, TimeGoesOn
<1>4. CASE Fades(t)
  <2>1. now - disk[t].ts > Retention /\ disk[t].ts > 0 => now > Retention
    <3> DEFINE s == disk[t].ts
    <3>1. s \in Nat
      BY <1>2 DEF Records
    <3> HIDE DEF s
    <3>2. now - s > Retention /\ s > 0 => now > Retention
      BY <1>1, <3>1, TimeGoesOn
    <3> QED BY <3>2 DEF s
  <2> QED BY <1>3, <1>4, <2>1 DEF Fades, InFile
<1>5. CASE Files /\ call[Pusher].key = t
  <2>1. call[Pusher].at = "write" /\ call[Pusher].entry \in Entries /\ disk'[t] = call[Pusher].entry
    BY <1>5, FilesShape
  <2>2. disk'[t].ts \in 1 .. MaxNow /\ disk'[t].hash = OldText
    BY <1>5, <2>1 DEF Entries
  <2>3. disk'[t].ts > 0
    BY <2>2, DedupAssumption
  <2> QED BY <2>2, <2>3 DEF InFile
<1>6. Fades(t) \/ (Files /\ call[Pusher].key = t)
  BY SlotStep, TheProcesses DEF Files, Dedup, DedupStep, Hit, Miss, Reload, Take, Restat
<1> QED BY <1>4, <1>5, <1>6

(* t stands in the table, or in the list of a round of pushes under way.    *)
Shows(t) ==
    \/ rows[t].text = OldText
    \/ job.at = "push" /\ t \in job.left /\ job.list[t].text = OldText

Silent(t) == Shows(t) => InFile(t)

LEMMA ShowsOn ==
    ASSUME TypeOK, NEW t \in Tfrs, Gone(t), [Next]_vars, Shows(t)'
    PROVE  Shows(t)
<1>1. rows'[t].text = OldText => rows[t].text = OldText
  BY GoneStep
<1>2. ASSUME job'.at = "push", t \in job'.left, job'.list[t].text = OldText
      PROVE  Shows(t)
  <2>1. CASE UNCHANGED job
    BY <1>2, <2>1 DEF Shows
  <2>2. ASSUME NEW u \in Tfrs, Leaves(u) PROVE Shows(t)
    <3>1. PICK keep \in BOOLEAN : Leave(u, keep)
      BY <2>2 DEF Leaves
    <3>2. job'.left = job.left \ {u} /\ job'.at = job.at /\ job'.list = [job.list EXCEPT ![u] = NoRow]
      BY <3>1, LeaveShape
    <3>3. job'.list[t] = job.list[t]
      BY <1>2, <3>2
    <3> QED BY <1>2, <3>2, <3>3 DEF Shows
  <2>3. ~Lands
    BY <1>2 DEF Lands
  <2>4. CASE Starting
    <3>1. job.at = "push"
      BY <1>2, <2>3, <2>4, StartingMoves
    <3>2. PushStart
      BY <2>4, <3>1 DEF Starting, BaselineStart, FixStart, CutoverStart, CutoverJudge, WidenStart
    <3>3. job'.list[t] = Active[t]
      BY <1>2, <3>2 DEF PushStart, Begin
    <3>4. Active[t] # NoRow
      BY <1>2, <3>3, OldIsText DEF NoRow
    <3> QED BY <1>2, <3>3, <3>4, ActiveRow DEF Shows
  <2> QED BY <2>1, <2>2, <2>3, <2>4, LoopMoves, EndingLands
<1> QED BY <1>1, <1>2 DEF Shows

LEMMA SilentStep ==
    ASSUME TypeOK, Calling, CacheFresh, NEW t \in Tfrs, Gone(t), Read(t), WriteInv, Silent(t), [Next]_vars
    PROVE  Silent(t)'
<1> SUFFICES ASSUME Shows(t)' PROVE InFile(t)'
  BY DEF Silent
<1>1. Shows(t) /\ InFile(t)
  BY ShowsOn DEF Silent
<1>2. call[Pusher].at = "write" /\ call[Pusher].key = t => call[Pusher].entry.hash = OldText
  BY <1>1 DEF Shows, Read, WriteInv, Writes
<1> QED BY <1>1, <1>2, InFileStep

(* The cutover: once over, what stands is in the file; while it visits,     *)
(* what it has left behind is there, or on its way there.                   *)
Cut(t) ==
    LET c == call[Pusher]
    IN /\ "cutover" \in markers => Silent(t)
       /\ job.at = "cutover" /\ job.step = "visit" =>
            \/ t \in job.left
            \/ Silent(t)
            \/ c.at \in Writes /\ c.key = t /\ c.entry.hash = OldText
       /\ c.at = "told" /\ c.key = t /\ c.hash = OldText =>
            /\ ~c.push => InFile(t)
            /\ c.push /\ job.at = "push" => now > Retention

LEMMA CutoverMoves ==
    ASSUME [Next]_vars, job.at = "cutover", job.step = "visit"
    PROVE  UNCHANGED job \/ (\E t \in Tfrs : CutoverActs(t)) \/ CutoverDone \/ Failing
<1>1. CASE Starting \/ Ending
  BY <1>1 DEF Starting, Ending, BaselineStart, FixStart, CutoverStart, CutoverJudge, WidenStart, PushStart,
         BaselineDone, FixDone, WidenDone, PushDone
<1>2. ASSUME NEW t \in Tfrs,
             \/ BaselineVisit(t) \/ FixSkip(t) \/ FixSend(t) \/ CutoverVisit(t)
             \/ WidenSkip(t) \/ WidenSend(t) \/ PushVisit(t) \/ Suppressed(t) \/ Push(t)
      PROVE  UNCHANGED job
  BY <1>2 DEF BaselineVisit, FixSkip, FixSend, CutoverVisit, WidenSkip, WidenSend, PushVisit, Suppressed, Push
<1>3. CASE SkillStep \/ PollerStep \/ World \/ SkillRestart \/ UNCHANGED vars
  BY <1>3 DEF SkillStep, SkillAsks, SkillActs, PollerStep, FetchStart, FetchDetails, Upsert, ExpireTfrs,
         FetchStamp, FetchFails, PollerRestart, World, FaaChanges, TickTock, SkillRestart, vars
<1>4. ASSUME NEW p \in Procs, Dedup(p) PROVE UNCHANGED job
  BY <1>4 DEF Dedup
<1> QED BY <1>1, <1>2, <1>3, <1>4 DEF Next, PusherStep, Starting, Ending, Failing

LEMMA CutStep ==
    ASSUME TypeOK, TypeOK', Calling, CacheFresh, LoopInv, LeftRight, WriteInv,
           NEW t \in Security \ Widened, Gone(t), Read(t), Cut(t), [Next]_vars
    PROVE  Cut(t)'
<1> DEFINE c == call[Pusher]
<1>1. t \in Tfrs /\ IsSecurity(t) /\ ~IsVip(t)
  BY TfrAssumption DEF Tfrs, IsSecurity, IsVip
<1>2. Silent(t) => Silent(t)'
  BY <1>1, SilentStep
<1>3. rows[t].text # OldText => rows'[t].text # OldText
  BY <1>1, GoneStep
<1>4. ASSUME "cutover" \in markers' PROVE Silent(t)'
  <2>1. CASE "cutover" \in markers
    BY <1>2, <2>1 DEF Cut
  <2>2. CASE CutoverDone
    <3>1. job.at = "cutover" /\ job.step = "visit" /\ job.left = {} /\ c.at = "idle"
      BY <2>2 DEF CutoverDone, Over, Free, Idle
    <3> QED BY <1>2, <3>1 DEF Cut, Writes
  <2>3. CASE markers' = markers \/ (\E j \in {"baseline", "fix", "widen"} : markers' = markers \cup {j})
    BY <1>4, <2>1, <2>3
  <2>4. \/ CutoverDone
        \/ markers' = markers
        \/ \E j \in {"baseline", "fix", "widen"} : markers' = markers \cup {j}
    <3>1. CASE Starting \/ (Ending /\ ~CutoverDone)
      BY <3>1 DEF Starting, Ending, BaselineStart, FixStart, CutoverStart, CutoverJudge, WidenStart, PushStart,
             BaselineDone, FixDone, WidenDone, PushDone, fvars
    <3> QED BY <3>1, LoopMoves DEF Leaves, fvars
  <2> QED BY <2>2, <2>3, <2>4
<1>5. c.at = "told" /\ c.key = t /\ c.hash = OldText /\ ~c.push => InFile(t)'
  <2> SUFFICES ASSUME c.at = "told", c.key = t, c.hash = OldText, ~c.push PROVE InFile(t)'
    OBVIOUS
  <2>1. InFile(t)
    BY DEF Cut
  <2> QED BY <1>1, <2>1, InFileStep
<1>6. ASSUME job'.at = "cutover", job'.step = "visit", t \notin job'.left
      PROVE  \/ Silent(t)'
             \/ call'[Pusher].at \in Writes /\ call'[Pusher].key = t /\ call'[Pusher].entry.hash = OldText
  <2>1. rows'[t].text # OldText => Silent(t)'
    BY <1>6 DEF Silent, Shows
  <2>2. InFile(t)' => Silent(t)'
    BY DEF Silent
  <2>3. ~Lands
    BY <1>6 DEF Lands
  <2>4. CASE job.at = "cutover" /\ job.step = "visit" /\ t \in job.left
    <3>1. PICK u \in Tfrs : CutoverActs(u)
      BY <1>6, <2>3, <2>4, CutoverMoves, EndingLands DEF Ending
    <3>2. u = t
      <4>1. Leave(u, FALSE)
        BY <3>1 DEF CutoverActs
      <4>2. job'.left = job.left \ {u}
        BY <4>1, LeaveShape
      <4> QED BY <1>6, <2>4, <4>2
    <3>3. c.at = "told" /\ c.key = t
      BY <3>1, <3>2 DEF CutoverActs, ToldOf
    <3>4. c.hash = job.list[t].text
      BY <3>3 DEF Calling, Asking
    <3>5. CASE job.list[t].text # OldText
      BY <1>3, <2>1, <2>4, <3>5 DEF Read
    <3>6. CASE job.list[t].text = OldText /\ ~c.push
      BY <1>5, <2>2, <3>3, <3>4, <3>6
    <3>7. CASE job.list[t].text = OldText /\ c.push
      <4>1. Record(Pusher, t, job.list[t].text)
        BY <3>1, <3>2, <3>7 DEF CutoverActs
      <4>2. call'[Pusher] = [at |-> "lock", key |-> t, entry |-> [ts |-> now, hash |-> job.list[t].text]]
        BY <4>1, TheProcesses, TypeParts DEF Record, DedupTypeOK
      <4>3. call'[Pusher].at = "lock" /\ call'[Pusher].key = t /\ call'[Pusher].entry.hash = job.list[t].text
        BY ONLY <4>2
      <4> QED BY <3>7, <4>3 DEF Writes
    <3> QED BY <3>5, <3>6, <3>7
  <2>5. CASE job.at = "cutover" /\ job.step = "visit" /\ Silent(t)
    BY <1>2, <2>5
  <2>6. CASE /\ job.at = "cutover" /\ job.step = "visit"
             /\ c.at \in Writes /\ c.key = t /\ c.entry.hash = OldText
    <3>1. ~Passive
      BY <2>3, <2>6, EndingLands DEF Passive
    <3>2. CASE Stands
      BY <2>6, <3>2 DEF Stands
    <3>3. ~Answers
      BY <2>6, AnswersShape DEF Writes
    <3>4. CASE Takes
      BY <2>6, <3>4, TakesShape DEF Writes
    <3>5. CASE Files
      <4>1. c.entry \in Entries /\ disk'[t] = c.entry
        BY <2>6, <3>5, FilesShape
      <4>2. disk'[t].ts \in 1 .. MaxNow /\ disk'[t].hash = OldText
        BY <2>6, <4>1 DEF Entries
      <4>3. disk'[t].ts > 0
        BY <4>2, DedupAssumption
      <4> QED BY <2>2, <4>2, <4>3 DEF InFile
    <3>6. ASSUME NEW u \in Tfrs, Gives(u) PROVE FALSE
      <4>1. c.at \in {"idle", "told"}
        BY <3>6, GivesShape
      <4> QED BY <2>6, <4>1 DEF Writes
    <3> QED BY <3>1, <3>2, <3>3, <3>4, <3>5, <3>6, CallMoves
  <2>7. CASE ~(job.at = "cutover" /\ job.step = "visit")
    <3>1. ~UNCHANGED job
      BY <1>6, <2>7
    <3>2. ASSUME NEW u \in Tfrs, Leaves(u) PROVE FALSE
      <4>1. PICK keep \in BOOLEAN : Leave(u, keep)
        BY <3>2 DEF Leaves
      <4> QED BY <1>6, <2>7, <4>1, LeaveShape
    <3>3. Starting
      BY <2>3, <3>1, <3>2, LoopMoves, EndingLands
    <3>4. job.at = "cutover"
      BY <1>6, <2>3, <3>3, StartingMoves
    <3>5. ~CutoverStart
      BY <1>6 DEF CutoverStart, At
    <3>6. CutoverJudge
      BY <3>3, <3>4, <3>5 DEF Starting, BaselineStart, FixStart, WidenStart, PushStart
    <3>7. job' # FromWiden(markers)
      BY <1>6, FromIsJob
    <3>8. Begin("cutover", job.list, {u \in Listed(job.list) : IsSecurity(u)} \ Widened)
      BY <3>6, <3>7 DEF CutoverJudge
    <3>9. job'.left = {u \in Listed(job.list) : IsSecurity(u)} \ Widened
      BY <3>8 DEF Begin
    <3>10. job.list[t] = NoRow /\ job.step = "judge"
      BY <1>1, <1>6, <3>6, <3>9 DEF Listed, CutoverJudge
    <3>11. job.list[t].text # OldText
      BY <3>10, OldIsText DEF NoRow
    <3> QED BY <1>3, <2>1, <3>10, <3>11 DEF Read
  <2> QED BY <2>4, <2>5, <2>6, <2>7 DEF Cut
<1>7. ASSUME call'[Pusher].at = "told", call'[Pusher].key = t, call'[Pusher].hash = OldText
      PROVE  /\ ~call'[Pusher].push => InFile(t)'
             /\ call'[Pusher].push /\ job'.at = "push" => now' > Retention
  <2>1. CASE Stands
    <3>1. call'[Pusher] = c /\ job'.at = job.at
      BY <2>1, StandsLoop DEF Stands
    <3>2. Retention \in Nat
      BY DedupAssumption
    <3>3. c.push /\ job.at = "push" => now' > Retention
      <4>1. c.push /\ job.at = "push" => now > Retention
        BY <1>7, <3>1 DEF Cut
      <4> QED BY <3>2, <4>1, TimeGoesOn
    <3> QED BY <1>5, <1>7, <3>1, <3>3
  <2>2. CASE Answers
    <3>1. /\ c.at \in {"stat", "read"}
          /\ call'[Pusher] = Told(c.key, c.hash, FALSE, disk)
          /\ UNCHANGED <<last, job, disk, now, markers, rows>>
      BY <2>2, AnswersShape
    <3>2. c.key = t /\ c.hash = OldText /\ call'[Pusher].push = ShouldPush(disk[t], OldText, now)
      BY <1>7, <3>1 DEF Told
    <3>3. disk[t].ts \in Nat /\ Retention \in Nat \ {0} /\ now \in Nat
      <4>1. disk[t] \in Records
        BY <1>1, TfrAssumption, TypeParts DEF DedupTypeOK, Dicts
      <4> QED BY <4>1, DedupAssumption, TimeGoesOn DEF Records
    <3>4. ~ShouldPush(disk[t], OldText, now) => disk[t].hash = OldText /\ disk[t].ts > 0
      BY <3>3 DEF ShouldPush
    <3>5. ShouldPush(disk[t], OldText, now) /\ job.at = "push" => now > Retention
      <4> SUFFICES ASSUME ShouldPush(disk[t], OldText, now), job.at = "push" PROVE now > Retention
        OBVIOUS
      <4>1. t \in job.left /\ job.list[t].text = OldText
        BY <3>1, <3>2 DEF Calling, Asking
      <4>2. Silent(t) /\ Shows(t)
        BY <1>1, <4>1 DEF LeftRight, Cut, Shows
      <4>3. CASE disk[t].hash = OldText /\ disk[t].ts > 0
        <5> DEFINE s == disk[t].ts
        <5>1. s \in Nat /\ s > 0 /\ now - s >= Retention
          BY <3>3, <4>3 DEF ShouldPush
        <5> HIDE DEF s
        <5> QED BY <3>3, <5>1
      <4> QED BY <4>2, <4>3 DEF Silent, InFile
    <3> QED BY <3>1, <3>2, <3>4, <3>5 DEF InFile
  <2>3. ~Passive
    BY <1>7 DEF Passive
  <2>4. ~Takes /\ ~Files
    BY <1>7, TakesShape, FilesShape
  <2>5. ASSUME NEW u \in Tfrs, Gives(u) PROVE FALSE
    <3>1. call'[Pusher] = [at |-> "lock", key |-> u, entry |-> [ts |-> now, hash |-> job.list[u].text]]
      BY <2>5, GivesShape
    <3>2. call'[Pusher].at = "lock"
      BY ONLY <3>1
    <3> QED BY <1>7, <3>2
  <2> QED BY <2>1, <2>2, <2>3, <2>4, <2>5, CallMoves
<1> QED BY <1>4, <1>6, <1>7 DEF Cut

StandInv == \A t \in Standing : Gone(t) /\ (NoneOver(t) => Read(t) /\ Cut(t))

LEMMA StandStep ==
    ASSUME TypeOK, TypeOK', Calling, CacheFresh, OnceInv, StandInv, [Next]_vars
    PROVE  StandInv'
<1>1. Standing' = Standing
  BY WorldMoves DEF Standing
<1>2. ASSUME NEW t \in Standing PROVE Gone(t)' /\ (NoneOver(t)' => Read(t)' /\ Cut(t)')
  <2>1. t \in Security \ Widened /\ t \in Tfrs /\ Gone(t)
    BY <1>2 DEF Standing, StandInv, Tfrs
  <2>2. Gone(t)'
    BY <2>1, GoneStep
  <2>3. ASSUME NoneOver(t)' PROVE Read(t)' /\ Cut(t)'
    <3>1. NoneOver(t)
      BY <2>1, <2>3, OverStays
    <3>2. Read(t) /\ Cut(t)
      BY <3>1 DEF StandInv
    <3>3. Read(t)'
      BY <2>1, <3>1, <3>2, ReadStep
    <3>4. Cut(t)'
      BY <2>1, <3>2, CutStep DEF OnceInv
    <3> QED BY <3>3, <3>4
  <2> QED BY <2>2, <2>3
<1> QED BY <1>1, <1>2 DEF StandInv

LEMMA StandInit == ASSUME Init PROVE StandInv
<1> SUFFICES ASSUME NEW t \in Standing PROVE Gone(t) /\ Read(t) /\ Cut(t)
  BY DEF StandInv
<1>1. t \in Tfrs /\ t \in day.tfrs
  BY DEF Standing, Tfrs
<1>2. faa[t] = OldText /\ rows[t].text = OldText /\ poll = Idle
  BY <1>1 DEF Init, OldRows
<1>3. call[Pusher].at = "idle"
  BY TheProcesses DEF Init, DedupInit, Idle
<1>4. job.step = "start" /\ job.left = {} /\ "cutover" \notin markers
  BY FromIsJob DEF Init
<1>5. Gone(t)
  BY <1>2 DEF Gone
<1>6. Read(t)
  BY <1>3, <1>4 DEF Read, Writes
<1>7. Cut(t)
  BY <1>3, <1>4 DEF Cut
<1> QED BY <1>5, <1>6, <1>7

(* The rollout of the SECURITY class pages nobody about what already stood  *)
(* in the list, before or after the poller classes it, past every fault,    *)
(* until the memory of the cutover is over, but for a TFR one of whose      *)
(* windows is over: such a row may be outside the list at the cutover.      *)
THEOREM RolloutPagesNobody == ~Coarse /\ Spec => RolloutIsQuiet
<1>1. TfrInv /\ CacheFresh /\ OnceInv /\ StandInv /\ [Next]_vars
        => \A t \in (Security \ Widened) \cap day.tfrs :
              Sends(t, OldText) /\ NoneOver(t) => now > Retention
  <2> SUFFICES ASSUME TfrInv, CacheFresh, OnceInv, StandInv, [Next]_vars,
                      NEW t \in (Security \ Widened) \cap day.tfrs, Sends(t, OldText), NoneOver(t)
               PROVE  now > Retention
    OBVIOUS
  <2>1. t \in Tfrs /\ Cut(t)
    BY DEF Tfrs, StandInv, Standing
  <2>2. Gives(t) /\ OldText = job.list[t].text
    BY <2>1, SendIsGiven DEF TfrInv
  <2>3. job.at = "push"
    <3>1. job.at # "widen"
      BY <2>2 DEF Gives, Visiting, OnceInv, LeftRight
    <3> QED BY <3>1 DEF Sends
  <2>4. call[Pusher].at = "told" /\ call[Pusher].key = t /\ call[Pusher].push
    BY <2>2, <2>3 DEF Gives, ToldOf
  <2>5. call[Pusher].hash = OldText
    BY <2>2, <2>4 DEF TfrInv, Calling, Asking
  <2> QED BY <2>1, <2>3, <2>4, <2>5 DEF Cut
<1>2. TfrInv /\ TfrInv' /\ CacheFresh /\ OnceInv /\ StandInv /\ [Next]_vars => (OnceInv /\ StandInv)'
  BY OnceStep, StandStep DEF TfrInv
<1>3. Init => OnceInv /\ StandInv
  BY OnceInit, StandInit
<1>4. ~Coarse /\ Spec => []CacheFresh
  BY AlertsUseTheFile, CopiesAreFresh
<1>5. TfrInv /\ CacheFresh /\ OnceInv /\ StandInv /\ [Next]_vars =>
        [\A t \in (Security \ Widened) \cap day.tfrs :
            Sends(t, OldText) /\ NoneOver(t) => now > Retention]_vars
  BY <1>1
<1> QED BY <1>2, <1>3, <1>4, <1>5, TfrInvariant, PTL DEF Spec, RolloutIsQuiet
=============================================================================
