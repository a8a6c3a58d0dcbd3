----------------------------- MODULE PushDedup ------------------------------
(***************************************************************************)
(* One file of push_dedup.py and the processes that share it: each keeps a  *)
(* copy, reloads it when the file's mtime is not the one it remembers, and  *)
(* records by a read, a merge and a replace under a lock.                   *)
(* Keys are slots, Hashes contents, times in units of MaxNow steps.  `disk` *)
(* is the file, a missing or unreadable one being empty.  Instead of mtimes *)
(* the model keeps who remembers the present one (`current`).               *)
(***************************************************************************)
EXTENDS Integers

CONSTANTS Procs, Keys, Hashes, Retention, NoHash,
          Window,      \* dedup_secs, of should_push_periodic
          Coarse,      \* two replaces may fall in one tick of the file system
          MaxNow,      \* bound on the clock
          Nobody

ASSUME DedupAssumption ==
    /\ Retention \in Nat \ {0} /\ Window \in Nat /\ MaxNow \in Nat \ {0}
    /\ Coarse \in BOOLEAN
    /\ NoHash \notin Hashes /\ Nobody \notin Procs

VARIABLES now,
          disk,        \* slot -> its record in the file
          flock,       \* who holds the lock file
          cache,       \* process -> _state, and whether _loaded_mtime is the file's
          call         \* process -> the call it is in, and how far

dvars == <<now, disk, flock, cache, call>>

Forgotten == [ts |-> 0, hash |-> NoHash]
Records   == [ts : 0 .. MaxNow, hash : Hashes \cup {NoHash}]
Dicts     == [Keys -> Records]
Empty     == [k \in Keys |-> Forgotten]

Idle     == [at |-> "idle"]
Unloaded == [view |-> Empty, current |-> FALSE]

AskCalls    == [at : {"stat", "told"}, key : Keys, hash : Hashes, periodic : BOOLEAN, push : BOOLEAN]
                 \cup [at : {"read"}, key : Keys, hash : Hashes, periodic : BOOLEAN, current : BOOLEAN]
Entries     == [ts : 1 .. MaxNow, hash : Hashes]
RecordCalls == [at : {"lock"}, key : Keys, entry : Entries]
                 \cup [at : {"write", "restat"}, key : Keys, entry : Entries, dict : Dicts]
Calls       == {Idle} \cup AskCalls \cup RecordCalls

DedupTypeOK ==
    /\ now \in 1 .. MaxNow
    /\ disk \in Dicts
    /\ flock \in Procs \cup {Nobody}
    /\ cache \in [Procs -> [view : Dicts, current : BOOLEAN]]
    /\ call \in [Procs -> Calls]

DedupInit ==
    /\ now = 1
    /\ disk \in [Keys -> {Forgotten} \cup [ts : {1}, hash : Hashes]]   \* of earlier runs
    /\ flock = Nobody
    /\ cache = [p \in Procs |-> Unloaded]
    /\ call = [p \in Procs |-> Idle]

Tick ==
    /\ now < MaxNow
    /\ now' = now + 1
    /\ UNCHANGED <<disk, flock, cache, call>>

-----------------------------------------------------------------------------
(* should_push and should_push_periodic.                                    *)

ShouldPush_FirstOnly(e, h, t) == e.ts = 0 \/ t - e.ts >= Retention    \* mutant

ShouldPush(e, h, t)    == e.ts = 0 \/ t - e.ts >= Retention \/ e.hash # h
PeriodicPush(e, h, t)  == e.ts = 0 \/ t - e.ts >= Window \/ e.hash # h

Told(k, h, periodic, view) ==
    [at |-> "told", key |-> k, hash |-> h, periodic |-> periodic,
     push |-> IF periodic THEN PeriodicPush(view[k], h, now) ELSE ShouldPush(view[k], h, now)]

Ask(p, k, h, periodic) ==
    /\ call[p] = Idle
    /\ call' = [call EXCEPT ![p] = [at |-> "stat", key |-> k, hash |-> h,
                                    periodic |-> periodic, push |-> FALSE]]
    /\ UNCHANGED <<now, disk, flock, cache>>

(* _load: the mtime remembered is the file's, the copy is served            *)
Hit(p) ==
    /\ call[p].at = "stat" /\ cache[p].current
    /\ call' = [call EXCEPT ![p] = Told(@.key, @.hash, @.periodic, cache[p].view)]
    /\ UNCHANGED <<now, disk, flock, cache>>

(* _load: it is not, and the mtime just seen is what will be remembered     *)
Miss(p) ==
    /\ call[p].at = "stat" /\ ~cache[p].current
    /\ call' = [call EXCEPT ![p] = [at |-> "read", key |-> @.key, hash |-> @.hash,
                                    periodic |-> @.periodic, current |-> TRUE]]
    /\ UNCHANGED <<now, disk, flock, cache>>

Reload(p) ==
    /\ call[p].at = "read"
    /\ cache' = [cache EXCEPT ![p] = [view |-> disk, current |-> call[p].current]]
    /\ call' = [call EXCEPT ![p] = Told(@.key, @.hash, @.periodic, disk)]
    /\ UNCHANGED <<now, disk, flock>>

(* the caller has acted on the answer *)
Return(p) ==
    /\ call[p].at = "told"
    /\ call' = [call EXCEPT ![p] = Idle]
    /\ UNCHANGED <<now, disk, flock, cache>>

-----------------------------------------------------------------------------
(* record: _merge_write.                                                    *)

(* mutant: the time the record expires *)
Record_StoresExpiry(p, k, h) ==
    /\ call[p].at \in {"idle", "told"}
    /\ call' = [call EXCEPT ![p] = [at |-> "lock", key |-> k,
                                    entry |-> [ts |-> now + Retention, hash |-> h]]]
    /\ UNCHANGED <<now, disk, flock, cache>>

(* A caller records when it is doing nothing else, or acting on an answer.  *)
Record(p, k, h) ==
    /\ call[p].at \in {"idle", "told"}
    /\ call' = [call EXCEPT ![p] = [at |-> "lock", key |-> k, entry |-> [ts |-> now, hash |-> h]]]
    /\ UNCHANGED <<now, disk, flock, cache>>

Merged(dict, k, entry) ==
    [j \in Keys |-> IF j = k THEN entry
                    ELSE IF dict[j].ts >= now - Retention THEN dict[j] ELSE Forgotten]

(* flock, then the read of the file and the eviction                        *)
Take_OwnCopy(p) ==      \* mutant: the merge is onto the process's own copy
    /\ call[p].at = "lock" /\ flock = Nobody
    /\ flock' = p
    /\ call' = [call EXCEPT ![p] = [at |-> "write", key |-> @.key, entry |-> @.entry,
                                    dict |-> Merged(cache[p].view, @.key, @.entry)]]
    /\ UNCHANGED <<now, disk, cache>>

Take(p) ==
    /\ call[p].at = "lock" /\ flock = Nobody
    /\ flock' = p
    /\ call' = [call EXCEPT ![p] = [at |-> "write", key |-> @.key, entry |-> @.entry,
                                    dict |-> Merged(disk, @.key, @.entry)]]
    /\ UNCHANGED <<now, disk, cache>>

(* os.replace: the mtime moves for everybody, unless the tick is the same   *)
Replace(p) ==
    /\ call[p].at = "write"
    /\ disk' = call[p].dict
    /\ \E moved \in {TRUE, ~Coarse} :
         /\ cache' = [q \in Procs |-> [cache[q] EXCEPT !.current = @ /\ ~moved]]
         /\ call' = [q \in Procs |->
                       IF q = p THEN [call[q] EXCEPT !.at = "restat"]
                       ELSE IF call[q].at = "read" THEN [call[q] EXCEPT !.current = @ /\ ~moved]
                       ELSE call[q]]
    /\ UNCHANGED <<now, flock>>

(* the copy and its mtime, still under the lock                             *)
Restat(p) ==
    /\ call[p].at = "restat"
    /\ cache' = [cache EXCEPT ![p] = [view |-> call[p].dict, current |-> TRUE]]
    /\ flock' = IF flock = p THEN Nobody ELSE flock
    /\ call' = [call EXCEPT ![p] = Idle]
    /\ UNCHANGED <<now, disk>>

-----------------------------------------------------------------------------
(* The process dies: its copy and its lock go with it.                      *)
Die(p) ==
    /\ cache' = [cache EXCEPT ![p] = Unloaded]
    /\ call' = [call EXCEPT ![p] = Idle]
    /\ flock' = IF flock = p THEN Nobody ELSE flock
    /\ UNCHANGED <<now, disk>>

(* An exception in a record or an answer nobody acts on: the lock is freed  *)
(* on the way out.                                                          *)
Abandon(p) ==
    /\ call' = [call EXCEPT ![p] = Idle]
    /\ flock' = IF flock = p THEN Nobody ELSE flock
    /\ UNCHANGED <<now, disk, cache>>

DedupStep(p) ==
    Hit(p) \/ Miss(p) \/ Reload(p) \/ Take(p) \/ Replace(p) \/ Restat(p)

DedupNext ==
    \/ Tick
    \/ \E p \in Procs : DedupStep(p) \/ Return(p) \/ Abandon(p) \/ Die(p)
    \/ \E p \in Procs, k \in Keys, h \in Hashes :
          Record(p, k, h) \/ \E periodic \in BOOLEAN : Ask(p, k, h, periodic)

DedupSpec == DedupInit /\ [][DedupNext]_dvars

-----------------------------------------------------------------------------
(* Properties.                                                              *)

(* A copy that would be served is the file: whoever remembers the file's    *)
(* present mtime, or is about to, has its present content; and a writer     *)
(* holds the lock with a merge made from the present file.  This is what    *)
(* the reload by mtime and the flock of push_dedup.py are for.              *)
CacheFresh ==
    /\ \A p \in Procs : cache[p].current => cache[p].view = disk
    /\ \A p \in Procs :
         /\ call[p].at \in {"lock", "write"} => call[p].entry.ts <= now
         /\ call[p].at \in {"write", "restat"} => flock = p
         /\ call[p].at = "write" =>
              /\ call[p].dict[call[p].key] = call[p].entry
              /\ \A j \in Keys \ {call[p].key} :
                    \/ call[p].dict[j] = disk[j]
                    \/ call[p].dict[j] = Forgotten /\ now - disk[j].ts > Retention
         /\ call[p].at = "restat" => call[p].dict = disk

(* Every answer and every record is that of one shared map (DedupMap): what *)
(* any process recorded is neither lost to another's write nor missed by    *)
(* another's question.                                                      *)
Answered(c) == IF c.at = "told" /\ ~c.periodic
               THEN [key |-> c.key, hash |-> c.hash, push |-> c.push]
               ELSE [key |-> "none"]

Shared == INSTANCE DedupMap WITH
             map <- disk, clock <- now, told <- [p \in Procs |-> Answered(call[p])]
ImplementsMap == Shared!MapSpec
=============================================================================
