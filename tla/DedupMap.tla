------------------------------ MODULE DedupMap ------------------------------
(* What PushDedup promises to the processes that share one of its files:    *)
(* one map from slot to the content last recorded, that every question is   *)
(* answered from and every record changes in a single step, at its own slot *)
(* and nowhere else, memories past the retention excepted.                  *)
EXTENDS Integers

CONSTANTS Procs, Keys, Hashes,
          Retention,   \* how long a record counts (retention_secs)
          NoHash       \* the content of a slot without a record

VARIABLES map,         \* slot -> what is on record
          clock,
          told         \* process -> the answer it is acting on

Forgotten == [ts |-> 0, hash |-> NoHash]

(* should_push: a first sighting, a memory past its horizon, or a change    *)
ShouldPush(e, h, t) == e.ts = 0 \/ t - e.ts >= Retention \/ e.hash # h

Unasked == [key |-> "none"]

MapInit ==
    /\ map \in [Keys -> {Forgotten} \cup [ts : {1}, hash : Hashes]]
    /\ clock = 1
    /\ told = [p \in Procs |-> Unasked]

Answer(p, k, h) ==
    /\ told' = [told EXCEPT ![p] = [key |-> k, hash |-> h, push |-> ShouldPush(map[k], h, clock)]]
    /\ UNCHANGED <<map, clock>>

Done(p) ==
    /\ told' = [told EXCEPT ![p] = Unasked]
    /\ UNCHANGED <<map, clock>>

Recorded(k, h) ==
    /\ \E t \in 1 .. clock : map'[k] = [ts |-> t, hash |-> h]
    /\ \A j \in Keys \ {k} :
          \/ map'[j] = map[j]
          \/ map'[j] = Forgotten /\ clock - map[j].ts > Retention
    /\ UNCHANGED <<clock, told>>

TimePasses == clock' = clock + 1 /\ UNCHANGED <<map, told>>

MapNext ==
    \/ \E p \in Procs : Done(p)
    \/ \E p \in Procs, k \in Keys, h \in Hashes : Answer(p, k, h)
    \/ \E k \in Keys, h \in Hashes : Recorded(k, h)
    \/ TimePasses

MapSpec == MapInit /\ [][MapNext]_<<map, clock, told>>
=============================================================================
