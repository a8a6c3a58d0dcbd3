-------------------------- MODULE MCAlertPipeline --------------------------
(* TLC instances of AlertPipeline: one slot of each class of the registry,  *)
(* a TBFM runway ETA and the airline's out and off times (two of the four)  *)
(* among them, and a kind it does not know.  Times are in quarters of an    *)
(* hour.                                                                    *)
EXTENDS AlertPipeline, TLC

Plain == [cls |-> "status", first |-> 3, onThreshold |-> 4, below |-> 3,
          requireTime |-> FALSE, pastWhileGround |-> FALSE,
          tighten |-> FALSE, heartbeat |-> FALSE]

MCRuleOf ==
    [s \in Slots |->
        CASE s = "oooi_off"       -> [Plain EXCEPT !.cls = "milestone", !.first = 4]
          [] s = "tbfm_sequenced" -> [Plain EXCEPT !.cls = "change", !.first = 4,
                                        !.requireTime = TRUE, !.pastWhileGround = TRUE]
          [] s = "tfms_ooooi"     -> [Plain EXCEPT !.cls = "change", !.onThreshold = 3,
                                        !.below = NotSent]
          [] s = "program_mit"    -> [Plain EXCEPT !.cls = "change", !.tighten = TRUE]
          [] s = "state"          -> [Plain EXCEPT !.cls = "ops", !.first = 4, !.heartbeat = TRUE]
          [] s = "approval"       -> [Plain EXCEPT !.cls = "approval"]
          [] s = "unknown"        -> [Plain EXCEPT !.cls = "unregistered"]
          [] OTHER                -> Plain]

MCTimesOf ==
    [s \in Slots |->
        CASE s = "tbfm_sequenced" -> {"eta"}
          [] s = "tfms_ooooi"     -> {"out", "off"}
          [] s = "program_mit"    -> {"miles"}
          [] OTHER                -> {}]

(* The airline's off time comes after its out time, and moves.              *)
Ooooi(out, off) == [ident |-> "times", times |-> [out |-> out, off |-> off]]

MCHitsOf ==
    [s \in Slots |->
        CASE s = "tbfm_sequenced" -> [ident : {"eta"}, times : [{"eta"} -> {NoTime, 0, 3, 5}]]
          [] s = "tfms_ooooi"     -> {Ooooi(0, NoTime), Ooooi(0, 0), Ooooi(0, 5)}
          [] s = "program_mit"    -> [ident : {"gdp1"}, times : [{"miles"} -> {0, 1, 4}]]
          [] s = "approval"       -> [ident : {"a"}, times : {<<>>}]
          [] OTHER                -> [ident : {"a", "b"}, times : {<<>>}]]

OneSlotEach == {{s} : s \in Slots}

CallerSymmetry == Permutations(Callers)
=============================================================================
