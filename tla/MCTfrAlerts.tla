---------------------------- MODULE MCTfrAlerts -----------------------------
(* TLC instances of TfrAlerts: v is VIP, b SECURITY with presidential       *)
(* language, s SECURITY, p the one with a correction, o SECURITY with a     *)
(* reason in the list item and a window that is over early.                 *)
EXTENDS TfrAlerts

CONSTANTS v, s, p, b, o

MCProcs == {Pusher, Skill}
MCKeys  == Tfrs \cup {Enrichment}

Never == MaxNow + 1

MCEndOf == [t \in Tfrs |-> [x \in Texts |->
    CASE t = v /\ x = OldText -> 2
      [] t = o /\ x = OldText -> 1
      [] t = b                -> 0
      [] OTHER                -> Never]]

Calm == [tfrs |-> {}, news |-> {}, faults |-> 0, until |-> 1, skill |-> FALSE]

(* Each day lets one or two things happen that the others leave out.        *)
MCDays == {
    [Calm EXCEPT !.tfrs = {p}, !.faults = 1],
    [Calm EXCEPT !.tfrs = {s}, !.faults = 1],
    [Calm EXCEPT !.tfrs = {v}, !.faults = 1],
    [Calm EXCEPT !.tfrs = {v}, !.skill = TRUE],
    [Calm EXCEPT !.tfrs = {v}, !.until = 2],
    [Calm EXCEPT !.tfrs = {v, s}],
    [Calm EXCEPT !.tfrs = {v, b}],
    [Calm EXCEPT !.news = {s}],
    [Calm EXCEPT !.tfrs = {s}, !.news = {s}],
    [Calm EXCEPT !.tfrs = {v}, !.news = {v}],
    [Calm EXCEPT !.tfrs = {o}, !.news = {o}] }

(* A TFR the FAA still lists though it is over, and a poller that restarts. *)
MCOverstays == { [Calm EXCEPT !.tfrs = {o}, !.faults = 1] }
=============================================================================
