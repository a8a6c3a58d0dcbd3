--------------------------- MODULE OooiAuthority ---------------------------
(***************************************************************************)
(* Who may say what about a flight's OUT / OFF / ON / IN ("OOOI") phase:    *)
(* the source tables and the authority check of src/common/db.py.  Only     *)
(* operators over values; the state machines that use them are OooiLedger,  *)
(* OooiGate and FlightWatch.                                                *)
(***************************************************************************)
EXTENDS Integers

NoPhase  == "no phase"    \* oooi_phase IS NULL
NoSource == "no source"   \* oooi_source / oooi_local_track_source IS NULL
NoTier   == 0             \* oooi_lock_tier IS NULL: a held tier is never 0

Phases   == {"pre_departure", "out", "off", "on", "in"}
AssertivePhases == {"off", "on", "in"}

PhaseIndex(p) ==
    CASE p = "pre_departure" -> 0
      [] p = "out"           -> 1
      [] p = "off"           -> 2
      [] p = "on"            -> 3
      [] p = "in"            -> 4
      [] OTHER               -> -1

-----------------------------------------------------------------------------
(* Sources by the authority tier db.py gives them.                          *)

SwimSources      == {"fdps", "tbfm", "tfms", "smes", "tfms_airline", "itws", "aim"}
Aggregators      == {"acars", "adsb"}
LocalSources     == {"local_adsb", "local_acars", "dump1090", "acarshub", "dumpvdl2"}
InferenceSources == {"schedule", "schedule_inference"}
FidsSources      == {"fids", "swim_fids", "mwaa_fids"}   \* any name containing "fids"
AdsbSources      == {"adsb", "local_adsb", "dump1090"}

Sources == SwimSources \cup Aggregators \cup LocalSources
             \cup InferenceSources \cup FidsSources

Tier(s) ==
    CASE s \in SwimSources  -> 40
      [] s \in Aggregators  -> 30
      [] s = "fids"         -> 20
      [] s \in LocalSources -> 10
      [] OTHER              -> 0

Priority(s) ==
    CASE s = "fids"                     -> -1
      [] s = "tbfm"                     -> 1
      [] s \in {"tfms", "tfms_airline"} -> 2
      [] s = "smes"                     -> 3
      [] s = "acars"                    -> 4
      [] OTHER                          -> 0

-----------------------------------------------------------------------------
(* The columns of a watchlist row the check reads.  `origin' and            *)
(* `destination' keep only whether the SWIM surface feed covers the airport;*)
(* lockSource and the time stamps follow lockTier and track and are left    *)
(* out.                                                                     *)

LockColumns == [lockTier : {NoTier, 10, 20, 30, 40},
                track : LocalSources \cup {NoSource},
                origin : BOOLEAN, destination : BOOLEAN]

NoColumns == [lockTier |-> NoTier, track |-> NoSource,
              origin |-> FALSE, destination |-> FALSE]

SmesCovers(lock, p) == IF p \in {"out", "off"} THEN lock.origin ELSE lock.destination

(* What no lock, outage or track can change: a source that may never assert *)
(* the phase.                                                               *)
Barred(p, s) ==
    /\ p \in AssertivePhases
    /\ \/ s \in FidsSources
       \/ p \in {"on", "in"} /\ s \in AdsbSources
       \/ Tier(s) <= 0

LocalEscape(s, lock, live) == ~live /\ lock.track = s

(* mutant: the lock holder's feed is never consulted *)
OutranksLock_IgnoresSwim(s, lock, live) ==
    \/ lock.lockTier = NoTier
    \/ Tier(s) >= lock.lockTier
    \/ lock.lockTier >= 40

OutranksLock(s, lock, live) ==
    \/ lock.lockTier = NoTier
    \/ Tier(s) >= lock.lockTier
    \/ lock.lockTier >= 40 /\ ~live

(* mutant: only the lock decides *)
Allowed_LockOnly(p, s, lock, live) ==
    p \in AssertivePhases => OutranksLock(s, lock, live)

(* mutant: the airline's posted time beats surface radar *)
Allowed_AirlineBeatsRadar(p, s, lock, live) ==
    \/ p \notin AssertivePhases
    \/ /\ ~Barred(p, s)
       /\ IF s \in LocalSources THEN LocalEscape(s, lock, live)
                                ELSE OutranksLock(s, lock, live)

Allowed(p, s, lock, live) ==
    \/ p \notin AssertivePhases
    \/ /\ ~Barred(p, s)
       /\ ~(s = "tfms_airline" /\ SmesCovers(lock, p))
       /\ IF s \in LocalSources THEN LocalEscape(s, lock, live)
                                ELSE OutranksLock(s, lock, live)

(* The two early returns: a regressive claim, and a re-confirmation of the  *)
(* recorded phase by a source ranked below the one that recorded it.        *)
Regressive_OffByOne(row, p) == PhaseIndex(p) < PhaseIndex(row.phase) - 1   \* mutant

Regressive(row, p) == PhaseIndex(p) < PhaseIndex(row.phase)

OutrankedTie(row, p, s) ==
    /\ PhaseIndex(p) = PhaseIndex(row.phase)
    /\ row.source # NoSource
    /\ Priority(s) < Priority(row.source)

(* The row an accepted claim leaves, given the lock tier that was read.     *)
TakesLock_First(p, s, held) == p \in AssertivePhases /\ held = NoTier      \* mutant

TakesLock(p, s, held) == p \in AssertivePhases /\ (held = NoTier \/ Tier(s) > held)

(* mutant: the lock tier taken from the tie-break table *)
Asserted_PriorityAsTier(row, p, s, held) ==
    [row EXCEPT !.phase = p, !.source = s,
                !.lockTier = IF TakesLock(p, s, held) THEN Priority(s) ELSE @]

Asserted(row, p, s, held) ==
    [row EXCEPT !.phase = p, !.source = s,
                !.lockTier = IF TakesLock(p, s, held) THEN Tier(s) ELSE @]
=============================================================================
