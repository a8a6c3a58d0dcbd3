----------------------------- MODULE OooiLedger -----------------------------
(***************************************************************************)
(* What the OOOI gate promises: each claim about a flight is judged against *)
(* the row it finds and, when accepted, changes that row in one indivisible *)
(* step.  OooiGate shows when the code's SELECT / judge / UPDATE sequence   *)
(* keeps this promise.                                                      *)
(***************************************************************************)
EXTENDS OooiAuthority

CONSTANTS Entries,    \* ids of watchlist entries
          Claims,     \* the [phase, source] pairs callers make
          Receivers,  \* the local receivers that may hold a track
          Routes      \* which of an entry's airports SWIM surface radar covers

ASSUME ClaimsAssumption    == Claims \subseteq [phase : Phases, source : Sources]
ASSUME ReceiversAssumption == Receivers \subseteq LocalSources
ASSUME RoutesAssumption    == Routes \subseteq [origin : BOOLEAN, destination : BOOLEAN]

VARIABLE rows        \* entry -> its watchlist row, or Absent

Absent == [phase |-> "absent"]

Row == [phase : Phases \cup {NoPhase}, source : Sources \cup {NoSource},
        lockTier : {NoTier, 10, 20, 30, 40}, track : LocalSources \cup {NoSource},
        origin : BOOLEAN, destination : BOOLEAN]

Present(e) == rows[e] # Absent

NewRow(r) == [phase |-> NoPhase, source |-> NoSource, lockTier |-> NoTier,
              track |-> NoSource, origin |-> r.origin, destination |-> r.destination]

LedgerTypeOK == rows \in [Entries -> Row \cup {Absent}]

LedgerInit == rows = [e \in Entries |-> Absent]

(* upsert_watchlist_entry, INSERT branch *)
Add(e, r) ==
    /\ ~Present(e)
    /\ rows' = [rows EXCEPT ![e] = NewRow(r)]

(* upsert_watchlist_entry, ON CONFLICT branch: the OOOI columns are kept *)
Edit(e, r) ==
    /\ Present(e)
    /\ rows' = [rows EXCEPT ![e] = [@ EXCEPT !.origin = r.origin,
                                             !.destination = r.destination]]

(* delete_watchlist_entry and the expiry sweep *)
Remove(e) ==
    /\ Present(e)
    /\ rows' = [rows EXCEPT ![e] = Absent]

RecordLocalTrack(e, s) ==
    /\ Present(e)
    /\ rows' = [rows EXCEPT ![e].track = s]

Accepts(row, p, s, live) ==
    /\ ~Regressive(row, p)
    /\ ~OutrankedTie(row, p, s)
    /\ Allowed(p, s, row, live)

AssertPhase(e, c, live) ==
    /\ Present(e)
    /\ Accepts(rows[e], c.phase, c.source, live)
    /\ rows' = [rows EXCEPT ![e] = Asserted(@, c.phase, c.source, @.lockTier)]

LedgerNext ==
    \E e \in Entries :
        \/ \E r \in Routes : Add(e, r) \/ Edit(e, r)
        \/ Remove(e)
        \/ \E s \in Receivers : RecordLocalTrack(e, s)
        \/ \E c \in Claims, live \in BOOLEAN : AssertPhase(e, c, live)

LedgerSpec == LedgerInit /\ [][LedgerNext]_rows
=============================================================================
