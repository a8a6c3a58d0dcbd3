------------------------------ MODULE OooiGate ------------------------------
(***************************************************************************)
(* update_watchlist_oooi_phase_authoritative (src/common/db.py) as the      *)
(* sequence of statements it is.  Poller, the TFMS and SMES parsers and the *)
(* web process each call it in their own container on one Postgres, at the  *)
(* default READ COMMITTED isolation and without FOR UPDATE: two SELECTs, a  *)
(* look at feed_state on another connection, then the UPDATEs.  A writer    *)
(* here is one such caller.                                                 *)
(*                                                                          *)
(* Overlap = TRUE is the deployment: transactions on one entry interleave   *)
(* freely.  Overlap = FALSE assumes that no write to an entry starts while  *)
(* a claim about it is being judged; under that assumption the gate         *)
(* implements OooiLedger.                                                   *)
(***************************************************************************)
EXTENDS OooiLedger

CONSTANTS Writers,     \* callers of the gate
          SwimFeeds,   \* the feed_state rows of the SWIM push feeds
          Overlap

ASSUME OverlapAssumption == Overlap \in BOOLEAN

VARIABLES feeds,       \* SWIM feed -> "absent" | "fresh" | "stale"
          txn          \* writer -> its open transaction

vars == <<rows, feeds, txn>>

Idle == [pc |-> "idle"]

ReadingLock == [pc : {"lock"}, entry : Entries, claim : Claims]
Judging     == [pc : {"judge"}, entry : Entries, claim : Claims, lock : LockColumns]
Committing  == [pc : {"commit"}, entry : Entries, claim : Claims, lock : LockColumns,
                live : BOOLEAN]

GateTypeOK ==
    /\ LedgerTypeOK
    /\ feeds \in [SwimFeeds -> {"absent", "fresh", "stale"}]
    /\ txn \in [Writers -> {Idle} \cup ReadingLock \cup Judging \cup Committing]

Init ==
    /\ LedgerInit
    /\ feeds = [f \in SwimFeeds |-> "absent"]
    /\ txn = [w \in Writers |-> Idle]

OpenOn(w, e) == txn[w].pc # "idle" /\ txn[w].entry = e

Quiet(e) == Overlap \/ \A w \in Writers : ~OpenOn(w, e)

-----------------------------------------------------------------------------
(* SWIM health: any fresh feed, or no feed_state row at all, counts as live.*)
SwimIsLive ==
    \/ \E f \in SwimFeeds : feeds[f] = "fresh"
    \/ \A f \in SwimFeeds : feeds[f] = "absent"

FeedLands(f) ==
    /\ feeds[f] # "fresh"
    /\ feeds' = [feeds EXCEPT ![f] = "fresh"]
    /\ UNCHANGED <<rows, txn>>

FeedGoesStale(f) ==
    /\ feeds[f] = "fresh"
    /\ feeds' = [feeds EXCEPT ![f] = "stale"]
    /\ UNCHANGED <<rows, txn>>

-----------------------------------------------------------------------------
(* The steps of one call.                                                   *)

(* First SELECT and the early returns.  A claim they turn away changes      *)
(* nothing.                                                                 *)
Begin_NoTie(w, e, c) ==      \* mutant: any source may re-confirm a phase
    /\ txn[w] = Idle
    /\ Quiet(e)
    /\ Present(e)
    /\ ~Regressive(rows[e], c.phase)
    /\ txn' = [txn EXCEPT ![w] = [pc |-> "lock", entry |-> e, claim |-> c]]
    /\ UNCHANGED <<rows, feeds>>

Begin(w, e, c) ==
    /\ txn[w] = Idle
    /\ Quiet(e)
    /\ Present(e)
    /\ ~Regressive(rows[e], c.phase)
    /\ ~OutrankedTie(rows[e], c.phase, c.source)
    /\ txn' = [txn EXCEPT ![w] = [pc |-> "lock", entry |-> e, claim |-> c]]
    /\ UNCHANGED <<rows, feeds>>

(* Second SELECT; `lock' is the empty dict when the row has gone.           *)
ColumnsOf(e) ==
    IF Present(e)
    THEN [lockTier |-> rows[e].lockTier, track |-> rows[e].track,
          origin |-> rows[e].origin, destination |-> rows[e].destination]
    ELSE NoColumns

ReadLock(w) ==
    /\ txn[w].pc = "lock"
    /\ txn' = [txn EXCEPT ![w] = [pc |-> "judge", entry |-> @.entry,
                                  claim |-> @.claim, lock |-> ColumnsOf(@.entry)]]
    /\ UNCHANGED <<rows, feeds>>

(* _oooi_authority_check.  swim_is_live answers TRUE when feed_state cannot *)
(* be read.  A refusal writes oooi_authority_note only, which is left out.  *)
Judge(w) ==
    /\ txn[w].pc = "judge"
    /\ \E readable \in BOOLEAN :
         LET t == txn[w]
             live == ~readable \/ SwimIsLive
         IN txn' = [txn EXCEPT ![w] =
                      IF Allowed(t.claim.phase, t.claim.source, t.lock, live)
                      THEN [pc |-> "commit", entry |-> t.entry, claim |-> t.claim,
                            lock |-> t.lock, live |-> live]
                      ELSE Idle]
    /\ UNCHANGED <<rows, feeds>>

(* The UPDATEs and the commit.  They name the row by id only, so they write *)
(* whatever row is there now, and nothing when it has been deleted.         *)
Commit(w) ==
    /\ txn[w].pc = "commit"
    /\ LET t == txn[w] IN
         rows' = IF Present(t.entry)
                 THEN [rows EXCEPT ![t.entry] =
                         Asserted(@, t.claim.phase, t.claim.source, t.lock.lockTier)]
                 ELSE rows
    /\ txn' = [txn EXCEPT ![w] = Idle]
    /\ UNCHANGED feeds

(* An exception, a lost connection or a container restart rolls back.       *)
Abort(w) ==
    /\ txn[w] # Idle
    /\ txn' = [txn EXCEPT ![w] = Idle]
    /\ UNCHANGED <<rows, feeds>>

-----------------------------------------------------------------------------
(* The other writers of the row, each a single statement.                   *)
EntryWrite ==
    /\ \E e \in Entries :
         /\ Quiet(e)
         /\ \/ \E r \in Routes : Add(e, r) \/ Edit(e, r)
            \/ Remove(e)
            \/ \E s \in Receivers : RecordLocalTrack(e, s)
    /\ UNCHANGED <<feeds, txn>>

Next ==
    \/ \E f \in SwimFeeds : FeedLands(f) \/ FeedGoesStale(f)
    \/ \E w \in Writers :
         \/ \E e \in Entries, c \in Claims : Begin(w, e, c)
         \/ ReadLock(w) \/ Judge(w) \/ Commit(w) \/ Abort(w)
    \/ EntryWrite

Spec == Init /\ [][Next]_vars

-----------------------------------------------------------------------------
(* Properties.                                                              *)

(* What a transaction has seen of its row is still true when no other write *)
(* to the entry overlaps it; and whatever overlaps, a claim that passed the *)
(* check came from a source that may make it.  Inductive with GateTypeOK.   *)
SawRow(t) ==
    /\ Present(t.entry)
    /\ ~Regressive(rows[t.entry], t.claim.phase)
    /\ ~OutrankedTie(rows[t.entry], t.claim.phase, t.claim.source)
    /\ t.pc \in {"judge", "commit"} => t.lock = ColumnsOf(t.entry)

OneAtATime ==
    \A w1, w2 \in Writers, e \in Entries : OpenOn(w1, e) /\ OpenOn(w2, e) => w1 = w2

JudgedClaim ==
    \A w \in Writers : txn[w].pc = "commit" =>
        Allowed(txn[w].claim.phase, txn[w].claim.source, txn[w].lock, txn[w].live)

FreshTxn ==
    /\ JudgedClaim
    /\ ~Overlap => OneAtATime /\ \A w \in Writers : txn[w].pc # "idle" => SawRow(txn[w])

(* An assertive phase in a row was written by a source that may assert it:  *)
(* FIDS and inference never, and ADS-B never ON or IN (rules of             *)
(* _oooi_authority_check) -- however the calls interleave.                  *)
EntitledPhase ==
    \A e \in Entries :
        /\ rows[e].phase \in AssertivePhases =>
             rows[e].source \in SwimSources \cup Aggregators \cup LocalSources
        /\ rows[e].phase \in {"on", "in"} => rows[e].source \notin AdsbSources

Stays(e) == Present(e) /\ Present(e)'

(* OOOI only moves forward, whatever the source (docstring of               *)
(* update_watchlist_oooi_phase_authoritative).                              *)
PhaseForward ==
    [][\A e \in Entries :
         Stays(e) => PhaseIndex(rows[e].phase) <= PhaseIndex(rows[e].phase')]_vars

(* "A strictly HIGHER tier may take [the lock] over.  A lower tier never    *)
(* can" (comment above the lock UPDATE).                                    *)
LockNeverLowered ==
    [][\A e \in Entries : Stays(e) => rows[e].lockTier <= rows[e].lockTier']_vars

(* A row whose lock SWIM holds takes an assertive phase from a lesser       *)
(* source only when the claim was judged while SWIM was down.               *)
SwimStands ==
    [][\A e \in Entries :
         (/\ Stays(e)
          /\ rows[e].lockTier = 40
          /\ rows[e].phase' \in AssertivePhases
          /\ Tier(rows[e].source') < 40
          /\ rows[e].source' # rows[e].source)
         => \E w \in Writers : OpenOn(w, e) /\ txn[w].pc = "commit" /\ ~txn[w].live]_vars

(* The lock tier on a row is never below the tier of the source whose       *)
(* assertive phase the row shows, so the lock it advertises is the one      *)
(* that is enforced.                                                        *)
LockCoversSource ==
    \A e \in Entries :
        rows[e].phase \in AssertivePhases => Tier(rows[e].source) <= rows[e].lockTier

(* Every call takes effect in one step of the ledger, or not at all.        *)
ImplementsLedger == LedgerSpec
=============================================================================
