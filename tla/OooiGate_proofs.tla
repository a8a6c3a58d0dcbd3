-------------------------- MODULE OooiGate_proofs --------------------------
(***************************************************************************)
(* Proofs about OooiGate for every set of entries, writers, feeds, claims,  *)
(* receivers and routes.  The inductive invariant is GateTypeOK /\ FreshTxn;*)
(* EntitledPhase holds for every Overlap, the refinement of OooiLedger and  *)
(* the action properties when Overlap is FALSE.                             *)
(***************************************************************************)
EXTENDS OooiGate, TLAPS

USE ClaimsAssumption, ReceiversAssumption, RoutesAssumption, OverlapAssumption
    DEF ClaimsAssumption, ReceiversAssumption, RoutesAssumption, OverlapAssumption

Tiers == {NoTier, 10, 20, 30, 40}

(* The tables of db.py: a source has one of the five tiers, and a source    *)
(* that is not barred from an assertive phase has a positive one.           *)
LEMMA TierType == \A s \in Sources \cup {NoSource} : Tier(s) \in Tiers
  BY DEF Tier, Tiers, NoTier

LEMMA AssertedType ==
  ASSUME NEW row \in Row, NEW c \in [phase : Phases, source : Sources], NEW held
  PROVE  Asserted(row, c.phase, c.source, held) \in Row
  BY TierType DEF Asserted, Row, Tiers

LEMMA NotAbsent == \A row \in Row : row # Absent
<1>1. Absent.phase = "absent"
  BY DEF Absent
<1>2. \A row \in Row : row.phase # "absent"
  BY DEF Row, Phases, NoPhase
<1> QED
  BY <1>1, <1>2

LEMMA ColumnsType == LedgerTypeOK => \A e \in Entries : ColumnsOf(e) \in LockColumns
  BY DEF LedgerTypeOK, ColumnsOf, LockColumns, NoColumns, Row, Present, NoSource, NoTier

-----------------------------------------------------------------------------
LEMMA InitType == Init => GateTypeOK
  BY DEF Init, LedgerInit, GateTypeOK, LedgerTypeOK

LEMMA StepType == GateTypeOK /\ [Next]_vars => GateTypeOK'
<1> SUFFICES ASSUME GateTypeOK, [Next]_vars PROVE GateTypeOK'
  OBVIOUS
<1> USE DEF GateTypeOK
<1>1. ASSUME NEW f \in SwimFeeds, FeedLands(f) \/ FeedGoesStale(f) PROVE GateTypeOK'
  BY <1>1 DEF FeedLands, FeedGoesStale, LedgerTypeOK
<1>2. ASSUME NEW w \in Writers, NEW e \in Entries, NEW c \in Claims, Begin(w, e, c)
      PROVE  GateTypeOK'
  BY <1>2 DEF Begin, LedgerTypeOK, ReadingLock
<1>3. ASSUME NEW w \in Writers, ReadLock(w) PROVE GateTypeOK'
  <2>1. txn[w] \in ReadingLock
    BY <1>3 DEF ReadLock, Idle, ReadingLock, Judging, Committing
  <2>2. ColumnsOf(txn[w].entry) \in LockColumns
    BY <2>1, ColumnsType DEF ReadingLock
  <2> QED
    BY <1>3, <2>1, <2>2 DEF ReadLock, LedgerTypeOK, ReadingLock, Judging
<1>4. ASSUME NEW w \in Writers, Judge(w) PROVE GateTypeOK'
  <2>1. txn[w] \in Judging
    BY <1>4 DEF Judge, Idle, ReadingLock, Judging, Committing
  <2>2. SwimIsLive \in BOOLEAN
    BY DEF SwimIsLive
  <2> QED
    BY <1>4, <2>1, <2>2 DEF Judge, LedgerTypeOK, Judging, Committing
<1>5. ASSUME NEW w \in Writers, Commit(w) PROVE GateTypeOK'
  <2>1. txn[w] \in Committing
    BY <1>5 DEF Commit, Idle, ReadingLock, Judging, Committing
  <2>2. CASE Present(txn[w].entry)
    <3>1. rows[txn[w].entry] \in Row
      BY <2>1, <2>2 DEF LedgerTypeOK, Committing, Present
    <3>2. Asserted(rows[txn[w].entry], txn[w].claim.phase, txn[w].claim.source,
                   txn[w].lock.lockTier) \in Row
      BY <2>1, <3>1, AssertedType DEF Committing
    <3> QED
      BY <1>5, <2>1, <2>2, <3>2 DEF Commit, LedgerTypeOK
  <2>3. CASE ~Present(txn[w].entry)
    BY <1>5, <2>1, <2>3 DEF Commit, LedgerTypeOK
  <2> QED
    BY <2>2, <2>3
<1>6. ASSUME NEW w \in Writers, Abort(w) PROVE GateTypeOK'
  BY <1>6 DEF Abort, LedgerTypeOK
<1>7. ASSUME EntryWrite PROVE GateTypeOK'
  <2>1. PICK e \in Entries :
          \/ \E r \in Routes : Add(e, r) \/ Edit(e, r)
          \/ Remove(e)
          \/ \E s \in Receivers : RecordLocalTrack(e, s)
    BY <1>7 DEF EntryWrite
  <2>2. rows' \in [Entries -> Row \cup {Absent}]
    <3>1. CASE \E r \in Routes : Add(e, r)
      BY <3>1 DEF Add, NewRow, LedgerTypeOK, Row, NoTier
    <3>2. CASE \E r \in Routes : Edit(e, r)
      <4>1. PICK r \in Routes : Edit(e, r)
        BY <3>2
      <4>2. rows[e] \in Row
        BY <4>1 DEF Edit, LedgerTypeOK, Present
      <4>3. [rows[e] EXCEPT !.origin = r.origin, !.destination = r.destination] \in Row
        BY <4>2 DEF Row
      <4> QED
        BY <4>1, <4>3 DEF Edit, LedgerTypeOK
    <3>3. CASE Remove(e)
      BY <3>3 DEF Remove, LedgerTypeOK
    <3>4. CASE \E s \in Receivers : RecordLocalTrack(e, s)
      BY <3>4 DEF RecordLocalTrack, LedgerTypeOK, Row, Present
    <3> QED
      BY <2>1, <3>1, <3>2, <3>3, <3>4
  <2> QED
    BY <1>7, <2>2 DEF EntryWrite, LedgerTypeOK
<1>8. ASSUME UNCHANGED vars PROVE GateTypeOK'
  BY <1>8 DEF vars, LedgerTypeOK
<1> QED
  BY <1>1, <1>2, <1>3, <1>4, <1>5, <1>6, <1>7, <1>8 DEF Next

(* Every row, feed and open transaction keeps its type.                     *)
THEOREM TypeCorrect == Spec => []GateTypeOK
  BY InitType, StepType, PTL DEF Spec

-----------------------------------------------------------------------------
(* FreshTxn is inductive.  A claim that is being judged keeps the row it    *)
(* read, because only its own commit may write that row until it ends.      *)

LEMMA Open == GateTypeOK => \A w \in Writers :
    /\ txn[w].pc \in {"idle", "lock", "judge", "commit"}
    /\ txn[w].pc = "idle" <=> txn[w] = Idle
    /\ txn[w].pc # "idle" => txn[w].entry \in Entries /\ txn[w].claim \in Claims
    /\ txn[w].pc \in {"judge", "commit"} => txn[w].lock \in LockColumns
    /\ txn[w].pc = "commit" => txn[w].live \in BOOLEAN
  BY DEF GateTypeOK, Idle, ReadingLock, Judging, Committing

LEMMA SawRowKept ==
  ASSUME NEW t, SawRow(t), rows'[t.entry] = rows[t.entry] PROVE SawRow(t)'
  BY DEF SawRow, Present, Regressive, OutrankedTie, ColumnsOf

(* Only Commit and EntryWrite write rows, and EntryWrite leaves the entries *)
(* alone that some writer has open when writes do not overlap.              *)
LEMMA EntryWriteFrame ==
  ASSUME GateTypeOK, EntryWrite, ~Overlap, NEW w \in Writers, txn[w].pc # "idle"
  PROVE  rows'[txn[w].entry] = rows[txn[w].entry]
<1>1. txn[w].entry \in Entries
  BY Open
<1>2. PICK e \in Entries :
        /\ Quiet(e)
        /\ \/ \E r \in Routes : Add(e, r) \/ Edit(e, r)
           \/ Remove(e)
           \/ \E s \in Receivers : RecordLocalTrack(e, s)
  BY DEF EntryWrite
<1>3. e # txn[w].entry
  BY <1>2 DEF Quiet, OpenOn
<1> QED
  BY <1>1, <1>2, <1>3 DEF Add, Edit, Remove, RecordLocalTrack, GateTypeOK, LedgerTypeOK

LEMMA InitFresh == Init => FreshTxn
  BY DEF Init, FreshTxn, JudgedClaim, OneAtATime, OpenOn, Idle

LEMMA StepFresh == GateTypeOK /\ FreshTxn /\ [Next]_vars => FreshTxn'
<1> SUFFICES ASSUME GateTypeOK, FreshTxn, [Next]_vars PROVE FreshTxn'
  OBVIOUS
<1> txn \in [Writers -> {Idle} \cup ReadingLock \cup Judging \cup Committing]
  BY DEF GateTypeOK
<1>1. ASSUME NEW f \in SwimFeeds, FeedLands(f) \/ FeedGoesStale(f) PROVE FreshTxn'
  BY <1>1 DEF FeedLands, FeedGoesStale, FreshTxn, JudgedClaim, OneAtATime, OpenOn,
              SawRow, Present, ColumnsOf
<1>2. ASSUME NEW w \in Writers, NEW e \in Entries, NEW c \in Claims, Begin(w, e, c)
      PROVE  FreshTxn'
  <2>1. /\ txn'[w] = [pc |-> "lock", entry |-> e, claim |-> c]
        /\ \A v \in Writers : v # w => txn'[v] = txn[v]
        /\ rows' = rows
    BY <1>2 DEF Begin
  <2>2. JudgedClaim'
    BY <2>1 DEF FreshTxn, JudgedClaim
  <2>3. ASSUME ~Overlap PROVE OneAtATime'
    BY <1>2, <2>1, <2>3 DEF Begin, Quiet, FreshTxn, OneAtATime, OpenOn
  <2>4. ASSUME ~Overlap, NEW v \in Writers, txn'[v].pc # "idle" PROVE SawRow(txn[v])'
    <3>1. CASE v = w
      BY <1>2, <2>1, <3>1 DEF Begin, SawRow, Present
    <3>2. CASE v # w
      BY <2>1, <2>4, <3>2, SawRowKept DEF FreshTxn, SawRow, Present, ColumnsOf
    <3> QED
      BY <3>1, <3>2
  <2> QED
    BY <2>2, <2>3, <2>4 DEF FreshTxn
<1>3. ASSUME NEW w \in Writers, ReadLock(w) PROVE FreshTxn'
  <2>1. /\ txn'[w] = [pc |-> "judge", entry |-> txn[w].entry, claim |-> txn[w].claim,
                      lock |-> ColumnsOf(txn[w].entry)]
        /\ txn[w].pc = "lock"
        /\ \A v \in Writers : v # w => txn'[v] = txn[v]
        /\ rows' = rows
    BY <1>3 DEF ReadLock
  <2>2. JudgedClaim'
    BY <2>1 DEF FreshTxn, JudgedClaim
  <2>3. ASSUME ~Overlap PROVE OneAtATime'
    BY <2>1, <2>3 DEF FreshTxn, OneAtATime, OpenOn
  <2>4. ASSUME ~Overlap, NEW v \in Writers, txn'[v].pc # "idle" PROVE SawRow(txn[v])'
    BY <2>1, <2>4 DEF FreshTxn, SawRow, Present, ColumnsOf
  <2> QED
    BY <2>2, <2>3, <2>4 DEF FreshTxn
<1>4. ASSUME NEW w \in Writers, Judge(w) PROVE FreshTxn'
  <2>1. PICK readable \in BOOLEAN :
          txn' = [txn EXCEPT ![w] =
                    IF Allowed(txn[w].claim.phase, txn[w].claim.source, txn[w].lock,
                               ~readable \/ SwimIsLive)
                    THEN [pc |-> "commit", entry |-> txn[w].entry, claim |-> txn[w].claim,
                          lock |-> txn[w].lock, live |-> ~readable \/ SwimIsLive]
                    ELSE Idle]
    BY <1>4 DEF Judge
  <2>2. /\ txn[w].pc = "judge"
        /\ rows' = rows
        /\ \A v \in Writers : v # w => txn'[v] = txn[v]
        /\ \/ txn'[w] = Idle
           \/ /\ txn'[w] = [pc |-> "commit", entry |-> txn[w].entry, claim |-> txn[w].claim,
                             lock |-> txn[w].lock, live |-> ~readable \/ SwimIsLive]
              /\ Allowed(txn[w].claim.phase, txn[w].claim.source, txn[w].lock,
                         ~readable \/ SwimIsLive)
    BY <1>4, <2>1 DEF Judge
  <2>3. JudgedClaim'
    BY <2>2 DEF FreshTxn, JudgedClaim, Idle
  <2>4. ASSUME ~Overlap PROVE OneAtATime'
    BY <2>2, <2>4 DEF FreshTxn, OneAtATime, OpenOn, Idle
  <2>5. ASSUME ~Overlap, NEW v \in Writers, txn'[v].pc # "idle" PROVE SawRow(txn[v])'
    BY <2>2, <2>5 DEF FreshTxn, SawRow, Present, ColumnsOf, Idle
  <2> QED
    BY <2>3, <2>4, <2>5 DEF FreshTxn
<1>5. ASSUME NEW w \in Writers, Commit(w) PROVE FreshTxn'
  <2>1. /\ txn'[w] = Idle
        /\ txn[w].pc = "commit"
        /\ \A v \in Writers : v # w => txn'[v] = txn[v]
        /\ \A e \in Entries : e # txn[w].entry => rows'[e] = rows[e]
    BY <1>5 DEF Commit, GateTypeOK, LedgerTypeOK
  <2>2. JudgedClaim'
    BY <2>1 DEF FreshTxn, JudgedClaim, Idle
  <2>3. ASSUME ~Overlap PROVE OneAtATime'
    BY <2>1, <2>3 DEF FreshTxn, OneAtATime, OpenOn, Idle
  <2>4. ASSUME ~Overlap, NEW v \in Writers, txn'[v].pc # "idle" PROVE SawRow(txn[v])'
    <3>1. v # w /\ txn'[v] = txn[v] /\ SawRow(txn[v])
      BY <2>1, <2>4 DEF Idle, FreshTxn
    <3>2. txn[v].entry # txn[w].entry /\ txn[v].entry \in Entries
      BY <2>1, <2>4, <3>1, Open DEF FreshTxn, OneAtATime, OpenOn
    <3>3. rows'[txn[v].entry] = rows[txn[v].entry]
      BY <2>1, <3>2
    <3> QED
      BY <3>1, <3>3 DEF SawRow, Present, Regressive, OutrankedTie, ColumnsOf
  <2> QED
    BY <2>2, <2>3, <2>4 DEF FreshTxn
<1>6. ASSUME NEW w \in Writers, Abort(w) PROVE FreshTxn'
  <2>1. /\ txn'[w] = Idle
        /\ \A v \in Writers : v # w => txn'[v] = txn[v]
        /\ rows' = rows
    BY <1>6 DEF Abort
  <2>2. JudgedClaim'
    BY <2>1 DEF FreshTxn, JudgedClaim, Idle
  <2>3. ASSUME ~Overlap PROVE OneAtATime'
    BY <2>1, <2>3 DEF FreshTxn, OneAtATime, OpenOn, Idle
  <2>4. ASSUME ~Overlap, NEW v \in Writers, txn'[v].pc # "idle" PROVE SawRow(txn[v])'
    BY <2>1, <2>4 DEF FreshTxn, SawRow, Present, ColumnsOf, Idle
  <2> QED
    BY <2>2, <2>3, <2>4 DEF FreshTxn
<1>7. ASSUME EntryWrite PROVE FreshTxn'
  <2>1. txn' = txn
    BY <1>7 DEF EntryWrite
  <2>2. JudgedClaim'
    BY <2>1 DEF FreshTxn, JudgedClaim
  <2>3. ASSUME ~Overlap PROVE OneAtATime'
    BY <2>1, <2>3 DEF FreshTxn, OneAtATime, OpenOn
  <2>4. ASSUME ~Overlap, NEW v \in Writers, txn'[v].pc # "idle" PROVE SawRow(txn[v])'
    <3>1. rows'[txn[v].entry] = rows[txn[v].entry]
      BY <1>7, <2>1, <2>4, EntryWriteFrame
    <3> QED
      BY <2>1, <2>4, <3>1 DEF FreshTxn, SawRow, Present, Regressive, OutrankedTie, ColumnsOf
  <2> QED
    BY <2>2, <2>3, <2>4 DEF FreshTxn
<1>8. ASSUME UNCHANGED vars PROVE FreshTxn'
  BY <1>8 DEF vars, FreshTxn, JudgedClaim, OneAtATime, OpenOn, SawRow, Present, ColumnsOf
<1> QED
  BY <1>1, <1>2, <1>3, <1>4, <1>5, <1>6, <1>7, <1>8 DEF Next

LEMMA Invariant == Spec => [](GateTypeOK /\ FreshTxn)
  BY InitType, StepType, InitFresh, StepFresh, PTL DEF Spec

-----------------------------------------------------------------------------
(* EntitledPhase, whatever overlaps.                                        *)

LEMMA EntitledSource ==
  ASSUME NEW p \in AssertivePhases, NEW s \in Sources, NEW lock, NEW live \in BOOLEAN,
         Allowed(p, s, lock, live)
  PROVE  /\ s \in SwimSources \cup Aggregators \cup LocalSources
         /\ p \in {"on", "in"} => s \notin AdsbSources
<1>1. ~Barred(p, s)
  BY DEF Allowed
<1>2. s \notin FidsSources /\ Tier(s) > 0 /\ (p \in {"on", "in"} => s \notin AdsbSources)
  BY <1>1, TierType DEF Barred, Tiers, NoTier
<1>3. s \notin InferenceSources
  BY <1>2 DEF Tier, SwimSources, Aggregators, LocalSources, InferenceSources
<1> QED
  BY <1>2, <1>3 DEF Sources

LEMMA StepEntitled ==
  GateTypeOK /\ FreshTxn /\ EntitledPhase /\ [Next]_vars => EntitledPhase'
<1> SUFFICES ASSUME GateTypeOK, FreshTxn, EntitledPhase, [Next]_vars PROVE EntitledPhase'
  OBVIOUS
<1>1. ASSUME NEW w \in Writers, Commit(w) PROVE EntitledPhase'
  <2> DEFINE t == txn[w]
  <2>1. /\ t.entry \in Entries /\ t.claim.phase \in Phases /\ t.claim.source \in Sources
        /\ t.live \in BOOLEAN
        /\ Allowed(t.claim.phase, t.claim.source, t.lock, t.live)
    BY <1>1, Open DEF Commit, FreshTxn, JudgedClaim
  <2>2. t.claim.phase \in AssertivePhases =>
          /\ t.claim.source \in SwimSources \cup Aggregators \cup LocalSources
          /\ t.claim.phase \in {"on", "in"} => t.claim.source \notin AdsbSources
    BY <2>1, EntitledSource
  <2>3. t.claim.phase \in {"on", "in"} => t.claim.phase \in AssertivePhases
    BY DEF AssertivePhases
  <2>4. CASE Present(t.entry)
    <3>1. /\ \A e \in Entries : e # t.entry => rows'[e] = rows[e]
          /\ rows'[t.entry] = Asserted(rows[t.entry], t.claim.phase, t.claim.source,
                                       t.lock.lockTier)
          /\ rows[t.entry] \in Row
      BY <1>1, <2>1, <2>4 DEF Commit, GateTypeOK, LedgerTypeOK, Present
    <3>2. rows'[t.entry].phase = t.claim.phase /\ rows'[t.entry].source = t.claim.source
      BY <3>1 DEF Asserted, Row
    <3> QED
      BY <2>2, <2>3, <3>1, <3>2 DEF EntitledPhase
  <2>5. CASE ~Present(t.entry)
    BY <1>1, <2>5 DEF Commit, EntitledPhase
  <2> QED
    BY <2>4, <2>5
<1>2. ASSUME EntryWrite PROVE EntitledPhase'
  <2>1. PICK e \in Entries :
          \/ \E r \in Routes : Add(e, r) \/ Edit(e, r)
          \/ Remove(e)
          \/ \E s \in Receivers : RecordLocalTrack(e, s)
    BY <1>2 DEF EntryWrite
  <2>2. /\ \A d \in Entries : d # e => rows'[d] = rows[d]
        /\ \/ rows'[e].phase = rows[e].phase /\ rows'[e].source = rows[e].source
           \/ rows'[e].phase \in {NoPhase, "absent"}
    <3>1. CASE \E r \in Routes : Add(e, r)
      BY <3>1 DEF Add, NewRow, GateTypeOK, LedgerTypeOK
    <3>2. CASE \E r \in Routes : Edit(e, r)
      BY <3>2 DEF Edit, GateTypeOK, LedgerTypeOK, Row, Present
    <3>3. CASE Remove(e)
      BY <3>3 DEF Remove, Absent, GateTypeOK, LedgerTypeOK
    <3>4. CASE \E s \in Receivers : RecordLocalTrack(e, s)
      BY <3>4 DEF RecordLocalTrack, GateTypeOK, LedgerTypeOK, Row, Present
    <3> QED
      BY <2>1, <3>1, <3>2, <3>3, <3>4
  <2> QED
    BY <2>2 DEF EntitledPhase, AssertivePhases, NoPhase
<1>3. ASSUME rows' = rows PROVE EntitledPhase'
  BY <1>3 DEF EntitledPhase
<1> QED
  BY <1>1, <1>2, <1>3
     DEF Next, vars, FeedLands, FeedGoesStale, Begin, ReadLock, Judge, Abort

(* No assertive phase on any row comes from FIDS or inference, and no ON or *)
(* IN from ADS-B, for every interleaving of any number of callers.          *)
THEOREM Entitlement == Spec => []EntitledPhase
<1>1. Init => EntitledPhase
  BY DEF Init, LedgerInit, EntitledPhase, Absent, AssertivePhases
<1> QED
  BY <1>1, StepEntitled, Invariant, PTL DEF Spec

-----------------------------------------------------------------------------
(* Without overlapping writes the gate implements the ledger.               *)

LEMMA AllowedColumns ==
  ASSUME NEW e \in Entries, Present(e), NEW p, NEW s, NEW live,
         Allowed(p, s, ColumnsOf(e), live)
  PROVE  Allowed(p, s, rows[e], live)
  BY DEF Allowed, ColumnsOf, SmesCovers, LocalEscape, OutranksLock

LEMMA CommitAsserts ==
  ASSUME GateTypeOK, FreshTxn, ~Overlap, NEW w \in Writers, Commit(w)
  PROVE  /\ txn[w].entry \in Entries /\ txn[w].claim \in Claims /\ txn[w].live \in BOOLEAN
         /\ AssertPhase(txn[w].entry, txn[w].claim, txn[w].live)
<1> DEFINE t == txn[w]
<1>1. /\ t.entry \in Entries /\ t.claim \in Claims /\ t.live \in BOOLEAN
      /\ t.pc = "commit" /\ SawRow(t)
      /\ Allowed(t.claim.phase, t.claim.source, t.lock, t.live)
  BY Open DEF Commit, FreshTxn, JudgedClaim
<1>2. Present(t.entry) /\ t.lock = ColumnsOf(t.entry)
  BY <1>1 DEF SawRow
<1>3. Accepts(rows[t.entry], t.claim.phase, t.claim.source, t.live)
  BY <1>1, <1>2, AllowedColumns DEF Accepts, SawRow
<1>4. t.lock.lockTier = rows[t.entry].lockTier
  BY <1>2 DEF ColumnsOf
<1>5. rows' = [rows EXCEPT ![t.entry] =
                 Asserted(@, t.claim.phase, t.claim.source, @.lockTier)]
  BY <1>2, <1>4 DEF Commit
<1> QED
  BY <1>1, <1>2, <1>3, <1>5 DEF AssertPhase

LEMMA StepImplements ==
  GateTypeOK /\ FreshTxn /\ ~Overlap /\ [Next]_vars => [LedgerNext]_rows
<1> SUFFICES ASSUME GateTypeOK, FreshTxn, ~Overlap, [Next]_vars PROVE [LedgerNext]_rows
  OBVIOUS
<1>1. ASSUME NEW w \in Writers, Commit(w) PROVE LedgerNext
  BY <1>1, CommitAsserts DEF LedgerNext
<1>2. ASSUME EntryWrite PROVE LedgerNext
  BY <1>2 DEF EntryWrite, LedgerNext
<1> QED
  BY <1>1, <1>2 DEF Next, vars, FeedLands, FeedGoesStale, Begin, ReadLock, Judge, Abort

(* When no write to an entry overlaps a claim being judged on it, every     *)
(* call of the gate takes effect in one step of the ledger, or not at all.  *)
THEOREM Refinement == ~Overlap => (Spec => ImplementsLedger)
<1> SUFFICES ASSUME ~Overlap PROVE Spec => LedgerSpec
  BY DEF ImplementsLedger
<1>1. Init => LedgerInit
  BY DEF Init
<1>2. GateTypeOK /\ FreshTxn /\ [Next]_vars => [LedgerNext]_rows
  BY StepImplements
<1> QED
  BY <1>1, <1>2, Invariant, PTL DEF Spec, LedgerSpec

-----------------------------------------------------------------------------
(* What a step of the ledger does to a row that stays.                      *)

LEMMA IndexType == \A p : PhaseIndex(p) \in Int
  BY DEF PhaseIndex

LEMMA AssertPhaseEffect ==
  ASSUME LedgerTypeOK, NEW e \in Entries, NEW c \in Claims, NEW live \in BOOLEAN,
         AssertPhase(e, c, live)
  PROVE  /\ \A d \in Entries : d # e => rows'[d] = rows[d]
         /\ rows'[e].phase = c.phase /\ rows'[e].source = c.source
         /\ PhaseIndex(rows[e].phase) <= PhaseIndex(c.phase)
         /\ rows[e].lockTier <= rows'[e].lockTier
         /\ c.phase \in AssertivePhases => Tier(c.source) <= rows'[e].lockTier
<1>1. rows[e] \in Row
  BY DEF AssertPhase, LedgerTypeOK, Present
<1>2. /\ \A d \in Entries : d # e => rows'[d] = rows[d]
      /\ rows'[e] = Asserted(rows[e], c.phase, c.source, rows[e].lockTier)
  BY DEF AssertPhase, LedgerTypeOK
<1>3. /\ rows'[e].phase = c.phase /\ rows'[e].source = c.source
      /\ rows'[e].lockTier = IF TakesLock(c.phase, c.source, rows[e].lockTier)
                             THEN Tier(c.source) ELSE rows[e].lockTier
  BY <1>1, <1>2 DEF Asserted, Row
<1>4. PhaseIndex(rows[e].phase) <= PhaseIndex(c.phase)
  BY IndexType DEF AssertPhase, Accepts, Regressive
<1>5. Tier(c.source) \in Tiers /\ rows[e].lockTier \in Tiers
  BY <1>1, TierType DEF Row, Tiers
<1>6. rows[e].lockTier <= rows'[e].lockTier
  BY <1>3, <1>5 DEF TakesLock, Tiers, NoTier
<1>7. c.phase \in AssertivePhases => Tier(c.source) <= rows'[e].lockTier
  BY <1>3, <1>5 DEF TakesLock, Tiers, NoTier
<1> QED
  BY <1>2, <1>3, <1>4, <1>6, <1>7

(* The other writers of a row keep its phase, source and lock.              *)
LEMMA EntryWriteEffect ==
  ASSUME LedgerTypeOK, EntryWrite
  PROVE  \E e \in Entries :
           /\ \A d \in Entries : d # e => rows'[d] = rows[d]
           /\ \/ /\ Stays(e) /\ rows[e] \in Row
                 /\ rows'[e].phase = rows[e].phase /\ rows'[e].source = rows[e].source
                 /\ rows'[e].lockTier = rows[e].lockTier
              \/ ~Stays(e) /\ rows'[e].phase \notin AssertivePhases
<1>1. PICK e \in Entries :
        \/ \E r \in Routes : Add(e, r) \/ Edit(e, r)
        \/ Remove(e)
        \/ \E s \in Receivers : RecordLocalTrack(e, s)
  BY DEF EntryWrite
<1>2. CASE \E r \in Routes : Add(e, r)
  <2>1. PICK r \in Routes : Add(e, r)
    BY <1>2
  <2>2. /\ ~Present(e) /\ rows'[e] = NewRow(r)
        /\ \A d \in Entries : d # e => rows'[d] = rows[d]
    BY <2>1 DEF Add, LedgerTypeOK
  <2>3. NewRow(r).phase \notin AssertivePhases
    BY DEF NewRow, AssertivePhases, NoPhase
  <2> QED
    BY <2>2, <2>3 DEF Stays
<1>3. CASE Remove(e)
  BY <1>3 DEF Remove, Absent, LedgerTypeOK, Stays, Present, AssertivePhases
<1>4. CASE \E r \in Routes : Edit(e, r)
  <2>1. PICK r \in Routes : Edit(e, r)
    BY <1>4
  <2>2. rows[e] \in Row
    BY <2>1 DEF Edit, LedgerTypeOK, Present
  <2>3. /\ rows'[e] = [rows[e] EXCEPT !.origin = r.origin, !.destination = r.destination]
        /\ \A d \in Entries : d # e => rows'[d] = rows[d]
    BY <2>1 DEF Edit, LedgerTypeOK
  <2>4. rows'[e] \in Row
    BY <2>2, <2>3 DEF Row
  <2> QED
    BY <2>2, <2>3, <2>4, NotAbsent DEF Row, Stays, Present
<1>5. CASE \E s \in Receivers : RecordLocalTrack(e, s)
  <2>1. PICK s \in Receivers : RecordLocalTrack(e, s)
    BY <1>5
  <2>2. rows[e] \in Row
    BY <2>1 DEF RecordLocalTrack, LedgerTypeOK, Present
  <2>3. /\ rows'[e] = [rows[e] EXCEPT !.track = s]
        /\ \A d \in Entries : d # e => rows'[d] = rows[d]
    BY <2>1 DEF RecordLocalTrack, LedgerTypeOK
  <2>4. rows'[e] \in Row
    BY <2>2, <2>3 DEF Row
  <2> QED
    BY <2>2, <2>3, <2>4, NotAbsent DEF Row, Stays, Present
<1> QED
  BY <1>1, <1>2, <1>3, <1>4, <1>5

(* Without overlapping writes a phase never moves backward and a lock tier  *)
(* is never lowered.                                                        *)
LEMMA StepForward ==
  GateTypeOK /\ FreshTxn /\ ~Overlap /\ [Next]_vars =>
    \A e \in Entries : Stays(e) =>
        /\ PhaseIndex(rows[e].phase) <= PhaseIndex(rows'[e].phase)
        /\ rows[e].lockTier <= rows'[e].lockTier
<1> SUFFICES ASSUME GateTypeOK, FreshTxn, ~Overlap, [Next]_vars, NEW e \in Entries, Stays(e)
             PROVE  /\ PhaseIndex(rows[e].phase) <= PhaseIndex(rows'[e].phase)
                    /\ rows[e].lockTier <= rows'[e].lockTier
  OBVIOUS
<1>1. LedgerTypeOK /\ rows[e] \in Row
  BY DEF GateTypeOK, LedgerTypeOK, Stays, Present
<1>2. /\ PhaseIndex(rows[e].phase) <= PhaseIndex(rows[e].phase)
      /\ rows[e].lockTier <= rows[e].lockTier
  BY <1>1, IndexType DEF Row, NoTier
<1>3. CASE \E w \in Writers : Commit(w)
  BY <1>1, <1>2, <1>3, CommitAsserts, AssertPhaseEffect
<1>4. CASE EntryWrite
  BY <1>1, <1>2, <1>4, EntryWriteEffect
<1>5. CASE rows' = rows
  BY <1>2, <1>5
<1> QED
  BY <1>3, <1>4, <1>5 DEF Next, vars, FeedLands, FeedGoesStale, Begin, ReadLock, Judge, Abort

(* Whatever the sources and their order, the recorded phase of a row that   *)
(* stays never moves back.                                                  *)
THEOREM ForwardOnly == ~Overlap => (Spec => PhaseForward)
<1> SUFFICES ASSUME ~Overlap PROVE Spec => PhaseForward
  OBVIOUS
<1>1. GateTypeOK /\ FreshTxn /\ [Next]_vars =>
        [\A e \in Entries :
           Stays(e) => PhaseIndex(rows[e].phase) <= PhaseIndex(rows[e].phase')]_vars
  BY StepForward
<1> QED
  BY <1>1, Invariant, PTL DEF Spec, PhaseForward

(* A lower tier never takes a lock over.                                    *)
THEOREM LockOnlyRises == ~Overlap => (Spec => LockNeverLowered)
<1> SUFFICES ASSUME ~Overlap PROVE Spec => LockNeverLowered
  OBVIOUS
<1>1. GateTypeOK /\ FreshTxn /\ [Next]_vars =>
        [\A e \in Entries : Stays(e) => rows[e].lockTier <= rows[e].lockTier']_vars
  BY StepForward
<1> QED
  BY <1>1, Invariant, PTL DEF Spec, LockNeverLowered

(* The lock on a row is never weaker than the source of the assertive phase *)
(* the row shows.                                                           *)
THEOREM LockCovers == ~Overlap => (Spec => []LockCoversSource)
<1> SUFFICES ASSUME ~Overlap PROVE Spec => []LockCoversSource
  OBVIOUS
<1>1. Init => LockCoversSource
  BY DEF Init, LedgerInit, LockCoversSource, Absent, AssertivePhases
<1>2. GateTypeOK /\ FreshTxn /\ LockCoversSource /\ [Next]_vars => LockCoversSource'
  <2> SUFFICES ASSUME GateTypeOK, FreshTxn, LockCoversSource, [Next]_vars,
                      NEW e \in Entries, rows'[e].phase \in AssertivePhases
               PROVE  Tier(rows'[e].source) <= rows'[e].lockTier
    BY DEF LockCoversSource
  <2>1. LedgerTypeOK
    BY DEF GateTypeOK
  <2>2. CASE \E w \in Writers : Commit(w)
    BY <2>1, <2>2, CommitAsserts, AssertPhaseEffect DEF LockCoversSource
  <2>3. CASE EntryWrite
    BY <2>1, <2>3, EntryWriteEffect DEF LockCoversSource
  <2>4. CASE rows' = rows
    BY <2>4 DEF LockCoversSource
  <2> QED
    BY <2>2, <2>3, <2>4
       DEF Next, vars, FeedLands, FeedGoesStale, Begin, ReadLock, Judge, Abort
<1> QED
  BY <1>1, <1>2, Invariant, PTL DEF Spec

-----------------------------------------------------------------------------
(* SWIM's hold on a row: the lock that was judged is the row's own, so a    *)
(* lesser source got past it only because SWIM was judged down.             *)

LEMMA PastSwimLock ==
  ASSUME NEW p \in AssertivePhases, NEW s, NEW row, row.lockTier = 40, NEW live,
         Tier(s) < 40, Tier(s) \in Tiers, Allowed(p, s, row, live)
  PROVE  ~live
  BY DEF Allowed, LocalEscape, OutranksLock, NoTier, Tiers

LEMMA StepSwimStands ==
  ASSUME GateTypeOK, FreshTxn, ~Overlap, [Next]_vars,
         NEW e \in Entries, Stays(e), rows[e].lockTier = 40,
         rows'[e].phase \in AssertivePhases, Tier(rows'[e].source) < 40,
         rows'[e].source # rows[e].source
  PROVE  \E w \in Writers : OpenOn(w, e) /\ txn[w].pc = "commit" /\ ~txn[w].live
<1>1. LedgerTypeOK
  BY DEF GateTypeOK
<1>2. ASSUME NEW w \in Writers, Commit(w)
      PROVE  OpenOn(w, e) /\ txn[w].pc = "commit" /\ ~txn[w].live
  <2> DEFINE t == txn[w]
  <2>1. /\ t.entry \in Entries /\ t.claim \in Claims /\ t.live \in BOOLEAN
        /\ AssertPhase(t.entry, t.claim, t.live)
    BY <1>2, CommitAsserts
  <2>2. /\ \A d \in Entries : d # t.entry => rows'[d] = rows[d]
        /\ rows'[t.entry].phase = t.claim.phase /\ rows'[t.entry].source = t.claim.source
    BY <1>1, <2>1, AssertPhaseEffect
  <2>3. t.entry = e
    BY <2>2
  <2>4. Allowed(t.claim.phase, t.claim.source, rows[e], t.live)
    BY <2>1, <2>3 DEF AssertPhase, Accepts
  <2>5. Tier(t.claim.source) \in Tiers
    BY <2>1, TierType
  <2>6. ~t.live
    BY <2>2, <2>3, <2>4, <2>5, PastSwimLock
  <2> QED
    BY <1>2, <2>3, <2>6 DEF OpenOn, Commit
<1>3. CASE EntryWrite
  BY <1>1, <1>3, EntryWriteEffect
<1>4. CASE rows' = rows
  BY <1>4
<1> QED
  BY <1>2, <1>3, <1>4 DEF Next, vars, FeedLands, FeedGoesStale, Begin, ReadLock, Judge, Abort

(* A row whose lock SWIM holds takes an assertive phase from a lesser       *)
(* source only through a claim that was judged while SWIM was down.         *)
THEOREM SwimHolds == ~Overlap => (Spec => SwimStands)
<1> SUFFICES ASSUME ~Overlap PROVE Spec => SwimStands
  OBVIOUS
<1>1. GateTypeOK /\ FreshTxn /\ [Next]_vars =>
        [\A e \in Entries :
           (/\ Stays(e)
            /\ rows[e].lockTier = 40
            /\ rows[e].phase' \in AssertivePhases
            /\ Tier(rows[e].source') < 40
            /\ rows[e].source' # rows[e].source)
           => \E w \in Writers : OpenOn(w, e) /\ txn[w].pc = "commit" /\ ~txn[w].live]_vars
  BY StepSwimStands
<1> QED
  BY <1>1, Invariant, PTL DEF Spec, SwimStands
=============================================================================
