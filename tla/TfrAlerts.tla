----------------------------- MODULE TfrAlerts ------------------------------
(***************************************************************************)
(* How a temporary flight restriction reaches the operator's phone: the FAA *)
(* list, the poller's fetch into `tfrs`, the pusher's loop over that table  *)
(* (its one-time cutovers and corrections before the normal pushes), and    *)
(* the poller's enrichment skill, which shares the pusher's dedup file.     *)
(* The pusher is one process with one thread; `job` is where its loop is.   *)
(* A text stands for what the list says of a TFR together with its time of  *)
(* change; the window, and of most SECURITY TFRs the reason to push, are in *)
(* a detail record the poller fetches for each text and keeps in memory.    *)
(***************************************************************************)
EXTENDS PushDedup, FiniteSets

CONSTANTS Vip,          \* TFRs of type VIP
          VipSecurity,  \* of type SECURITY, with presidential language
          Security,     \* of type SECURITY otherwise
          ByList,       \* those of Security with a reason in the list item (its facility,
                        \* its words); the others have it in their detail record
          Widened,      \* TFR_WIDEN_FIX_IDS
          EndOf,        \* TFR -> text -> the end of the window in its detail, 0 for a
                        \* record without times, past MaxNow for a start without end
          Enrichment,   \* the skill's slot in the dedup file
          Pusher, Skill,
          Days          \* bounds, one of them for each behaviour: the TFRs listed at the start, those
                        \* the FAA then changes once, the faults, the hours, whether the skill runs

Tfrs  == Vip \cup VipSecurity \cup Security
Texts == Hashes
NoRow == [text |-> NoHash]
MaybeText == Texts \cup {NoHash}
Row   == [text : Texts, detail : MaybeText, classed : BOOLEAN]
Rows  == [Tfrs -> Row \cup {NoRow}]
NoRows == [t \in Tfrs |-> NoRow]
NoDetails == [t \in Tfrs |-> [of |-> NoHash, text |-> NoHash]]

ASSUME TfrAssumption ==
    /\ Procs = {Pusher, Skill} /\ Pusher # Skill /\ Hashes # {}
    /\ Keys = Tfrs \cup {Enrichment} /\ Enrichment \notin Tfrs
    /\ ByList \subseteq Security /\ EndOf \in [Tfrs -> [Texts -> Nat]]
    /\ Widened \subseteq Security /\ \A t, u \in Widened : t = u
    /\ Vip \cap (VipSecurity \cup Security) = {} /\ VipSecurity \cap Security = {}
    /\ Days \subseteq [tfrs : SUBSET Tfrs, news : SUBSET Tfrs, faults : Nat, until : Nat, skill : BOOLEAN]

VARIABLES faa,       \* TFR -> the text the FAA lists it with
          rows,      \* the table `tfrs`
          details,   \* _detail_cache: TFR -> the text it was fetched for, the text it is of
          poll,      \* the poller's fetch
          stamped,   \* feed_state says a fetch begun after the cutover's `since` succeeded
          markers,   \* the one-time marker files
          waits,     \* the state files there are
          fixIds,    \* the candidates in the window-fix state file
          cutAt,     \* the time in the VIP cutover's marker
          job,       \* the pusher's loop
          heard,     \* what was sent with success
          silenced,  \* what was recorded without a push
          last,      \* TFR -> the text last pushed or silenced, when, and who must not send it again
          fixed,     \* TFR -> corrected alerts since the pusher started
          day        \* what may still happen

wvars == <<faa, rows, details, poll, stamped>>
fvars == <<markers, waits, fixIds, cutAt>>
gvars == <<heard, silenced, last, fixed>>
vars  == <<dvars, wvars, fvars, gvars, job, day>>

IsVip(t)      == t \in Vip \cup VipSecurity
IsSecurity(t) == t \in VipSecurity \cup Security
Listed(list)  == {t \in Tfrs : list[t] # NoRow}

(* The row has a window; without one, or before its end, it is active.      *)
Timed(t, r) == r.detail # NoHash /\ EndOf[t][r.detail] # 0
Open(t, r)  == Timed(t, r) => EndOf[t][r.detail] > now

(* get_active_tfrs: what the pusher ever sees of the table.                 *)
Active == [t \in Tfrs |-> IF rows[t] # NoRow /\ Open(t, rows[t]) THEN rows[t] ELSE NoRow]

Reasoned(t, r)     == r.classed /\ (t \in ByList \/ r.detail # NoHash)
VipClass(t, r)     == IsVip(t) \/ Reasoned(t, r)
SecurityOnly(t, r) == ~IsVip(t) /\ Reasoned(t, r)

(* The functions of the pusher, in the order of its loop; the first runs at *)
(* a start only.  A function with a marker of its own returns at once when  *)
(* the marker is there, so the loop goes on to the first without.           *)
Jobs  == {"baseline", "fix", "cutover", "widen", "push"}
At(j) == [at |-> j, step |-> "start", list |-> NoRows, left |-> {}, kept |-> {}]

FromWiden(done)    == IF "widen" \in done THEN At("push") ELSE At("widen")
FromCutover(done)  == IF "cutover" \in done THEN FromWiden(done) ELSE At("cutover")
FromFix(done)      == IF "fix" \in done THEN FromCutover(done) ELSE At("fix")
FromBaseline(done) == IF "baseline" \in done THEN FromFix(done) ELSE At("baseline")

After(j, done) ==
    CASE j = "baseline" -> FromFix(done)
      [] j = "fix"      -> FromCutover(done)
      [] j = "cutover"  -> FromWiden(done)
      [] j = "widen"    -> At("push")
      [] j = "push"     -> FromFix(done)

NoNews == [text |-> NoHash, ts |-> 0, once |-> {}]
Senders == {"push", "widen"}

JobStates == [at : Jobs, step : {"start", "judge", "visit"}, list : Rows,
              left : SUBSET Tfrs, kept : SUBSET Tfrs]

TypeOK ==
    /\ DedupTypeOK
    /\ faa \in [Tfrs -> MaybeText]
    /\ rows \in Rows
    /\ details \in [Tfrs -> [of : MaybeText, text : MaybeText]]
    /\ poll \in {Idle} \cup [at : {"detail", "upsert", "stamp"}, list : [Tfrs -> MaybeText],
                             got : [Tfrs -> MaybeText], left : SUBSET Tfrs, after : BOOLEAN]
    /\ stamped \in BOOLEAN
    /\ markers \subseteq Jobs \ {"push"}
    /\ waits \subseteq {"fix", "cutover", "widen"}
    /\ fixIds \subseteq Tfrs
    /\ cutAt \in 0 .. MaxNow
    /\ job \in JobStates
    /\ heard \subseteq Tfrs \X Texts
    /\ silenced \subseteq Tfrs \X Texts
    /\ last \in [Tfrs -> [text : Texts \cup {NoHash}, ts : 0 .. MaxNow, once : SUBSET Senders]]
    /\ fixed \in [Tfrs -> Nat]
    /\ day \in [tfrs : SUBSET Tfrs, news : SUBSET Tfrs, faults : Nat, until : Nat, skill : BOOLEAN]

(* Rows an earlier poller wrote: not yet classed, and without a detail.     *)
OldRows(ts, x) == [t \in Tfrs |-> IF t \in ts THEN [text |-> x, detail |-> NoHash, classed |-> FALSE]
                                  ELSE NoRow]

OldText == CHOOSE x \in Texts : TRUE

(* The first start on a state volume, or a start on one where the cutover   *)
(* is over and the VIP TFRs of the day were pushed without their windows.   *)
Init ==
    /\ day \in Days
    /\ faa = [t \in Tfrs |-> IF t \in day.tfrs THEN OldText ELSE NoHash]
    /\ rows = OldRows(day.tfrs, OldText)
    /\ \/ /\ disk = Empty /\ markers = {}
          /\ heard = {} /\ last = [t \in Tfrs |-> NoNews]
       \/ LET pushed == {t \in day.tfrs : IsVip(t)}
              old    == [text |-> OldText, ts |-> 1, once |-> Senders]
          IN /\ disk = [k \in Keys |-> IF k \in pushed THEN [ts |-> 1, hash |-> OldText] ELSE Forgotten]
             /\ markers = {"baseline"}
             /\ heard = pushed \X {OldText}
             /\ last = [t \in Tfrs |-> IF t \in pushed THEN old ELSE NoNews]
    /\ DedupInit
    /\ cutAt = 0
    /\ details = NoDetails /\ poll = Idle /\ stamped = FALSE
    /\ fixIds = {} /\ waits = {}
    /\ job = FromBaseline(markers)
    /\ silenced = {} /\ fixed = [t \in Tfrs |-> 0]

-----------------------------------------------------------------------------
(* The FAA and the poller's fetch.                                          *)

FaaChanges(t, x) ==
    /\ t \in day.news /\ faa[t] # x
    /\ day' = [day EXCEPT !.news = @ \ {t}]
    /\ faa' = [faa EXCEPT ![t] = x]
    /\ UNCHANGED <<dvars, rows, details, poll, stamped, fvars, gvars, job>>

FetchStart ==
    /\ poll = Idle
    /\ poll' = [at |-> "detail", list |-> faa, got |-> [t \in Tfrs |-> NoHash],
                left |-> {t \in Tfrs : faa[t] # NoHash}, after |-> "cutover" \in waits]
    /\ UNCHANGED <<dvars, faa, rows, details, stamped, fvars, gvars, job, day>>

(* fetch_detail, for each of the list: from the cache while the text is the *)
(* same; else fetched, perhaps newer than the list by now; else, when that  *)
(* fails, the last one there was.                                           *)
Published(t) == IF faa[t] = NoHash THEN poll.list[t] ELSE faa[t]

FetchDetails ==
    /\ poll.at = "detail"
    /\ \E fetched \in SUBSET {t \in poll.left : details[t].of # poll.list[t]} :
         details' = [t \in Tfrs |-> IF t \in fetched
                                    THEN [of |-> poll.list[t], text |-> Published(t)]
                                    ELSE details[t]]
    /\ poll' = [poll EXCEPT !.at = "upsert", !.got = [t \in Tfrs |-> details'[t].text]]
    /\ UNCHANGED <<dvars, faa, rows, stamped, fvars, gvars, job, day>>

(* upsert_tfr: window and reasons with it, as far as they are known         *)
Upsert(t) ==
    /\ poll.at = "upsert" /\ t \in poll.left
    /\ rows' = [rows EXCEPT ![t] = [text |-> poll.list[t], detail |-> poll.got[t],
                                    classed |-> TRUE]]
    /\ poll' = [poll EXCEPT !.left = @ \ {t}]
    /\ UNCHANGED <<dvars, faa, details, stamped, fvars, gvars, job, day>>

(* expire_tfrs: an empty list wipes nothing                                 *)
ExpireTfrs ==
    /\ poll.at = "upsert" /\ poll.left = {}
    /\ rows' = [t \in Tfrs |-> IF poll.list[t] = NoHash /\ \E u \in Tfrs : poll.list[u] # NoHash
                               THEN NoRow ELSE rows[t]]
    /\ poll' = [poll EXCEPT !.at = "stamp"]
    /\ UNCHANGED <<dvars, faa, details, stamped, fvars, gvars, job, day>>

FetchStamp ==
    /\ poll.at = "stamp"
    /\ stamped' = poll.after
    /\ poll' = Idle
    /\ UNCHANGED <<dvars, faa, rows, details, fvars, gvars, job, day>>

Faulty == day.faults > 0 /\ day' = [day EXCEPT !.faults = @ - 1]

FetchFails ==
    /\ poll # Idle /\ Faulty
    /\ stamped' = FALSE
    /\ poll' = Idle
    /\ UNCHANGED <<dvars, faa, rows, details, fvars, gvars, job>>

(* The details are in memory only.                                          *)
PollerRestart ==
    /\ Faulty
    /\ poll' = Idle /\ details' = NoDetails
    /\ UNCHANGED <<dvars, faa, rows, stamped, fvars, gvars, job>>

-----------------------------------------------------------------------------
(* The skill: a question by time, and a record whatever the sends achieved. *)

Summary == CHOOSE h \in Hashes : TRUE      \* its stable_key, of the ids in the list

SkillAsks ==
    /\ day.skill
    /\ Ask(Skill, Enrichment, Summary, TRUE)
    /\ UNCHANGED <<wvars, fvars, gvars, job, day>>

SkillActs ==
    /\ call[Skill].at = "told"
    /\ IF call[Skill].push THEN Record(Skill, Enrichment, call[Skill].hash) ELSE Return(Skill)
    /\ UNCHANGED <<wvars, fvars, gvars, job, day>>

-----------------------------------------------------------------------------
(* The calls into the dedup file.                                           *)

Silencing == job.at \in {"baseline", "cutover"}

(* A silenced TFR counts as such once its record is in the file.            *)
Dedup(p) ==
    /\ DedupStep(p)
    /\ IF p = Pusher /\ call[p].at = "write"
            /\ Silencing
       THEN LET t == call[p].key
                e == call[p].entry
            IN /\ last' = [last EXCEPT ![t] = [text |-> e.hash, ts |-> e.ts, once |-> Senders]]
               /\ silenced' = silenced \cup {<<t, e.hash>>}
       ELSE UNCHANGED <<last, silenced>>
    /\ UNCHANGED <<wvars, fvars, heard, fixed, job, day>>

TickTock == now < day.until /\ Tick /\ UNCHANGED <<wvars, fvars, gvars, job, day>>

-----------------------------------------------------------------------------
(* The pusher.  A state file may have reached its give-up time (2 h or a    *)
(* day) whenever it is looked at.                                           *)

Free == call[Pusher] = Idle

Visiting(t) == job.step = "visit" /\ t \in job.left

Begin(j, list, left) ==
    job' = [at |-> j, step |-> "visit", left |-> left, kept |-> {},
            list |-> [t \in Tfrs |-> IF t \in left THEN list[t] ELSE NoRow]]

Leave(t, keep) ==
    job' = [job EXCEPT !.left = @ \ {t}, !.list[t] = NoRow, !.kept = IF keep THEN @ \cup {t} ELSE @]

Over == job.step = "visit" /\ job.left = {} /\ Free

(* The answer the pusher got for t: to act on it is to leave t behind.      *)
ToldOf(t) == call[Pusher].at = "told" /\ call[Pusher].key = t

Sent(t, x) ==
    /\ heard' = heard \cup {<<t, x>>}
    /\ last' = [last EXCEPT ![t] = [text |-> x, ts |-> now, once |-> Senders]]

(* vip_cutover_baseline                                                     *)
BaselineStart ==
    /\ job.at = "baseline" /\ job.step = "start"
    /\ Begin("baseline", Active, {t \in Listed(Active) : IsVip(t)})
    /\ UNCHANGED <<dvars, wvars, fvars, gvars, day>>

BaselineVisit(t) ==
    /\ job.at = "baseline" /\ Visiting(t) /\ Free
    /\ Record(Pusher, t, job.list[t].text)
    /\ Leave(t, FALSE)
    /\ UNCHANGED <<wvars, fvars, gvars, day>>

BaselineDone ==
    /\ job.at = "baseline" /\ Over
    /\ markers' = markers \cup {"baseline"}
    /\ cutAt' = now
    /\ job' = FromFix(markers')
    /\ UNCHANGED <<dvars, wvars, fixIds, waits, gvars, day>>

(* vip_window_corrections.  The candidates are read through the dedup's     *)
(* copy, which is the file (CacheFresh).                                    *)
FixStart ==
    /\ job.at = "fix" /\ job.step = "start"
    /\ LET ids == IF "fix" \in waits THEN fixIds ELSE {t \in Tfrs : cutAt < disk[t].ts}
       IN \/ /\ "fix" \notin waits /\ "baseline" \notin markers
             /\ markers' = markers \cup {"fix"}
             /\ job' = FromCutover(markers')
             /\ UNCHANGED <<fixIds, waits>>
          \/ /\ "fix" \in waits \/ "baseline" \in markers
             /\ Begin("fix", Active, ids)
             /\ fixIds' = ids /\ waits' = waits \cup {"fix"} /\ UNCHANGED markers
    /\ UNCHANGED <<dvars, wvars, cutAt, gvars, day>>

FixReady(t) == job.list[t] # NoRow /\ IsVip(t) /\ Timed(t, job.list[t])

FixSkip(t) ==
    /\ job.at = "fix" /\ Visiting(t) /\ ~FixReady(t)
    /\ Leave(t, job.list[t] # NoRow /\ IsVip(t))
    /\ UNCHANGED <<dvars, wvars, fvars, gvars, day>>

FixSend(t) ==
    /\ job.at = "fix" /\ Visiting(t) /\ FixReady(t)
    /\ \/ Leave(t, FALSE) /\ fixed' = [fixed EXCEPT ![t] = @ + 1] /\ UNCHANGED day
       \/ Leave(t, TRUE) /\ Faulty /\ UNCHANGED fixed
    /\ UNCHANGED <<dvars, wvars, fvars, heard, silenced, last>>

FixDone_AllAgain ==     \* mutant: the ids of the file are left as they were
    /\ job.at = "fix" /\ Over
    /\ \/ job.kept # {} /\ UNCHANGED <<fixIds, waits, markers>>
       \/ fixIds' = {} /\ waits' = waits \ {"fix"} /\ markers' = markers \cup {"fix"}
    /\ job' = FromCutover(markers')
    /\ UNCHANGED <<dvars, wvars, cutAt, gvars, day>>

FixDone ==
    /\ job.at = "fix" /\ Over
    /\ \/ job.kept # {} /\ fixIds' = job.kept /\ UNCHANGED <<waits, markers>>
       \/ fixIds' = {} /\ waits' = waits \ {"fix"} /\ markers' = markers \cup {"fix"}
    /\ job' = FromCutover(markers')
    /\ UNCHANGED <<dvars, wvars, cutAt, gvars, day>>

(* tfr_security_cutover: the list first, then whether the classes landed    *)
CutoverStart ==
    /\ job.at = "cutover" /\ job.step = "start"
    /\ waits' = waits \cup {"cutover"}
    /\ stamped' = ("cutover" \in waits /\ stamped)
    /\ job' = [At("cutover") EXCEPT !.step = "judge", !.list = Active]
    /\ UNCHANGED <<dvars, faa, rows, details, poll, markers, fixIds, cutAt, gvars, day>>

Landed(list) ==
    LET sec == {t \in Listed(list) : IsSecurity(t)}
    IN stamped /\ (sec = {} \/ \E t \in sec : list[t].classed)

CutoverJudge ==
    /\ job.at = "cutover" /\ job.step = "judge"
    /\ \/ Begin("cutover", job.list, {t \in Listed(job.list) : IsSecurity(t)} \ Widened)
       \/ ~Landed(job.list) /\ job' = FromWiden(markers)
    /\ UNCHANGED <<dvars, wvars, fvars, gvars, day>>

AskAbout(t) == Ask(Pusher, t, job.list[t].text, FALSE)

CutoverVisit(t) ==
    /\ job.at = "cutover" /\ Visiting(t) /\ Free
    /\ AskAbout(t)
    /\ UNCHANGED <<wvars, fvars, gvars, job, day>>

CutoverActs(t) ==
    /\ job.at = "cutover" /\ Visiting(t) /\ ToldOf(t)
    /\ IF call[Pusher].push THEN Record(Pusher, t, job.list[t].text) ELSE Return(Pusher)
    /\ Leave(t, FALSE)
    /\ UNCHANGED <<wvars, fvars, gvars, day>>

CutoverDone ==
    /\ job.at = "cutover" /\ Over
    /\ markers' = markers \cup {"cutover"}
    /\ waits' = waits \ {"cutover"}
    /\ job' = FromWiden(markers')
    /\ UNCHANGED <<dvars, wvars, fixIds, cutAt, gvars, day>>

(* tfr_security_widen_corrections                                           *)
WidenStart ==
    /\ job.at = "widen" /\ job.step = "start"
    /\ Begin("widen", Active, Widened) /\ waits' = waits \cup {"widen"}
    /\ UNCHANGED <<dvars, wvars, markers, fixIds, cutAt, gvars, day>>

WidenReady(t) == job.list[t] # NoRow /\ Reasoned(t, job.list[t]) /\ Timed(t, job.list[t])

WidenSkip(t) ==
    /\ job.at = "widen" /\ Visiting(t) /\ ~WidenReady(t)
    /\ Leave(t, job.list[t] # NoRow)
    /\ UNCHANGED <<dvars, wvars, fvars, gvars, day>>

(* sent, and recorded so that the normal path does not push it again        *)
WidenSend(t) ==
    /\ job.at = "widen" /\ Visiting(t) /\ Free /\ WidenReady(t)
    /\ LET x == job.list[t].text
       IN \/ Sent(t, x) /\ Record(Pusher, t, x) /\ Leave(t, FALSE) /\ UNCHANGED day
          \/ Leave(t, TRUE) /\ Faulty /\ UNCHANGED <<heard, last, dvars>>
    /\ UNCHANGED <<wvars, fvars, silenced, fixed>>

WidenDone ==
    /\ job.at = "widen" /\ Over
    /\ \/ job.kept # {} /\ UNCHANGED <<waits, markers>>
       \/ waits' = waits \ {"widen"} /\ markers' = markers \cup {"widen"}
    /\ job' = At("push")
    /\ UNCHANGED <<dvars, wvars, fixIds, cutAt, gvars, day>>

(* push_vip_tfrs                                                            *)
PushStart_AnyOrder ==    \* mutant: the one-time correction is not waited for
    /\ job.at = "push" /\ job.step = "start"
    /\ Begin("push", Active, {t \in Listed(Active) :
                              /\ VipClass(t, Active[t])
                              /\ SecurityOnly(t, Active[t]) => "cutover" \in markers})
    /\ UNCHANGED <<dvars, wvars, fvars, gvars, day>>

PushStart_NoCutover ==   \* mutant: security-only rows do not wait
    /\ job.at = "push" /\ job.step = "start"
    /\ Begin("push", Active, {t \in Listed(Active) :
                              /\ VipClass(t, Active[t])
                              /\ t \in Widened => "widen" \in markers})
    /\ UNCHANGED <<dvars, wvars, fvars, gvars, day>>

PushStart ==
    /\ job.at = "push" /\ job.step = "start"
    /\ Begin("push", Active, {t \in Listed(Active) :
                              /\ VipClass(t, Active[t])
                              /\ SecurityOnly(t, Active[t]) => "cutover" \in markers
                              /\ t \in Widened => "widen" \in markers})
    /\ UNCHANGED <<dvars, wvars, fvars, gvars, day>>

PushVisit(t) ==
    /\ job.at = "push" /\ Visiting(t) /\ Free
    /\ AskAbout(t)
    /\ UNCHANGED <<wvars, fvars, gvars, job, day>>

Suppressed(t) ==
    /\ job.at = "push" /\ Visiting(t) /\ ToldOf(t) /\ ~call[Pusher].push
    /\ Return(Pusher) /\ Leave(t, FALSE)
    /\ UNCHANGED <<wvars, fvars, gvars, day>>

(* sent and recorded; or lost by every channel, and left for the next round *)
Push_RecordFirst(t) ==   \* mutant: recorded whatever became of the push
    /\ job.at = "push" /\ Visiting(t) /\ ToldOf(t) /\ call[Pusher].push
    /\ Record(Pusher, t, job.list[t].text)
    /\ \/ Sent(t, job.list[t].text) /\ UNCHANGED day
       \/ Faulty /\ UNCHANGED <<heard, last>>
    /\ Leave(t, FALSE)
    /\ UNCHANGED <<wvars, fvars, silenced, fixed>>

Push(t) ==
    /\ job.at = "push" /\ Visiting(t) /\ ToldOf(t) /\ call[Pusher].push
    /\ \/ /\ Sent(t, job.list[t].text)
          /\ Record(Pusher, t, job.list[t].text)
          /\ UNCHANGED day
       \/ Faulty /\ Return(Pusher) /\ UNCHANGED <<heard, last>>
    /\ Leave(t, FALSE)
    /\ UNCHANGED <<wvars, fvars, silenced, fixed>>

PushDone ==
    /\ job.at = "push" /\ Over
    /\ job' = FromFix(markers)
    /\ UNCHANGED <<dvars, wvars, fvars, gvars, day>>

-----------------------------------------------------------------------------
(* A state file grows old; an exception ends one function of the loop; the  *)
(* pusher restarts.                                                         *)

(* What was sent and not yet recorded may be sent again, and a correction   *)
(* also while the function that sends it has not written its marker.        *)
Unsure ==
    last' = [t \in Tfrs |->
                IF call[Pusher].at \in {"lock", "write"} /\ call[Pusher].key = t /\ ~Silencing
                THEN [last[t] EXCEPT !.once = {}]
                ELSE IF job.at = "widen" /\ t \in Widened THEN [last[t] EXCEPT !.once = @ \ {"widen"}]
                ELSE last[t]]

JobFails ==
    /\ Faulty
    /\ Abandon(Pusher) /\ Unsure
    /\ job' = After(job.at, markers)
    /\ fixed' = [t \in Tfrs |-> 0]
    /\ UNCHANGED <<wvars, fvars, heard, silenced>>

PusherRestart ==
    /\ Faulty
    /\ Die(Pusher) /\ Unsure
    /\ job' = FromBaseline(markers)
    /\ fixed' = [t \in Tfrs |-> 0]
    /\ UNCHANGED <<wvars, fvars, heard, silenced>>

SkillRestart ==
    /\ Faulty
    /\ Die(Skill)
    /\ UNCHANGED <<wvars, fvars, gvars, job>>

-----------------------------------------------------------------------------
PusherStep ==
    \/ BaselineStart \/ BaselineDone \/ FixStart \/ FixDone
    \/ CutoverStart \/ CutoverJudge \/ CutoverDone
    \/ WidenStart \/ WidenDone \/ PushStart \/ PushDone
    \/ \E t \in Tfrs :
          \/ BaselineVisit(t) \/ FixSkip(t) \/ FixSend(t)
          \/ CutoverVisit(t) \/ CutoverActs(t) \/ WidenSkip(t) \/ WidenSend(t)
          \/ PushVisit(t) \/ Suppressed(t) \/ Push(t)

SkillStep == SkillAsks \/ SkillActs

PollerStep ==
    \/ FetchStart \/ FetchDetails \/ (\E t \in Tfrs : Upsert(t)) \/ ExpireTfrs \/ FetchStamp
    \/ FetchFails \/ PollerRestart

World ==
    \/ \E t \in Tfrs, x \in Texts \cup {NoHash} : FaaChanges(t, x)
    \/ TickTock

Next ==
    \/ PusherStep \/ SkillStep \/ PollerStep \/ World
    \/ \E p \in Procs : Dedup(p)
    \/ JobFails \/ PusherRestart \/ SkillRestart

Spec == Init /\ [][Next]_vars

(* The pusher's loop runs every 30 s and catches what its functions raise,  *)
(* a waiter on the flock is served once it is free again and again, the     *)
(* skill leaves it in bounded time, and a state file is one day too old.    *)
(* Nothing is assumed of the FAA, of the poller or, beyond finitely many    *)
(* faults, of ntfy.                                                         *)
GivesUp ==
    \/ CutoverJudge /\ job'.at = "cutover"
    \/ WidenDone /\ "widen" \in markers'

FairSpec ==
    /\ Spec
    /\ SF_vars(PusherStep \/ Dedup(Pusher))
    /\ WF_vars(Dedup(Skill))
    /\ SF_vars(GivesUp)

-----------------------------------------------------------------------------
(* Properties.                                                              *)

(* What the dedup file holds about a TFR was sent, or silenced by a cutover *)
(* (push_vip_tfrs records only what was delivered): no fault, restart or    *)
(* write of the other process makes an alert count as given that was not.   *)
NothingSwallowed ==
    \A t \in Tfrs : disk[t] # Forgotten => <<t, disk[t].hash>> \in heard \cup silenced

(* The pusher sends t's text x by the normal path or the widen correction.  *)
Sends(t, x) ==
    /\ job.at \in {"push", "widen"} /\ call[Pusher].at # "lock"
    /\ call'[Pusher].at = "lock" /\ call'[Pusher].key = t /\ call'[Pusher].entry.hash = x

Unchanged(t, x) == last[t].text = x /\ job.at \in last[t].once

(* A text is sent again only when the retention of its record is over or a  *)
(* fault fell between a send and its record: not for a restart elsewhere,   *)
(* not by both paths, and not for a TFR a cutover silenced.                 *)
OncePerRetention ==
    [][\A t \in Tfrs, x \in Texts :
          Sends(t, x) /\ Unchanged(t, x) => now - last[t].ts >= Retention]_vars

(* "once, with its active window; again only if the FAA changes the TFR"    *)
(* (push_vip_tfrs), and of the cutover "only SECURITY TFRs that appear (or  *)
(* that the FAA changes) afterwards push".                                  *)
AgainOnlyIfChanged ==
    [][\A t \in Tfrs, x \in Texts : Sends(t, x) => ~Unchanged(t, x)]_vars

(* A SECURITY TFR that stood in the FAA list before the rollout pages       *)
(* nobody, whichever of the fetch that classes it and the cutover comes     *)
(* first, and whatever fails: until the memory of the cutover is over, and  *)
(* of one none of whose windows is over (for the others see OnlyNewPush).   *)
NoneOver(t) == \A x \in Texts : EndOf[t][x] = 0 \/ EndOf[t][x] > now

RolloutIsQuiet ==
    [][\A t \in (Security \ Widened) \cap day.tfrs :
          Sends(t, OldText) /\ NoneOver(t) => now > Retention]_vars

(* "only SECURITY TFRs that appear (or that the FAA changes) afterwards     *)
(* push" (pusher/main.py, of the cutover): the others do not, windows over  *)
(* or not, while the memory of the cutover lasts.                           *)
OnlyNewPush ==
    [][\A t \in (Security \ Widened) \cap day.tfrs : Sends(t, OldText) => now > Retention]_vars

(* A window correction goes out once, unless the pusher restarts or the     *)
(* function raises before its state file says so.                           *)
CorrectedOnce == \A t \in Tfrs : fixed[t] <= 1

(* What the FAA publishes about a VIP-class TFR does not stay unheard while *)
(* the row is active: it reaches the operator, or a cutover silenced it, or *)
(* its window ends, past lost sends, exceptions, restarts, markers waited   *)
(* for and a dedup file shared with the skill.  (A window that ends while   *)
(* the pusher waits takes the alert with it.)                               *)
Unheard(t) ==
    /\ Active[t] # NoRow /\ VipClass(t, Active[t])
    /\ <<t, Active[t].text>> \notin heard \cup silenced

ChangeReachesOperator == \A t \in Tfrs : []<>~Unheard(t)
=============================================================================
