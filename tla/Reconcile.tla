------------------------------ MODULE Reconcile -------------------------------
(* refresh_collection: the likes of LikeSync, pulled from SoundCloud.  A       *)
(* refresh reads the user's listing page by page, inserts what it shows into  *)
(* the mirror, and, when it trusts the listing, deletes the rows that are not *)
(* in it: likes taken back on the website.  Meanwhile the user, the flush and *)
(* the website go on, and the listing lags behind SoundCloud.                 *)
EXTENDS LikeSync, FiniteSets, Integers

CONSTANTS
  Refreshers,  \* refreshes that may run at a time: the lock outlives a refresh
               \* that is short, and not one that is long
  Steady,      \* likes of the user that nobody touches
  PageLimit,   \* REFRESH_PAGE_LIMIT
  NoRefresh

RefreshFaults ==
  {"web",    \* the user likes and unlikes on SoundCloud's website
   "lag",    \* the listing shows a change some time after SoundCloud has it
   "race",   \* SoundCloud's likes change while a refresh runs
   "cut"}    \* the listing is cut short, or a refresh stops at an error

ASSUME RefreshAssumption ==
  /\ IsFiniteSet(Targets) /\ Steady \in Nat /\ PageLimit \in Nat \ {0}
  /\ Scenes \subseteq SUBSET (FaultNames \cup RefreshFaults)

\* old are the rows whose synced_at and created_at lie before the cut-off
\* (reconcile_started_at minus ORPHAN_GRACE_SEC); for a visitor's refresh, which
\* deletes nothing, there are none.
Refresh ==
  [step  : {"fetch", "upsert", "guard", "delete"},
   old   : SUBSET Targets,
   ahead : SUBSET Targets,   \* what the pages still to come may show
   seen  : SUBSET Targets,   \* what the pages have shown
   got   : 0..Steady,        \* ... and how many of the steady likes
   sure  : BOOLEAN]          \* complete, and not empty

VARIABLES
  listed,   \* what SoundCloud's listing shows
  refresh   \* the refreshes that run

refreshVars   == <<listed, refresh>>
reconcileVars == <<allVars, refreshVars>>

Refreshing == {r \in Refreshers : refresh[r] # NoRefresh}
At(r, s)   == r \in Refreshing /\ refresh[r].step = s

ReconcileTypeOK ==
  /\ LikeTypeOK
  /\ listed \in [Targets -> BOOLEAN]
  /\ refresh \in [Refreshers -> Refresh \cup {NoRefresh}]

ReconcileInit ==
  /\ LikeInit
  /\ listed = sc
  /\ refresh = [r \in Refreshers |-> NoRefresh]

-----------------------------------------------------------------------------
(* What the likes do, as the refresh sees it.                                 *)

\* A row written with synced_at or created_at = now() is not older than any
\* cut-off taken before.
Touch(S) ==
  /\ refresh' = [r \in Refreshers |->
                   IF r \in Refreshing THEN [refresh[r] EXCEPT !.old = @ \ S] ELSE NoRefresh]
  /\ UNCHANGED listed

\* (mutant) ON CONFLICT without created_at = now().
TouchesNew(t) == Touch(IF mirror[t] = Absent THEN {t} ELSE {})

\* set_wanted: created_at = now() for a new row and for an old one.
TouchesLiked(t) == Touch({t})

\* clear_progress: synced_at = now(), unless the user has changed their mind.
TouchesConfirmed(j) == Touch(IF IsLike(j) /\ Wanted(j.key[2]) THEN {j.key[2]} ELSE {})

\* No page has been read yet: the pages that others follow are full.
First(r) == refresh[r].got = 0 /\ refresh[r].seen = {}

\* The newest like comes first, so pages that are still to come do not show it.
Shows(r, S) ==
  IF At(r, "fetch") /\ ~First(r) THEN [refresh[r] EXCEPT !.ahead = @ \ S]
  ELSE refresh[r]

ListingFollows(S) ==
  /\ listed' = [t \in Targets |-> IF t \in S THEN sc'[t] ELSE listed[t]]
  /\ refresh' = [r \in Refreshers |-> Shows(r, {t \in S : sc'[t] /\ ~listed[t]})]

\* SoundCloud's likes have changed.
Listing ==
  /\ Refreshing = {} \/ "race" \in faults \/ sc' = sc
  /\ \/ ListingFollows(Targets)
     \/ "lag" \in faults /\ UNCHANGED refreshVars

ListingCatchesUp(t) ==
  /\ listed[t] # sc[t]
  /\ UNCHANGED allVars
  /\ ListingFollows({t})

WebChanges(t) ==
  /\ "web" \in faults
  /\ sc' = [sc EXCEPT ![t] = ~@]
  /\ Listing
  /\ UNCHANGED <<vars, mirror, requests, acked, faults>>

UserActs(c, t) ==
  \/ RequestLike(c, t) /\ TouchesLiked(t)
  \/ RequestUnlike(c, t) /\ UNCHANGED refreshVars

Likes ==
  \/ \E j \in jobs : \/ ScAnswers(j) /\ Listing
                     \/ Confirm(j) /\ TouchesConfirmed(j)
                     \/ (ScRefuses(j) \/ AnswerLost(j) \/ Finish(j)) /\ UNCHANGED refreshVars
  \/ /\ \/ \E c \in Callers : WriteUnlike(c) \/ InEnqueue(c) \/ DropRequest(c)
        \/ \E w \in Workers : FlushSteps(w)
        \/ \E t \in Targets : HealMirror(t)
        \/ Upkeep
     /\ UNCHANGED refreshVars

-----------------------------------------------------------------------------
(* refresh_collection.                                                        *)

\* A like on its way to SoundCloud, that has not been given up.
Carried(t) ==
  \/ \E c \in Callers : calls[c] # NoCall /\ calls[c].key = <<Like, t>>
  \/ queue[<<Like, t>>] # NoRow /\ ~queue[<<Like, t>>].dead
  \/ \E j \in jobs : j.key = <<Like, t>>

\* A row gets old in ORPHAN_GRACE_SEC: by then the listing has caught up with it
\* and the outbox, which has had no failures, has delivered it.
MayBeOld(t) ==
  /\ mirror[t] # Absent
  /\ listed[t] = sc[t]
  /\ "fail" \in faults \/ ~Carried(t)

OldRows == {t \in Targets : MayBeOld(t)}

\* try_lock and reconcile_started_at.
StartRefresh(r, old) ==
  /\ refresh[r] = NoRefresh
  /\ old \subseteq OldRows
  /\ refresh' = [refresh EXCEPT ![r] =
       [step |-> "fetch", old |-> old, ahead |-> Targets, seen |-> {}, got |-> 0,
        sure |-> FALSE]]
  /\ UNCHANGED <<allVars, listed>>

Found(P) == {t \in P : listed[t]}

\* More is to come after a page with n of the steady likes and those of P.
More(r, n, P) == refresh[r].got + n < Steady \/ Found(refresh[r].ahead \ P) # {}

\* What SoundCloud answers: full pages with a next_href, then the rest without.
\* Cut short, it forgets the next_href, repeats it, shows an empty page, or loses
\* more than half of the likes at once.
Served(r, n, P, next) ==
  LET size == n + Cardinality(Found(P))
  IN /\ size <= PageLimit
     /\ \/ More(r, n, P) /\ size = PageLimit /\ next = "new"
        \/ ~More(r, n, P) /\ next = "none"
        \/ /\ "cut" \in faults
           /\ \/ size = PageLimit /\ next \in (IF First(r) THEN {"none"} ELSE {"none", "same"})
              \/ size = 0 /\ next = "none"
              \/ First(r) /\ 2 * size < Steady /\ next = "none"

\* fetch_all_pages: an empty page ends a listing if it is the first, a page
\* without next_href if it is not full.
Complete(size, first, next) ==
  IF size = 0 THEN first ELSE next = "none" /\ size # PageLimit

\* The page is the last one that is read.
Ends(size, next) == size = 0 \/ next \in {"none", "same"}

\* The refresh after the page.
AfterPage(r, n, P, next) ==
  LET size == n + Cardinality(Found(P))
      read == refresh[r].got + Cardinality(refresh[r].seen) + size
  IN [refresh[r] EXCEPT
        !.got   = @ + n,
        !.seen  = @ \cup Found(P),
        !.ahead = IF Ends(size, next) THEN {} ELSE @ \ P,
        !.step  = IF Ends(size, next) THEN "upsert" ELSE "fetch",
        !.sure  = Ends(size, next) /\ read > 0 /\ Complete(size, First(r), next)]

FetchPage(r) ==
  /\ At(r, "fetch")
  /\ \E n \in 0..(Steady - refresh[r].got), P \in SUBSET refresh[r].ahead,
        next \in {"new", "same", "none"} :
       /\ Served(r, n, P, next)
       /\ refresh' = [refresh EXCEPT ![r] = AfterPage(r, n, P, next)]
  /\ UNCHANGED <<allVars, listed>>

\* (mutant) What the listing shows is wanted.
UpsertWants(m) == Synced

\* (mutant) progress = false, whatever wanted_state.
UpsertClears(m) == IF m = Absent THEN Synced ELSE [m EXCEPT !.progress = FALSE]

\* batch_upsert_mirror: a pending unlike stays one.
Upserted(m) == IF m = Absent \/ m.wanted THEN Synced ELSE m

UpsertMirror(r) ==
  /\ At(r, "upsert")
  /\ LET seen == refresh[r].seen
     IN /\ mirror' = [t \in Targets |-> IF t \in seen THEN Upserted(mirror[t]) ELSE mirror[t]]
        /\ refresh' = [q \in Refreshers |->
             IF q \notin Refreshing THEN NoRefresh
             ELSE IF q # r THEN [refresh[q] EXCEPT !.old = @ \ seen]
             ELSE IF ~refresh[r].sure THEN NoRefresh
             ELSE [refresh[r] EXCEPT !.old = @ \ seen, !.step = "guard"]]
  /\ UNCHANGED <<vars, sc, requests, acked, faults, listed>>

Confirmedly == Steady + Cardinality({t \in Targets : Wanted(t) /\ ~Pending(t)})

\* The snapshot has less than half of the confirmed rows.
TooSmall(r) == (refresh[r].got + Cardinality(refresh[r].seen)) * 2 < Confirmedly

GuardOrphans(r) ==
  /\ At(r, "guard")
  /\ refresh' = [refresh EXCEPT ![r] =
                   IF TooSmall(r) THEN NoRefresh ELSE [@ EXCEPT !.step = "delete"]]
  /\ UNCHANGED <<allVars, listed>>

Orphan(r, t) ==
  /\ t \in refresh[r].old
  /\ t \notin refresh[r].seen
  /\ Wanted(t) /\ ~Pending(t)

DeleteOrphans(r) ==
  /\ At(r, "delete")
  /\ mirror' = [t \in Targets |-> IF Orphan(r, t) THEN Absent ELSE mirror[t]]
  /\ refresh' = [refresh EXCEPT ![r] = NoRefresh]
  /\ UNCHANGED <<vars, sc, requests, acked, faults, listed>>

\* A request to SoundCloud or a statement fails, or the process stops.
RefreshFails(r) ==
  /\ "cut" \in faults
  /\ r \in Refreshing
  /\ refresh' = [refresh EXCEPT ![r] = NoRefresh]
  /\ UNCHANGED <<allVars, listed>>

RefreshSteps(r) ==
  \/ FetchPage(r) \/ UpsertMirror(r) \/ GuardOrphans(r) \/ DeleteOrphans(r)

ReconcileNext ==
  \/ \E c \in Callers, t \in Targets : UserActs(c, t)
  \/ Likes
  \/ \E t \in Targets : WebChanges(t) \/ ListingCatchesUp(t)
  \/ \E r \in Refreshers :
       \/ \E old \in SUBSET Targets : StartRefresh(r, old)
       \/ RefreshSteps(r) \/ RefreshFails(r)

ReconcileSpec == ReconcileInit /\ [][ReconcileNext]_reconcileVars

\* Requests are carried out, the listing catches up, and the user comes back to
\* their likes: a refresh starts again and again when all rows are old, and reads on.
FairReconcileSpec ==
  /\ ReconcileSpec
  /\ \A t \in Targets : FairOn(t) /\ WF_reconcileVars(ListingCatchesUp(t))
  /\ \A w \in Workers :
       SF_allVars(\E K \in SUBSET jobs : Dedup(w, K) /\ UNCHANGED likeVars)
  /\ \A c \in Callers : WF_allVars(WriteUnlike(c) \/ InEnqueue(c))
  /\ \A r \in Refreshers :
       /\ SF_reconcileVars(StartRefresh(r, OldRows))
       /\ WF_reconcileVars(RefreshSteps(r))

-----------------------------------------------------------------------------
(* Properties.                                                                *)

Disturbing == {"answer", "lost", "drop", "overlap", "web", "lag", "race"}

\* Pulling the likes from SoundCloud loses no wish of the user either: a pending
\* unlike is not raised from the dead by a listing that still shows the like
\* (batch_upsert_mirror), however the listing was cut.
PullLosesNothing == faults \cap Disturbing = {} => NoPermanentLoss

\* delete_orphans takes only a like that SoundCloud does not have and that no
\* action is bringing there ("the like is gone", refresh_collection): the listing
\* may lag, be cut, and be read while likes come and go.
OrphanStep ==
  \A r \in Refreshers, t \in Targets :
    /\ DeleteOrphans(r) /\ Orphan(r, t)
    /\ "fail" \notin faults /\ ~({"web", "race"} \subseteq faults)
    => ~sc[t] /\ ~Carried(t)

OrphansOnly == [][OrphanStep]_reconcileVars

Quiet == [][~\E t \in Targets : WebChanges(t) \/ \E c \in Callers : UserActs(c, t)]_reconcileVars

\* A listing of all likes lets a refresh delete: it is not empty, does not end with
\* a full page, and has at least half of what the mirror has.
Conclusive ==
  LET likes == Steady + Cardinality({t \in Targets : sc[t]})
  IN likes > 0 /\ likes % PageLimit # 0 /\ 2 * likes >= Confirmedly

\* Whatever was lost on the way, by overlapping requests, forgotten answers or
\* stale pages: once the user and the website leave the likes alone, and the
\* listing is served whole, the mirror comes to have every like that SoundCloud
\* has, and, if the listing lets a refresh delete, no other.
MirrorConverges ==
  "cut" \notin faults /\ <>Quiet =>
    <>[](\A t \in Targets : /\ sc[t] => Wanted(t)
                            /\ Conclusive /\ Wanted(t) => sc[t])

=============================================================================
