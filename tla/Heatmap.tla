------------------------------ MODULE Heatmap ------------------------------
(***************************************************************************)
(* The momentum heatmap of one account: its views, the snapshots that a    *)
(* refresh stores, the reports that compare two of them, and the schedule  *)
(* preferences of a view.                                                  *)
(*                                                                         *)
(* Nearly every call first sees to it that the account has the seeded      *)
(* views, and then does its own work; both read first and commit later, so *)
(* that calls served at the same time may rest on the same rows.  A view   *)
(* is named by its uid, but snapshots and preferences keep the id of its   *)
(* row, which SQLite gives again once the row with the greatest id is      *)
(* deleted.                                                                *)
(*                                                                         *)
(* Left out: names, colours and descriptions, the other accounts (every    *)
(* query filters by the account), and MFA.                                 *)
(***************************************************************************)
EXTENDS HeatmapScores, Functions

CONSTANTS
  Threads,    \* requests that are served at the same time
  Seeds,      \* the slugs of the seeded views
  Main,       \* the seed that is the default: morning-macro
  Symbols,    \* provider symbols of rows
  SeedRows,   \* Seeds -> the rows of a seeded view, a sequence of symbols
  Outcomes,   \* what a refresh may give: the cells of each row asked for
  MaxView,    \* bound on the ids of views
  MaxUid,     \* bound on the uids given out
  MaxSnaps,   \* bound on the snapshots
  MaxRows,    \* bound on the rows of a view
  MaxEdits    \* bound on the changes made to views and preferences

\* The slug of a view that a user made, and of settings stored without one.
Custom == "custom"
NoSlug == ""
NoSnap == 0

ASSUME HeatmapAssumption ==
  /\ IsFiniteSet(Seeds) /\ Main \in Seeds
  /\ Custom \notin Seeds /\ NoSlug \notin Seeds
  /\ SeedRows \in [Seeds -> Seq(Symbols)]
  /\ MaxView \in Nat /\ MaxUid \in Nat /\ MaxSnaps \in Nat /\ MaxRows \in Nat
  /\ MaxEdits \in Nat

VARIABLES
  views,   \* id -> the view's row, for the ids that exist
  uids,    \* how many uids were given out
  snaps,   \* the snapshots, in the order of their ids
  prefs,   \* id of a view -> its schedule preferences are enabled
  edits,   \* how many changes were made, up to MaxEdits
  pc,      \* Threads -> what the request does next
  held     \* Threads -> what the request has read

viewVars == <<views, uids, snaps, prefs, edits, pc, held>>

Nothing == [kind |-> "nothing"]
Ids     == DOMAIN views
Slugs   == Seeds \cup {Custom, NoSlug}

NextId == Max(Ids \cup {0}) + 1

Defaults == {i \in Ids : views[i].default}

\* Rows to add for the seeds that have no view; the main one becomes the
\* default unless there is one.
SeedView(slug, uid, hasDefault) ==
  [uid |-> uid, slug |-> slug, seeded |-> TRUE,
   default |-> ~hasDefault /\ slug = Main, rows |-> SeedRows[slug]]

\* A default is chosen when there is still none.
WithDefault(vs) ==
  IF vs = <<>> \/ \E i \in DOMAIN vs : vs[i].default THEN vs
  ELSE LET mains  == {i \in DOMAIN vs : vs[i].slug = Main}
           chosen == Min(IF mains # {} THEN mains ELSE DOMAIN vs)
       IN [vs EXCEPT ![chosen].default = TRUE]

MissingSeeds == Seeds \ {views[i].slug : i \in Ids}

\* Faulty variant: any snapshot is a baseline.
Successful_Any(s) == TRUE

\* The snapshots that stand for a view, and the latest of them.
Successful(s) == s.status \in {"fresh", "partial"}

LatestSnapshot(view, successfulOnly, before) ==
  Max({NoSnap} \cup {n \in DOMAIN snaps :
         /\ snaps[n].view = view
         /\ n < before
         /\ successfulOnly => Successful(snaps[n])})

RowsOf(n) == IF n = NoSnap THEN <<>> ELSE snaps[n].rows

ViewInit ==
  /\ views = <<>>
  /\ uids = 0
  /\ snaps = <<>>
  /\ prefs = <<>>
  /\ edits = 0
  /\ pc = [t \in Threads |-> "idle"]
  /\ held = [t \in Threads |-> Nothing]

Done(t) ==
  /\ pc' = [pc EXCEPT ![t] = "idle"]
  /\ held' = [held EXCEPT ![t] = Nothing]

\* A change is made to a view or to its preferences.
EditViews ==
  /\ edits < MaxEdits
  /\ edits' = edits + 1

-----------------------------------------------------------------------------
(* The seeded views.                                                       *)

\* A request begins: which seeds have no view yet?
Seeded == MissingSeeds = {} /\ Defaults # {}

EnsureRead(t) ==
  /\ pc[t] = "idle"
  /\ ~Seeded
  /\ pc' = [pc EXCEPT ![t] = "seeding"]
  /\ held' = [held EXCEPT ![t] =
                [kind |-> "seeds", missing |-> MissingSeeds, hasDefault |-> Defaults # {}]]
  /\ UNCHANGED <<views, uids, snaps, prefs, edits>>

\* Nothing was missing when the request asked, or it has been added.
Begun(t) == pc[t] = "ready" \/ (pc[t] = "idle" /\ Seeded)

\* ... and they are added, in the order of the list, Main first.
EnsureCommit(t) ==
  /\ pc[t] = "seeding"
  /\ LET rest  == SetToSeq(held[t].missing \ {Main})
         order == IF Main \in held[t].missing THEN <<Main>> \o rest ELSE rest
         all   == [k \in Ids \cup NextId..(NextId + Len(order) - 1) |->
                     IF k \in Ids THEN views[k]
                     ELSE SeedView(order[k - NextId + 1], uids + k - NextId + 1, held[t].hasDefault)]
     IN /\ Max({0} \cup DOMAIN all) <= MaxView
        /\ uids + Len(order) <= MaxUid
        /\ views' = IF held[t].hasDefault THEN all ELSE WithDefault(all)
        /\ uids' = uids + Len(order)
  /\ pc' = [pc EXCEPT ![t] = "ready"]
  /\ held' = [held EXCEPT ![t] = Nothing]
  /\ UNCHANGED <<snaps, prefs, edits>>

\* The request only looked, or is refused.
Respond(t) ==
  /\ pc[t] = "ready"
  /\ Done(t)
  /\ UNCHANGED <<views, uids, snaps, prefs, edits>>

-----------------------------------------------------------------------------
(* Views.                                                                  *)

AddView(t, v) ==
  /\ NextId <= MaxView /\ uids < MaxUid
  /\ views' = [k \in Ids \cup {NextId} |->
                 IF k \in Ids THEN views[k] ELSE [v EXCEPT !.uid = uids + 1]]
  /\ uids' = uids + 1
  /\ Done(t)
  /\ EditViews
  /\ UNCHANGED <<snaps, prefs>>

\* A new view has the rows that the request gives, or those of the main seed.
CreateProfile(t, rows) ==
  /\ Begun(t)
  /\ AddView(t, [uid |-> 0, slug |-> Custom, seeded |-> FALSE, default |-> FALSE,
                 rows |-> rows])

DuplicateProfile(t, i) ==
  /\ Begun(t)
  /\ i \in Ids
  /\ AddView(t, [views[i] EXCEPT !.slug = Custom, !.seeded = FALSE, !.default = FALSE])

\* Faulty variant: only the mark of a seeded view protects it.
Protected_SeededOnly(v) == v.seeded

\* The default view and the seeded views are protected.
Protected(v) == v.default \/ v.seeded

\* Only the row of the view goes; its snapshots and preferences stay.
DeleteProfile(t, i) ==
  /\ Begun(t)
  /\ i \in Ids
  /\ ~Protected(views[i])
  /\ views' = Restrict(views, Ids \ {i})
  /\ Done(t)
  /\ EditViews
  /\ UNCHANGED <<uids, snaps, prefs>>

\* An update names the view, or means the default one -- which fails while
\* there are two.  New settings take the place of the old ones, with whatever
\* slug and seed mark they bring.
UpdateProfile(t, i, slug, seeded) ==
  /\ pc[t] = "idle"
  /\ i \in Ids
  /\ views' = [views EXCEPT ![i].slug = slug, ![i].seeded = seeded]
  /\ EditViews
  /\ UNCHANGED <<uids, snaps, prefs, pc, held>>

\* A view goes back to the seed of its slug; one without a seed becomes a
\* copy of the main seed.
ResetProfile(t, i) ==
  /\ Begun(t)
  /\ i \in Ids
  /\ LET seed == IF views[i].slug \in Seeds THEN views[i].slug ELSE Main
     IN views' = [views EXCEPT ![i].slug = seed, ![i].seeded = TRUE,
                               ![i].rows = SeedRows[seed]]
  /\ Done(t)
  /\ EditViews
  /\ UNCHANGED <<uids, snaps, prefs>>

-----------------------------------------------------------------------------
(* Rows.  The rows of a view are one column: a request reads all of them   *)
(* and writes all of them.                                                 *)

RowsRead(t, i) ==
  /\ Begun(t)
  /\ i \in Ids
  /\ pc' = [pc EXCEPT ![t] = "editing"]
  /\ held' = [held EXCEPT ![t] =
                [kind |-> "rows", view |-> i, uid |-> views[i].uid, rows |-> views[i].rows]]
  /\ UNCHANGED <<views, uids, snaps, prefs, edits>>

\* The row of the view may be gone by now, or another view's.
RowsCommit(t, rows) ==
  /\ held[t].view \in Ids /\ views[held[t].view].uid = held[t].uid
  /\ views' = [views EXCEPT ![held[t].view].rows = rows]
  /\ Done(t)
  /\ EditViews
  /\ UNCHANGED <<uids, snaps, prefs>>

AddRow(t, s) ==
  /\ pc[t] = "editing"
  /\ s \notin ToSet(held[t].rows)
  /\ Len(held[t].rows) < MaxRows
  /\ RowsCommit(t, Append(held[t].rows, s))

RemoveRow(t, s) ==
  /\ pc[t] = "editing"
  /\ s \in ToSet(held[t].rows)
  /\ RowsCommit(t, SelectSeq(held[t].rows, LAMBDA r : r # s))

\* A duplicate, an unknown row, or a view that was deleted meanwhile.
EditRefused(t) ==
  /\ pc[t] = "editing"
  /\ Done(t)
  /\ UNCHANGED <<views, uids, snaps, prefs, edits>>

-----------------------------------------------------------------------------
(* Snapshots and reports.                                                  *)

\* A refresh reads the baseline before it asks for prices, which takes long.
\* The rows are those of the request; they need not be the view's.
RefreshRead(t, i) ==
  /\ Begun(t)
  /\ i \in Ids
  /\ pc' = [pc EXCEPT ![t] = "refreshing"]
  /\ held' = [held EXCEPT ![t] =
                [kind |-> "refresh", view |-> i, base |-> LatestSnapshot(i, TRUE, MaxSnaps + 1)]]
  /\ UNCHANGED <<views, uids, snaps, prefs, edits>>

RefreshCommit(t, rows) ==
  /\ pc[t] = "refreshing"
  /\ Len(snaps) < MaxSnaps
  /\ LET change == StrengthChanges(rows, RowsOf(held[t].base))
     IN snaps' = Append(snaps,
          [view |-> held[t].view, status |-> SnapshotStatus(rows), rows |-> rows,
           base |-> held[t].base, summary |-> CategorySummary(rows, change)])
  /\ Done(t)
  /\ UNCHANGED <<views, uids, prefs, edits>>

\* A report is about the snapshot that the request names, if it is this
\* view's, or about the latest successful one; it is compared with the
\* latest successful one before that.
SnapshotsForReport(i) ==
  {n \in DOMAIN snaps : snaps[n].view = i}
  \cup ({LatestSnapshot(i, TRUE, MaxSnaps + 1)} \ {NoSnap})

BaselineOf(i, n) == LatestSnapshot(i, TRUE, n)

\* The preferences of a view are made when they are first asked for.  The
\* table admits one row for a view.
GetSchedule(t, i) ==
  /\ Begun(t)
  /\ i \in Ids
  /\ i \notin DOMAIN prefs
  /\ prefs' = [k \in DOMAIN prefs \cup {i} |-> IF k = i THEN FALSE ELSE prefs[k]]
  /\ Done(t)
  /\ EditViews
  /\ UNCHANGED <<views, uids, snaps>>

UpdateSchedule(t, i, enabled) ==
  /\ Begun(t)
  /\ i \in Ids
  /\ prefs' = [k \in DOMAIN prefs \cup {i} |-> IF k = i THEN enabled ELSE prefs[k]]
  /\ Done(t)
  /\ EditViews
  /\ UNCHANGED <<views, uids, snaps>>

-----------------------------------------------------------------------------

ViewNext ==
  \E t \in Threads :
    \/ EnsureRead(t) \/ EnsureCommit(t) \/ Respond(t)
    \/ CreateProfile(t, SeedRows[Main]) \/ CreateProfile(t, <<>>)
    \/ \E i \in Ids :
         \/ DuplicateProfile(t, i) \/ DeleteProfile(t, i) \/ ResetProfile(t, i)
         \/ RowsRead(t, i)
         \/ \E slug \in Slugs, seeded \in BOOLEAN : UpdateProfile(t, i, slug, seeded)
         \/ GetSchedule(t, i)
         \/ \E b \in BOOLEAN : UpdateSchedule(t, i, b)
         \/ RefreshRead(t, i)
    \/ \E s \in Symbols : AddRow(t, s) \/ RemoveRow(t, s)
    \/ EditRefused(t)
    \/ \E rows \in Outcomes : RefreshCommit(t, rows)

ViewSpec == ViewInit /\ [][ViewNext]_viewVars

-----------------------------------------------------------------------------
(* Properties.                                                             *)

\* Once an account has views, it has a default one, whatever is created,
\* edited, reset and deleted: a request that names no view always finds one.
ADefaultRemains == Ids # {} => Defaults # {}

\* What a snapshot or a report is compared with is an earlier snapshot of the
\* same view, and one that has at least one row with all its scores.
Comparable(n, base) ==
  base # NoSnap =>
    /\ base < n
    /\ snaps[base].view = snaps[n].view
    /\ \E r \in DOMAIN snaps[base].rows : Availability(snaps[base].rows[r]) = "fresh"

BaselineHasValues ==
  /\ \A n \in DOMAIN snaps : Comparable(n, snaps[n].base)
  /\ \A i \in Ids : \A n \in SnapshotsForReport(i) : Comparable(n, BaselineOf(i, n))

\* Both: the account's views, and what is compared of them.
HeatmapIsSound == ADefaultRemains /\ BaselineHasValues
=============================================================================
