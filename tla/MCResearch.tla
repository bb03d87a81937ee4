----------------------------- MODULE MCResearch -----------------------------
(***************************************************************************)
(* The research side of the program in one instance.  A behaviour has one  *)
(* topic: the views of the heatmap, the watchlists and their members, the  *)
(* scans over the bars of a symbol, the folder of Thinkorswim fixtures, or *)
(* one question put to a pure algorithm (MCQuestions).  The topics share   *)
(* no state.                                                               *)
(***************************************************************************)
EXTENDS Heatmap, Watchlists, BarScans, ThinkorswimParity, TLC

VARIABLES topic, question

researchVars == <<topic, question, viewVars, listVars, scanVars, folderVars>>

-----------------------------------------------------------------------------
(* Heatmap: one seeded view of one row, two requests at a time, and rows   *)
(* that are complete, half known, or unknown.                              *)

MCSeeds == {"morning-macro"}
MCSymbols == {"spy"}
MCSeedRows == [s \in MCSeeds |-> <<"spy">>]

Cell(v)  == [status |-> IF NumberIn(v) THEN "ok" ELSE "unavailable", value |-> v]
Strong   == [tf \in Timeframes |-> Cell(80)]
Half     == [tf \in Timeframes |-> Cell(IF tf \in Slow THEN 40 ELSE Missing)]
Unknown  == [tf \in Timeframes |-> [status |-> "unsupported", value |-> Missing]]
MCOutcomes == {[s \in {"spy"} |-> Half],
               [s \in {"spy", "vix"} |-> IF s = "spy" THEN Strong ELSE Unknown]}

\* Bound: a second change is made only where no refresh was begun.
OnHeatmap ==
  /\ topic = "heatmap" /\ ViewNext
  /\ edits' = MaxEdits => snaps' = <<>> /\ \A t \in Threads : held'[t].kind # "refresh"
  /\ UNCHANGED <<topic, question, listVars, scanVars, folderVars>>

-----------------------------------------------------------------------------
(* Watchlists: two requests that overlap, creating lists of one symbol or  *)
(* changing the default, and a duplicate with its starter list; or one     *)
(* request at a time that leaves the default alone, brings two symbols and *)
(* the second name, while one list has members and one symbol is in use,   *)
(* and a duplicate that has both.                                          *)

MCAlphabet == <<"A", "B">>
MCLists == {<<"A">>, <<"B", "A">>}
MCDuplicates ==
  {[lists |-> [id \in {2} |-> StarterList], members |-> Nil, universe |-> Nil],
   [lists |-> [id \in {1} |-> [name |-> "T", symbols |-> <<"B", "A">>, isDefault |-> FALSE]],
    members |-> [id \in {1} |-> [s \in {"B"} |-> TRUE]], universe |-> [s \in {"B"} |-> FALSE]]}

OnLists ==
  /\ topic = "lists" /\ ListRequest
  /\ \A r \in Requests :
       /\ request'[r].doing = "update" => request'[r].name = {} /\ request'[r].symbols = {}
       /\ request'[r].doing = "upsert" => request'[r].symbols \subseteq {<<"A">>}
  /\ UNCHANGED <<members, universe>>
  /\ UNCHANGED <<topic, question, viewVars, scanVars, folderVars>>

OnMembers ==
  /\ topic = "members" /\ (ListRequest \/ SymbolRequest)
  /\ DOMAIN members' \subseteq {1} /\ DOMAIN universe' \subseteq {"B"}
  /\ Cardinality({r \in Requests : request'[r] # Resting}) <= 1
  /\ \A r \in Requests : request'[r].doing \in {"upsert", "update"} =>
       /\ request'[r].isDefault = {} /\ ~ request'[r].takes
       /\ request'[r].name \subseteq {"T"} /\ request'[r].symbols \subseteq {<<"B", "A">>}
  /\ UNCHANGED <<topic, question, viewVars, scanVars, folderVars>>

-----------------------------------------------------------------------------
(* The scans and the folder.                                               *)

OnHaco ==
  topic = "haco" /\ HacoBar /\ UNCHANGED <<topic, question, viewVars, listVars, folderVars>>
OnStops ==
  topic = "stops" /\ StopBar /\ UNCHANGED <<topic, question, viewVars, listVars, folderVars>>
OnTrend ==
  topic = "trend" /\ TrendBar /\ UNCHANGED <<topic, question, viewVars, listVars, folderVars>>

OnFolder ==
  topic = "folder" /\ FolderNext /\ UNCHANGED <<topic, question, viewVars, listVars, scanVars>>

Blank == [f \in Fields \cup Labels |-> Absent]
Entry == [name |-> "a", wellFormed |-> TRUE, mode |-> "unsaid", hasTos |-> FALSE, hasMm |-> FALSE,
  hasObserved |-> FALSE, hasExpected |-> FALSE, latest |-> Blank, tos |-> Blank, mm |-> Blank,
  tosClose |-> Absent, mmClose |-> Absent, bars |-> "bars", study |-> "none", higher |-> "none",
  tolerance |-> [f \in Fields |-> Absent], closeTolerance |-> Absent, labelMustMatch |-> FALSE,
  strict |-> FALSE]
Reading(f, v) == [Blank EXCEPT ![f] = v]
Computing ==
  {[Entry EXCEPT !.hasObserved = (s = "none"), !.hasExpected = (s # "none"), !.latest = l,
                 !.study = s, !.labelMustMatch = TRUE] :
     l \in {Reading("total", 1000), Reading("osc", 512), Reading("scalar", 3), Reading("label", 2)},
     s \in {"none", "study"}}
Attest(t, q, close) ==
  [Entry EXCEPT !.hasTos = TRUE, !.hasMm = TRUE, !.tos = t, !.mm = q, !.bars = "none",
                !.tosClose = close, !.mmClose = 500, !.strict = TRUE]
Total(x) == Reading("total", x)
Osc(x, y) == [Total(y) EXCEPT !["osc"] = x]
Attesting == {Attest(Total(1000), Osc(510, 1019), 501), Attest(Osc(520, 990), Osc(530, 1000), 501),
              Attest(Osc(530, 1000), Osc(510, 1000), 501), Attest(Total(1000), Total(1000), 502),
              Attest(Total(1000), Reading("osc", 510), 501)}
Odd == {[Entry EXCEPT !.hasExpected = TRUE, !.latest = Total(1000), !.tosClose = 7],
        [Attest(Total(1000), Total(1000), 501) EXCEPT !.mode = "visual_observation", !.bars = "bars"]}
Plain == CHOOSE e \in Computing : e.latest = Total(1000) /\ e.study = "none"
MCManifests ==
  {<<>>, <<Plain, Plain>>} \cup {<<e>> : e \in Computing \cup Attesting \cup Odd}
    \cup {<<Plain, [e EXCEPT !.name = "b"]>> : e \in Attesting}
MCComputed == [total |-> 1000, osc |-> 520, component |-> 50, scalar |-> Absent]
MCExported == [total |-> 1010, osc |-> 530, component |-> Absent, scalar |-> Absent]
-----------------------------------------------------------------------------
Symmetry == Permutations(Threads) \cup Permutations(Requests)

\* At most one watchlist is the default but for those that an overlapping seeding
\* or a merge put beside it, and a run scans what the preview of its source shows
\* (Watchlists).  Neither asks what a request has read, so that it is enough to
\* look while none is in flight.
ListsAreSound ==
  (\A r \in Requests : request[r] = Resting) =>
    /\ topic \in {"lists", "members"} => AtMostOneDefault
    /\ topic = "members" => PreviewIsWhatRuns

=============================================================================
