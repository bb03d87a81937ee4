----------------------------- MODULE Watchlists -----------------------------
(***************************************************************************)
(* The watchlists of one account, its symbol universe, and how the symbols *)
(* of a preview and of an agent run are resolved from them                 *)
(* (WatchlistRepository, SymbolUniverseRepository, SymbolUniverseResolver  *)
(* in storage/repositories.py, the routes of api/routes/admin.py,          *)
(* resolve_universe of agent_mode/service.py).                             *)
(*                                                                         *)
(* A request that changes a list reads the row and writes it later;        *)
(* another request may write between the two.  The session writes only     *)
(* columns whose new value differs from the one it read.  The lists are    *)
(* counted and the starter list is inserted in two steps as well.  When    *)
(* two rows of a person are merged, the lists of one go to the other as    *)
(* they are.  SQLite gives a row one more than the largest id in use, so   *)
(* the id of the newest list is given out again after the list was         *)
(* deleted, and its memberships are still there.  No route calls the       *)
(* membership and universe operations yet: they are the repository's own   *)
(* interface.                                                              *)
(***************************************************************************)
EXTENDS Integers, Sequences, FiniteSets, SequencesExt, FiniteSetsExt

CONSTANTS Requests,     \* requests in flight
          ListNames,    \* names a list may have
          Starter,      \* the name of the list every account begins with
          Alphabet,     \* the symbols, in alphabetical order
          SymbolLists,  \* what a request may bring as symbols
          Duplicates,   \* what a merge may hand over: [lists, members, universe]
          MaxLists      \* bound: the largest id of a list

ASSUME WatchlistsAssumption == Starter \in ListNames /\ MaxLists \in Nat \ {0}

\* A list of symbols that a request brings has at least one (normalize_symbol_list).
ASSUME SymbolsAssumption ==
  /\ Alphabet \in Seq(ToSet(Alphabet)) \ {<<>>}
  /\ \A symbols \in SymbolLists : symbols \in Seq(ToSet(Alphabet)) \ {<<>>}

\* The accounts that are merged into this one hold lists like its own.
ASSUME DuplicatesAssumption ==
  \A d \in Duplicates : \A id \in DOMAIN d.lists :
    /\ {"symbols", "isDefault"} \subseteq DOMAIN d.lists[id] /\ d.lists[id].isDefault \in BOOLEAN
    /\ d.lists[id].symbols \in Seq(ToSet(Alphabet)) \ {<<>>}

VARIABLES
  lists,    \* id -> [name, symbols, isDefault]
  members,  \* id -> symbol -> whether the membership is active
  universe, \* symbol -> whether the user's symbol is active
  request,  \* request -> what it found and is going to write
  beside    \* the lists that came as default ones beside another

listVars == <<lists, members, universe, request, beside>>

Resting == [doing |-> "nothing"]
ListIds == DOMAIN lists
DefaultIds == {id \in ListIds : lists[id].isDefault}

\* The first of equal symbols stays, in the order given.
Normalized(symbols) ==
  FoldLeft(LAMBDA out, s : IF s \in ToSet(out) THEN out ELSE Append(out, s), <<>>, symbols)

\* The members of a sequence that lie in a set, in the order given.
Within(s, S) == FoldLeft(LAMBDA out, x : IF x \in S THEN Append(out, x) ELSE out, <<>>, s)

\* SymbolUniverseResolver.resolve: pinned, manual, watchlist and universe symbols
\* in this order, each once, without the excluded ones.
Resolve(pinned, manual, listed, active, excluded) ==
  LET all == Normalized(pinned \o manual \o listed \o active)
  IN  Within(all, ToSet(all) \ excluded)

\* The active keys of a partial function, in alphabetical order.
Actives(f, all) == Within(Alphabet, {s \in DOMAIN f : all \/ f[s]})

\* list_watchlist_symbols; no membership at all, whether the list exists or not,
\* is answered with the symbols stored in the list itself.
OfList(id, all) ==
  LET listed == IF id \in DOMAIN members THEN Actives(members[id], all) ELSE <<>>
  IN IF listed # <<>> THEN listed ELSE IF id \in ListIds THEN lists[id].symbols ELSE <<>>

OfLists(ids, all) == FoldLeft(LAMBDA out, id : out \o OfList(id, all), <<>>, ids)

\* SymbolUniverseRepository.resolve_symbols.
ResolveSymbols(pinned, manual, ids, active, all, excluded) ==
  Resolve(pinned, manual, OfLists(ids, all),
          IF active THEN Actives(universe, all) ELSE <<>>, excluded)

\* preview_symbol_universe: the sources differ in what they leave out.
PreviewRefused(source, ids) ==
  \/ source \in {"watchlist", "watchlist_plus_manual"} /\ ids = <<>>
  \/ \E id \in ToSet(ids) : id \notin ListIds

Preview(source, pinned, manual, ids, mixAll, all, excluded) ==
  ResolveSymbols(pinned, IF source = "watchlist" THEN <<>> ELSE manual,
          IF source = "manual" THEN <<>> ELSE ids,
          source = "all_active" \/ (source = "mixed" /\ mixAll), all, excluded)

\* What resolve_universe says of the lists a profile names.
SourceStatus(source, ids) ==
  LET there == Within(ids, ListIds)
  IN IF source \notin {"watchlist", "watchlist_plus_manual"} THEN "ok"
     ELSE IF ids = <<>> \/ there = <<>> THEN "missing"
     ELSE IF \A i \in DOMAIN there : lists[there[i]].symbols = <<>> THEN "empty" ELSE "ok"

\* Faulty variant: a run that resolves nothing always takes the manual symbols.
RunUniverse_AlwaysManual(source, manual, ids, depth) ==
  LET found == ResolveSymbols(<<>>, IF source = "watchlist" THEN <<>> ELSE manual,
                       IF source = "manual" THEN <<>> ELSE ids, source = "all_active", FALSE, {})
  IN SubSeq(IF found = <<>> THEN manual ELSE found, 1,
            IF found = <<>> THEN Len(manual) ELSE IF Len(found) < depth THEN Len(found) ELSE depth)

\* Faulty variant: the universe of all active symbols leaves the manual ones out.
RunUniverse_ActiveOnly(source, manual, ids, depth) ==
  LET found == ResolveSymbols(<<>>, IF source \in {"watchlist", "all_active"} THEN <<>> ELSE manual,
                       IF source = "manual" THEN <<>> ELSE ids, source = "all_active", FALSE, {})
      symbols == IF found # <<>> THEN found
                 ELSE IF source \in {"watchlist", "watchlist_plus_manual"} THEN <<>> ELSE manual
  IN IF source = "watchlist" /\ SourceStatus(source, ids) # "ok" THEN <<>>
     ELSE SubSeq(symbols, 1, IF Len(symbols) < depth THEN Len(symbols) ELSE depth)

\* resolve_universe: the symbols an agent run scans.
RunUniverse(source, manual, ids, depth) ==
  LET found == ResolveSymbols(<<>>, IF source = "watchlist" THEN <<>> ELSE manual,
                       IF source = "manual" THEN <<>> ELSE ids, source = "all_active", FALSE, {})
      symbols == IF found # <<>> THEN found
                 ELSE IF source \in {"watchlist", "watchlist_plus_manual"} THEN <<>> ELSE manual
  IN IF source = "watchlist" /\ SourceStatus(source, ids) # "ok" THEN <<>>
     ELSE SubSeq(symbols, 1, IF Len(symbols) < depth THEN Len(symbols) ELSE depth)

-----------------------------------------------------------------------------
Nil == [x \in {} |-> TRUE]
StarterList == [name |-> Starter, symbols |-> Alphabet, isDefault |-> TRUE]

\* An account that was seeded when its person first signed in, or an invited one.
ListInit ==
  /\ lists \in {Nil, [id \in {1} |-> StarterList]}
  /\ members = Nil
  /\ universe = Nil
  /\ request = [r \in Requests |-> Resting]
  /\ beside = {}

NewId == IF ListIds = {} THEN 1 ELSE Max(ListIds) + 1
At(f, k) == IF k \in DOMAIN f THEN f[k] ELSE Nil
Put(f, k, v) == [x \in DOMAIN f \union {k} |-> IF x = k THEN v ELSE f[x]]
Drop(f, k) == [x \in DOMAIN f \ {k} |-> f[x]]
Both(f, g) == [x \in DOMAIN f \union DOMAIN g |-> IF x \in DOMAIN f THEN f[x] ELSE g[x]]

\* A request that is going to write: what it brings for a column is a set, empty
\* when it leaves the column alone; a value that reads the same is not written.
\* A seeding remembers the default lists that were there when it counted.
Asking(doing, found, name, symbols, default) ==
  [doing     |-> doing, found |-> found,
   name      |-> name \ {lists[id].name : id \in found},
   symbols   |-> {Normalized(s) : s \in symbols} \ {lists[id].symbols : id \in found},
   isDefault |-> default \ {lists[id].isDefault : id \in found},
   takes     |-> doing # "seed" /\ default = {TRUE},
   saw       |-> IF doing = "seed" THEN DefaultIds ELSE {}]

Request(r, q) ==
  /\ request[r] = Resting
  /\ request' = [request EXCEPT ![r] = q]
  /\ UNCHANGED <<lists, members, universe, beside>>

\* _ensure_starter_watchlist_for_user_in_session, the count: at a first sign-in,
\* at that of an invited person, and when a pending account is approved.
AskStarter(r) == ListIds = {} /\ Request(r, Asking("seed", {}, {Starter}, {Alphabet}, {TRUE}))

\* upsert, the read: two rows of the name are more than the query bears.
AskUpsert(r, name, symbols, default) ==
  LET same == {id \in ListIds : lists[id].name = name}
  IN Cardinality(same) <= 1 /\ Request(r, Asking("upsert", same, {name}, {symbols}, default))

\* update, the read; a list that is gone is answered with 404.
AskUpdate(r, id, name, symbols, default) == Request(r, Asking("update", {id}, name, symbols, default))

\* What a column holds after a write.
Column(written, stored) == IF written = {} THEN stored ELSE CHOOSE v \in written : TRUE

\* Faulty variant: only a new list takes the flag from the others.
Others_NewOnly(id, q) ==
  [i \in ListIds \ {id} |-> [lists[i] EXCEPT !.isDefault = @ /\ ~ (q.takes /\ q.found = {})]]

\* The rows a request did not ask for: they lose the default flag if it sets it.
Others(id, q) == [i \in ListIds \ {id} |-> [lists[i] EXCEPT !.isDefault = @ /\ ~ q.takes]]

\* Of default lists that arrive, those that do so beside another one.
Surplus(ids) == {i \in ids : DefaultIds # {} \/ i # (CHOOSE id \in ids : TRUE)}

\* The rest of upsert, of update and of the seeding.  A row deleted since it was
\* read fails the write.
WriteList(r) ==
  LET q == request[r]
      id == IF q.found = {} THEN NewId ELSE CHOOSE i \in q.found : TRUE
      row == [name |-> Column(q.name, lists[id].name), symbols |-> Column(q.symbols, lists[id].symbols),
              isDefault |-> Column(q.isDefault, q.found # {} /\ lists[id].isDefault)]
      fails == ~ (q.found \subseteq ListIds)
  IN /\ q # Resting
     /\ q.found = {} => NewId <= MaxLists
     /\ lists' = IF fails THEN lists ELSE Put(Others(id, q), id, row)
     /\ beside' = IF fails THEN beside ELSE IF q.takes THEN {}
                  ELSE IF q.doing = "seed" /\ q.saw = {} THEN beside \union Surplus({id}) ELSE beside
     /\ request' = [request EXCEPT ![r] = Resting]
     /\ UNCHANGED <<members, universe>>

\* _merge_users: the lists, memberships and symbols of the other row of the person
\* are relinked, a symbol that both have stays as it is here.
Inherit(d) ==
  /\ DOMAIN d.lists \intersect ListIds = {}
  /\ lists' = Both(lists, d.lists)
  /\ members' = [id \in DOMAIN members \union DOMAIN d.members |-> Both(At(members, id), At(d.members, id))]
  /\ universe' = Both(universe, d.universe)
  /\ beside' = beside \union Surplus({id \in DOMAIN d.lists : d.lists[id].isDefault})
  /\ UNCHANGED request

\* delete: the memberships stay behind.
DeleteList(id) ==
  lists' = Drop(lists, id) /\ beside' = beside \ {id} /\ UNCHANGED <<members, universe, request>>

\* add_watchlist_symbol, set_watchlist_symbol_active.
SetMember(id, s, active) ==
  /\ id \in ListIds
  /\ members' = Put(members, id, Put(At(members, id), s, active))
  /\ UNCHANGED <<lists, universe, request, beside>>

\* remove_watchlist_symbol: deactivates, or deletes the row.
RemoveMember(id, s, deactivate) ==
  /\ id \in DOMAIN members /\ s \in DOMAIN members[id]
  /\ members' = [members EXCEPT ![id] = IF deactivate THEN Put(@, s, FALSE) ELSE Drop(@, s)]
  /\ UNCHANGED <<lists, universe, request, beside>>

\* upsert_user_symbol, set_user_symbol_active.
SetSymbol(s, active) ==
  universe' = Put(universe, s, active) /\ UNCHANGED <<lists, members, request, beside>>

\* What a request may bring, if anything.
AtMostOneOf(S) == {{}} \union {{x} : x \in S}

ListRequest ==
  \/ \E r \in Requests :
       \/ AskStarter(r) \/ WriteList(r)
       \/ \E symbols \in AtMostOneOf(SymbolLists), default \in AtMostOneOf(BOOLEAN) :
            \/ \E name \in ListNames, s \in symbols : AskUpsert(r, name, s, default)
            \/ \E id \in ListIds, name \in AtMostOneOf(ListNames) : AskUpdate(r, id, name, symbols, default)
  \/ \E id \in ListIds : DeleteList(id)
  \/ \E d \in Duplicates : Inherit(d)

SymbolRequest ==
  \E s \in ToSet(Alphabet) :
    \/ \E active \in BOOLEAN : SetSymbol(s, active) \/ \E id \in ListIds : SetMember(id, s, active)
    \/ \E id \in DOMAIN members, deactivate \in BOOLEAN : RemoveMember(id, s, deactivate)

ListSpec == ListInit /\ [][ListRequest \/ SymbolRequest]_listVars

-----------------------------------------------------------------------------
\* However the requests overlap, at most one list is the default one, but for those
\* that a merge, or a seeding that had counted before the other came, put beside it
\* since a request last set the default: such a request leaves one at most (upsert
\* and update of WatchlistRepository, the seeding and the merge of UserRepository).
AtMostOneDefault == Cardinality(DefaultIds \ beside) <= 1

Sources == {"manual", "watchlist", "watchlist_plus_manual", "all_active"}
IdLists == {<<>>} \union {<<i>> : i \in 1 .. MaxLists} \union {<<i + 1, i>> : i \in 1 .. MaxLists - 1}

\* Of what the preview shows for a source, an agent run of that source scans the
\* first, to its depth, and a run of a watchlist source whose lists are all gone
\* scans no other list's symbols (preview_symbol_universe and resolve_universe).
PreviewIsWhatRuns ==
  \A source \in Sources, manual \in SymbolLists, ids \in IdLists, depth \in 1 .. Len(Alphabet) :
    LET run   == RunUniverse(source, Normalized(manual), ids, depth)
        shown == Preview(source, <<>>, manual, ids, FALSE, FALSE, {})
    IN IF PreviewRefused(source, ids)
       THEN source = "watchlist" /\ (\A id \in ToSet(ids) : id \notin ListIds) => run = <<>>
       ELSE run = SubSeq(shown, 1, IF Len(shown) < depth THEN Len(shown) ELSE depth)
=============================================================================
