---------------------------- MODULE TokenBrowsing ----------------------------
(***************************************************************************)
(* Listing tokens: the gateway's resolver tokens with its offset cursors   *)
(* and its mutation deleteToken                                            *)
(* (src/backend/api-gateway-v2/src/graphql/resolvers/index.ts), and the    *)
(* explore page with the cache of its GraphQL client                       *)
(* (src/apps/web/src/app/explore/, src/apps/web/src/lib/graphql/client.ts),*)
(* which polls the first page and appends further pages while tokens are   *)
(* launched, traded, graduate and go, and while the user changes what is   *)
(* asked for.                                                              *)
(***************************************************************************)
EXTENDS Integers, FiniteSets, SequencesExt

CONSTANTS
    FirstTokens,    \* tokens in the database at the start
    FirstGraduated, \* how many of them, the oldest, have graduated
    PageSize,       \* TOKENS_PER_PAGE
    FeaturedCards,  \* graduated tokens shown apart, before the grid
    Sorts,          \* sort options used, of "new", "trending" and "volume"
    SearchHits,     \* the search terms used, each with the tokens it finds; "" finds all
    LaunchBound,    \* bound of the model on launches
    ChangeBound     \* bound of the model on trades, deletions, graduations, failures
                    \* and choices of the user

ASSUME BrowseAssumption ==
    /\ PageSize \in Nat \ {0}
    /\ FirstTokens \in Nat /\ FirstGraduated \in Nat /\ LaunchBound \in Nat
    /\ Sorts \subseteq {"new", "trending", "volume"}
    /\ "" \in DOMAIN SearchHits /\ 1 .. FirstTokens + LaunchBound \subseteq SearchHits[""]

VARIABLES
    db,             \* the table of tokens: [id, graduated, volume]
    launched,       \* tokens made so far
    changes,        \* what ChangeBound counts
    deleting,       \* tokens whose transactions deleteToken has removed
    initialTokens,  \* the list the server rendered
    sortBy, statusFilter,
    searchQuery,    \* what is typed
    search,         \* debouncedSearchQuery
    cache,          \* the client's lists by order and search
    entities,       \* the client's tokens: what it read last of each
    fetching,       \* the query for a list the cache does not have
    polling,        \* the query of the poll under way
    loading,        \* the query of handleLoadMore under way
    tokensError

browseVars == <<db, launched, changes, deleting, initialTokens, sortBy, statusFilter, searchQuery,
                search, cache, entities, fetching, polling, loading, tokensError>>

Filters == {"ALL", "BONDING", "GRADUATED"}
Phase == {"none", "asked", "found", "counted", "answered"}
\* MARKET_CAP_DESC and GRADUATION_DESC order by another figure as VOLUME_DESC does.
sortToOrderBy == [new |-> "CREATED_AT_DESC", trending |-> "VOLUME_DESC", volume |-> "VOLUME_DESC"]
QueryKey(sort, term) == [order |-> sortToOrderBy[sort], search |-> term]
FirstKey == QueryKey("new", "")
NoRequest == [at |-> "none", key |-> FirstKey, filter |-> "ALL", from |-> 0, edges |-> <<>>,
              total |-> 0, old |-> FALSE]

\* The rows of a query: those it finds, in its order.  Rows with the same volume come
\* in any order; here the older first.
Matches(t, key, f) ==
    /\ f = "ALL" \/ (f = "GRADUATED" <=> t.graduated)
    /\ t.id \in SearchHits[key.search]
Found(key, f) == {t \in db : Matches(t, key, f)}
Before(order, t, u) ==
    IF order = "CREATED_AT_DESC" THEN t.id > u.id
    ELSE t.volume > u.volume \/ (t.volume = u.volume /\ t.id < u.id)
Offset(order, rows, t) == Cardinality({u \in rows : Before(order, u, t)})
InOrder(order, rows) ==
    [i \in 1 .. Cardinality(rows) |-> CHOOSE t \in rows : Offset(order, rows, t) = i - 1]
Rows(key, f) == InOrder(key.order, Found(key, f))
Slice(rows, from) == SubSeq(rows, from + 1, IF from + PageSize < Len(rows) THEN from + PageSize
                                            ELSE Len(rows))
\* Mutant: the end cursor is the offset after the page.
Connection_EndPast(q) ==
    [key |-> q.key, filter |-> q.filter, moved |-> q.old, edges |-> q.edges,
     more |-> q.from + PageSize < q.total,
     end |-> IF q.edges = <<>> THEN -1 ELSE q.from + Len(q.edges)]

\* The connection the resolver answers; endCursor is null on an empty page.  A list
\* also remembers what it was asked with, and whether rows left the listing since then.
Connection(q) ==
    [key |-> q.key, filter |-> q.filter, moved |-> q.old, edges |-> q.edges,
     more |-> q.from + PageSize < q.total,
     end |-> IF q.edges = <<>> THEN -1 ELSE q.from + Len(q.edges) - 1]
EmptyConnection(q) == Connection([q EXCEPT !.from = 0, !.edges = <<>>, !.total = 0])

\* What the resolver tokens does: the rows and their number are two queries, answered
\* in either order and perhaps at different moments.
FindMany(q) == [q EXCEPT !.edges = Slice(Rows(q.key, q.filter), q.from),
                         !.at = IF @ = "asked" THEN "found" ELSE "answered"]
Count(q) == [q EXCEPT !.total = Cardinality(Found(q.key, q.filter)),
                      !.at = IF @ = "asked" THEN "counted" ELSE "answered"]
Tokens(q) == {a \in {FindMany(q), Count(q)} :
                \/ q.at = "asked"
                \/ q.at = "counted" /\ a = FindMany(q)
                \/ q.at = "found" /\ a = Count(q)}
Ask(key, f, after) == [NoRequest EXCEPT !.at = "asked", !.key = key, !.filter = f, !.from = after + 1]

-----------------------------------------------------------------------------
\* getInitialTokens: the server's first page, newest first, or none when it failed.
GetInitialTokens(tokens) ==
    {Connection([NoRequest EXCEPT !.edges = Slice(InOrder(FirstKey.order, tokens), 0),
                                  !.total = Cardinality(tokens)]),
     EmptyConnection(NoRequest)}

BrowseInit ==
    /\ launched = FirstTokens
    /\ db = {[id |-> i, volume |-> 0, graduated |-> i <= FirstGraduated] : i \in 1 .. FirstTokens}
    /\ initialTokens \in GetInitialTokens(db)
    /\ changes = 0 /\ deleting = {}
    /\ sortBy = "new" /\ statusFilter = "ALL" /\ searchQuery = "" /\ search = ""
    /\ cache = <<>> /\ entities = <<>>
    /\ fetching = Ask(FirstKey, "ALL", -1) /\ polling = NoRequest /\ loading = NoRequest
    /\ tokensError = FALSE

databaseVars == <<db, launched, deleting>>
choiceVars == <<sortBy, statusFilter, searchQuery, search>>
listVars == <<initialTokens, cache, entities>>
requestVars == <<fetching, polling, loading, tokensError>>

-----------------------------------------------------------------------------
\* The database and the mutations.

Change == changes < ChangeBound /\ changes' = changes + 1
\* Rows leave the listings: what was listed, or is on its way, has the wrong offsets.
RowsMove ==
    /\ initialTokens' = [initialTokens EXCEPT !.moved = TRUE]
    /\ cache' = [k \in DOMAIN cache |-> [cache[k] EXCEPT !.moved = TRUE]]
    /\ fetching' = [fetching EXCEPT !.old = fetching.at # "none"]
    /\ polling' = [polling EXCEPT !.old = polling.at # "none"]
    /\ UNCHANGED <<entities, loading, tokensError, choiceVars>>

LaunchToken ==
    /\ launched < FirstTokens + LaunchBound
    /\ launched' = launched + 1
    /\ db' = db \cup {[id |-> launched', graduated |-> FALSE, volume |-> 0]}
    /\ UNCHANGED <<changes, deleting, choiceVars, listVars, requestVars>>

Graduates(t) ==
    /\ ~t.graduated /\ Change
    /\ db' = (db \ {t}) \cup {[t EXCEPT !.graduated = TRUE]}
    /\ RowsMove
    /\ UNCHANGED <<launched, deleting>>

\* A trade moves a token in the order of volumes.
Traded(t) ==
    /\ Change
    /\ db' = (db \ {t}) \cup {[t EXCEPT !.volume = @ + 1]}
    /\ UNCHANGED <<launched, deleting, choiceVars, listVars, requestVars>>

\* deleteToken and each round of deleteTokensBatch: first the token's transactions,
\* then the token.  When the second statement fails the token stays without them.
DeleteTransactions(t) ==
    /\ t.id \notin deleting /\ Change
    /\ deleting' = deleting \cup {t.id}
    /\ UNCHANGED <<db, launched, choiceVars, listVars, requestVars>>
DeleteToken(t) ==
    /\ t.id \in deleting
    /\ deleting' = deleting \ {t.id}
    /\ \/ db' = db \ {t} /\ RowsMove /\ UNCHANGED changes
       \/ Change /\ UNCHANGED <<db, choiceVars, listVars, requestVars>>
    /\ UNCHANGED launched

Resolve ==
    /\ \/ fetching' \in Tokens(fetching) /\ UNCHANGED <<polling, loading>>
       \/ polling' \in Tokens(polling) /\ UNCHANGED <<fetching, loading>>
       \/ loading' \in Tokens(loading) /\ UNCHANGED <<fetching, polling>>
    /\ UNCHANGED <<databaseVars, changes, choiceVars, listVars, tokensError>>

-----------------------------------------------------------------------------
\* What the page shows.

Key == QueryKey(sortBy, search)

\* tokensConnection: the list of the query of now, or what the server rendered as long
\* as the client has none; a token shows what was read of it last by any query.
TokensConnection == IF Key \in DOMAIN cache THEN cache[Key] ELSE initialTokens
ShownTokens ==
    LET edges == TokensConnection.edges
    IN  IF Key \in DOMAIN cache THEN [i \in DOMAIN edges |-> entities[edges[i].id]] ELSE edges

\* isInitialLoading: some query is under way and none was answered for these variables.
IsInitialLoading ==
    Key \notin DOMAIN cache /\ \E q \in {fetching, polling, loading} : q.at # "none"

\* getTokenMetadata: a token's place by volume among the tokens shown.
TrendingRank(token) ==
    Cardinality({t \in Range(ShownTokens) : t.volume > token.volume}) + 1

\* The cards of the grid; ranks are shown when the page is sorted by them.
Grid == [i \in DOMAIN ShownTokens |->
            [token |-> ShownTokens[i],
             rank |-> IF sortBy = "trending" THEN TrendingRank(ShownTokens[i]) ELSE 0]]

\* The graduated tokens, shown once more before the grid.
Featured == IF statusFilter = "ALL" THEN SelectSeq(Grid, LAMBDA c : c.token.graduated) ELSE <<>>

\* The body of the page: the grid, grey boxes, or the words that there is nothing.
Content ==
    CASE Grid # <<>> -> "grid"
      [] Grid = <<>> /\ IsInitialLoading -> "skeleton"
      [] OTHER -> IF search = "" /\ statusFilter = "ALL" THEN "no tokens yet" ELSE "no match"

\* SearchResultsAnnouncer, which speaks of the tokens shown.
Announcement == IF IsInitialLoading THEN [text |-> "searching", count |-> 0]
                ELSE [text |-> IF search = "" THEN "available" ELSE "found", count |-> Len(Grid)]

-----------------------------------------------------------------------------
\* The user.

\* The query's variables changed: a list the cache has is shown without a query, for
\* the others a query starts in place of the one before.
Requery(key, f) ==
    /\ fetching' = IF key \in DOMAIN cache THEN NoRequest ELSE Ask(key, f, -1)
    /\ tokensError' = FALSE
    /\ UNCHANGED <<databaseVars, listVars, polling, loading>>

\* The cache keys lists by order and search only, whatever the status.
SetStatusFilter(f) ==
    /\ f # statusFilter /\ Change
    /\ statusFilter' = f /\ UNCHANGED <<sortBy, searchQuery, search>>
    /\ Requery(Key, f)

\* "View all": offered when there are more graduated tokens than are featured.
ViewAllGraduated ==
    /\ Content = "grid" /\ Len(Featured) > FeaturedCards
    /\ SetStatusFilter("GRADUATED")

SetSortBy(s) ==
    /\ s # sortBy /\ Change
    /\ sortBy' = s /\ UNCHANGED <<statusFilter, searchQuery, search>>
    /\ IF sortToOrderBy[s] = sortToOrderBy[sortBy]
       THEN UNCHANGED <<databaseVars, listVars, requestVars>>
       ELSE Requery(QueryKey(s, search), statusFilter)

SetSearchQuery(term) ==
    /\ term # searchQuery /\ Change
    /\ searchQuery' = term /\ UNCHANGED <<sortBy, statusFilter, search>>
    /\ UNCHANGED <<databaseVars, listVars, requestVars>>

\* useDebounce: what is typed is searched when 300 ms brought nothing new.
Debounce ==
    /\ searchQuery # search
    /\ search' = searchQuery /\ UNCHANGED <<changes, sortBy, statusFilter, searchQuery>>
    /\ Requery(QueryKey(sortBy, searchQuery), statusFilter)

\* The button is there when more rows are said to follow, and disabled while they load.
CanLoadMore == Content = "grid" /\ TokensConnection.more /\ loading.at = "none"

\* handleLoadMore: the page after the last row listed.
HandleLoadMore ==
    /\ CanLoadMore
    /\ loading' = Ask(Key, statusFilter, TokensConnection.end)
    /\ UNCHANGED <<databaseVars, changes, choiceVars, listVars, fetching, polling, tokensError>>

-----------------------------------------------------------------------------
\* The client's queries.

\* The poll of the first page, with the variables of now; the client skips it while
\* another query of the page is under way.
PollTokens ==
    /\ \A q \in {fetching, polling, loading} : q.at = "none"
    /\ polling' = Ask(Key, statusFilter, -1)
    /\ UNCHANGED <<databaseVars, changes, choiceVars, listVars, fetching, loading, tokensError>>

\* The client's lists with one of them written.
CacheWith(key, list) == [k \in DOMAIN cache \cup {key} |-> IF k = key THEN list ELSE cache[k]]

\* Tokens are kept once for all lists, under their address.
Normalised(edges) ==
    LET Read == {edges[i] : i \in DOMAIN edges}
        read == {t.id : t \in Read}
    IN  [id \in DOMAIN entities \cup read |->
            IF id \in read THEN CHOOSE t \in Read : t.id = id ELSE entities[id]]

\* merge: the answer replaces the list of its key, and drops the pages after the first.
\* A page on its way would be appended to another list than it was asked for.
Merge(q) ==
    /\ \/ /\ q.at = "answered" /\ UNCHANGED changes
          /\ cache' = CacheWith(q.key, [Connection(q) EXCEPT !.moved = @ \/ loading.at # "none"])
          /\ entities' = Normalised(q.edges)
       \/ /\ q.at # "none" /\ Change  \* the resolver answers an error with an empty list
          /\ cache' = CacheWith(q.key, [EmptyConnection(q) EXCEPT !.moved = @ \/ loading.at # "none"])
          /\ UNCHANGED entities
    /\ tokensError' = (tokensError /\ q.key # Key)
    /\ UNCHANGED <<databaseVars, choiceVars, initialTokens, loading>>
MergeFetch == Merge(fetching) /\ fetching' = NoRequest /\ UNCHANGED polling
MergePoll == Merge(polling) /\ polling' = NoRequest /\ UNCHANGED fetching

\* updateQuery appends the page to the list of now, whatever it is; when there is none
\* it throws, and the page says that loading failed.
MergeMore ==
    /\ loading.at # "none" /\ loading' = NoRequest
    /\ LET list == cache[Key]
           Appended(c) ==
             CacheWith(Key, [c EXCEPT !.edges = list.edges \o @, !.key = Key, !.filter = list.filter,
                        !.moved = \/ list.moved
                                  \/ loading.key # Key \/ loading.filter # list.filter])
       IN \/ /\ loading.at = "answered" /\ Key \in DOMAIN cache /\ UNCHANGED changes
             /\ cache' = Appended(Connection(loading))
             /\ entities' = Normalised(loading.edges)
          \/ /\ Key \in DOMAIN cache /\ Change
             /\ cache' = Appended(EmptyConnection(loading))
             /\ UNCHANGED entities
          \/ /\ loading.at = "answered" /\ Key \notin DOMAIN cache
             /\ UNCHANGED <<cache, entities, changes>>
    /\ UNCHANGED <<databaseVars, choiceVars, initialTokens, fetching, polling, tokensError>>

\* errorLink: the request fails on the way; the list stays, with the error above it.
RequestFails ==
    /\ Change
    /\ \/ fetching.at # "none" /\ fetching' = NoRequest /\ tokensError' = TRUE
          /\ UNCHANGED <<polling, loading>>
       \/ polling.at # "none" /\ polling' = NoRequest
          /\ tokensError' = (tokensError \/ polling.key = Key) /\ UNCHANGED <<fetching, loading>>
       \/ loading.at # "none" /\ loading' = NoRequest /\ UNCHANGED <<fetching, polling, tokensError>>
    /\ UNCHANGED <<databaseVars, choiceVars, listVars>>

BrowseNext ==
    \/ LaunchToken
    \/ \E t \in db : Graduates(t) \/ Traded(t) \/ DeleteTransactions(t) \/ DeleteToken(t)
    \/ Resolve
    \/ \E f \in Filters : SetStatusFilter(f)
    \/ ViewAllGraduated
    \/ \E s \in Sorts : SetSortBy(s)
    \/ \E term \in DOMAIN SearchHits : SetSearchQuery(term)
    \/ Debounce
    \/ HandleLoadMore
    \/ PollTokens
    \/ MergeFetch \/ MergePoll \/ MergeMore
    \/ RequestFails

BrowseSpec == BrowseInit /\ [][BrowseNext]_browseVars

-----------------------------------------------------------------------------
\* Types of the variables, and of what is shown.
BrowseTypeOK ==
    /\ \A t \in db : t.id \in 1 .. launched /\ t.graduated \in BOOLEAN
    /\ deleting \subseteq 1 .. launched
    /\ sortBy \in Sorts /\ statusFilter \in Filters
    /\ searchQuery \in DOMAIN SearchHits /\ search \in DOMAIN SearchHits
    /\ \A k \in DOMAIN cache : cache[k].key = k /\ cache[k].end \in -1 .. launched
    /\ \A q \in {fetching, polling, loading} : q.at \in Phase
    /\ tokensError \in BOOLEAN
    /\ Announcement.count \in 0 .. Len(Grid) /\ Len(Featured) <= Len(Grid)

\* In the order of creation, the only one without ties, no token is missing between two
\* tokens of the grid, though pages are cut by offset, tokens launched between two pages
\* move every row and the list changes hands between the server, the cache and further
\* pages (the cursors of tokens, handleLoadMore, merge, updateQuery); unless rows left
\* the listing, the list shown was read with other filters, or was replaced while a
\* page was on its way.  Above the first card a token can be missing once more tokens
\* than a page holds were launched since it was read.
PagesLeaveNoGap ==
    LET list == TokensConnection
        found == Found(Key, statusFilter)
        ids == {Grid[i].token.id : i \in DOMAIN Grid}
    IN  /\ ~list.moved /\ list.key = Key /\ list.filter = statusFilter
        /\ Key.order = "CREATED_AT_DESC"
        => \A a, b, c \in found :
               /\ a.id > b.id /\ b.id > c.id /\ {a.id, c.id} \subseteq ids
               /\ \/ a.id <= Grid[1].token.id
                  \/ Offset(Key.order, found, Grid[1].token) <= PageSize
               => b.id \in ids

\* "Match actual query parameters to prevent cache collisions" (client.ts:101): while
\* no query is under way the list holds tokens of the chosen status only.
ListMatchesFilter ==
    (\A q \in {fetching, polling, loading} : q.at = "none") =>
        \A i \in DOMAIN Grid : Matches(Grid[i].token, Key, statusFilter)

=============================================================================
