--------------------------- MODULE FrontendPages ----------------------------
(***************************************************************************)
(* How a value of the contracts reaches the pages of the frontend:         *)
(* services/cache.ts (memory of each tab, the localStorage they share, one *)
(* load at a time) over the RPC proxy app/api/rpc/route.ts, which caches   *)
(* read calls for all users.  A tab that changed the value on chain        *)
(* invalidates it.  One key; ages are in ticks and saturate.               *)
(***************************************************************************)
EXTENDS Integers, FiniteSets, FiniteSetsExt

CONSTANTS Tabs,       \* open tabs of one browser
          TabTtl,     \* the ttl of set() and getOrSet()
          EdgeTtl,    \* READ_TTL_MS
          RetryAfter, \* DEGRADE_RETRY_MS
          MaxFetch,   \* bound: ticks an upstream call takes
          MaxHead     \* bound: versions of the value on chain

VARIABLES head,     \* the version on chain
          memory,   \* tier 1 of each tab: an entry, or Nothing
          disk,     \* tier 2, the tabs' localStorage
          load,     \* the load each tab waits for: none, waiting
          lost,     \* a load that invalidate() forgot and that still runs
          cooling,  \* ticks until a degraded tab probes storage, or Healthy
          diskUp,   \* whether localStorage works
          edge,     \* the proxy's cached reply
          fetch     \* the proxy's call to the RPC node: its reply, or Nothing

browserVars == <<head, memory, disk, load, lost, cooling, diskUp, edge, fetch>>

Nothing == [value |-> -2, age |-> 0, left |-> 0]
ErrorPage == -1
Healthy == -1
MaxAge == TabTtl + EdgeTtl + MaxFetch
Entry(value, age, ttl) == [value |-> value, age |-> age, left |-> ttl]

BrowserInit ==
    /\ head = 0 /\ disk = Nothing /\ diskUp = TRUE /\ edge = Nothing /\ fetch = Nothing
    /\ memory = [t \in Tabs |-> Nothing] /\ cooling = [t \in Tabs |-> Healthy]
    /\ load = [t \in Tabs |-> FALSE] /\ lost = [t \in Tabs |-> FALSE]

\* storage(): whether the persistent tier is tried, works, and how it is left.
Tried(t) == cooling[t] \in {Healthy, 0}
Works(t) == Tried(t) /\ diskUp

TryStorage(t) ==
    cooling' = [cooling EXCEPT ![t] = IF ~Tried(t) THEN @
                                      ELSE IF diskUp THEN Healthy ELSE RetryAfter]

-----------------------------------------------------------------------------
\* peek and getOrSet: a fresh entry is served from memory.
ReadMemory(t) == /\ memory[t].left > 0
                 /\ UNCHANGED browserVars

\* A slip: the entry copied to memory is given a new expiry.
Hydrate_Renew(t) == /\ memory[t] = Nothing /\ Works(t) /\ disk # Nothing
                    /\ memory' = [memory EXCEPT ![t] = Entry(disk.value, disk.age, TabTtl + 1)]
                    /\ TryStorage(t)
                    /\ UNCHANGED <<head, disk, load, lost, diskUp, edge, fetch>>

\* An entry on disk fills memory, also an expired one.
Hydrate(t) == /\ memory[t] = Nothing /\ Works(t) /\ disk # Nothing
              /\ memory' = [memory EXCEPT ![t] = disk]
              /\ TryStorage(t)
              /\ UNCHANGED <<head, disk, load, lost, diskUp, edge, fetch>>

\* No fresh entry: the loader starts, unless one is in flight.
StartLoad(t) ==
    /\ memory[t].left = 0 /\ ~load[t]
    /\ IF memory[t] = Nothing
       THEN (~Works(t) \/ disk = Nothing) /\ TryStorage(t)
       ELSE UNCHANGED cooling
    /\ load' = [load EXCEPT ![t] = TRUE]
    /\ UNCHANGED <<head, memory, disk, lost, diskUp, edge, fetch>>

\* set(): both tiers, fresh until after the ttl has passed; a write that storage refuses degrades the tab.
Put(t, entry) == /\ memory' = [memory EXCEPT ![t] = entry]
                 /\ disk' = IF Works(t) THEN entry ELSE disk
                 /\ TryStorage(t)

\* The loader's call is answered by the proxy.
LoadEnds(t) ==
    /\ load[t] /\ edge.left > 0 /\ edge.value # ErrorPage
    /\ Put(t, Entry(edge.value, edge.age, TabTtl + 1))
    /\ load' = [load EXCEPT ![t] = FALSE]
    /\ UNCHANGED <<head, lost, diskUp, edge, fetch>>

\* A load that was in flight at an invalidate() still stores what it read.
LostLoadEnds(t) ==
    /\ lost[t] /\ edge.left > 0
    /\ IF edge.value = ErrorPage THEN UNCHANGED <<memory, disk, cooling>>
       ELSE Put(t, Entry(edge.value, edge.age, TabTtl + 1))
    /\ lost' = [lost EXCEPT ![t] = FALSE]
    /\ UNCHANGED <<head, load, diskUp, edge, fetch>>

\* The loader rejects: an expired entry is served, or the error.
LoadFails(t) ==
    /\ load[t] /\ edge.left > 0 /\ edge.value = ErrorPage
    /\ load' = [load EXCEPT ![t] = FALSE]
    /\ UNCHANGED <<head, memory, disk, lost, cooling, diskUp, edge, fetch>>

\* placeBet, claim, ...: the transaction is confirmed and the key invalidated.
ChangeAndInvalidate(t) ==
    /\ head < MaxHead
    /\ head' = head + 1
    /\ memory' = [memory EXCEPT ![t] = Nothing]
    /\ load' = [load EXCEPT ![t] = FALSE]
    /\ lost' = [lost EXCEPT ![t] = @ \/ load[t]]
    /\ disk' = IF Works(t) THEN Nothing ELSE disk
    /\ TryStorage(t)
    /\ UNCHANGED <<diskUp, edge, fetch>>

Reload(t) == /\ memory' = [memory EXCEPT ![t] = Nothing]
             /\ load' = [load EXCEPT ![t] = FALSE] /\ lost' = [lost EXCEPT ![t] = FALSE]
             /\ cooling' = [cooling EXCEPT ![t] = Healthy]
             /\ UNCHANGED <<head, disk, diskUp, edge, fetch>>

StorageChanges == /\ diskUp' = ~diskUp
                  /\ UNCHANGED <<head, memory, disk, load, lost, cooling, edge, fetch>>

-----------------------------------------------------------------------------
\* A read call the proxy has no fresh reply for; identical calls wait for it.
EdgeFetch == /\ fetch = Nothing /\ edge.left = 0
             /\ \E t \in Tabs : load[t] \/ lost[t]
             /\ \E reply \in {head, ErrorPage} : fetch' = Entry(reply, 0, 0)
             /\ UNCHANGED <<head, memory, disk, load, lost, cooling, diskUp, edge>>

\* A slip: a reply is still served in the tick it expires in.
EdgeReply_Longer ==
    /\ fetch # Nothing
    /\ edge' = Entry(fetch.value, fetch.age, EdgeTtl + 1)
    /\ fetch' = Nothing
    /\ UNCHANGED <<head, memory, disk, load, lost, cooling, diskUp>>

\* Another caller is served only before the reply expires; it is cached whatever its status was.
EdgeReply == /\ fetch # Nothing
             /\ edge' = Entry(fetch.value, fetch.age, EdgeTtl)
             /\ fetch' = Nothing
             /\ UNCHANGED <<head, memory, disk, load, lost, cooling, diskUp>>

Older(entry) ==
    IF entry = Nothing THEN Nothing
    ELSE [entry EXCEPT !.age = IF @ > MaxAge THEN @ ELSE @ + 1,
                       !.left = IF @ = 0 THEN 0 ELSE @ - 1]
\* The proxy's expired replies are as good as none.
BrowserTick ==
    /\ fetch # Nothing => fetch.age < MaxFetch
    /\ memory' = [t \in Tabs |-> Older(memory[t])]
    /\ disk' = Older(disk) /\ fetch' = Older(fetch)
    /\ edge' = IF edge.left <= 1 THEN Nothing ELSE Older(edge)
    /\ cooling' = [t \in Tabs |-> IF cooling[t] > 0 THEN cooling[t] - 1 ELSE cooling[t]]
    /\ UNCHANGED <<head, load, lost, diskUp>>

BrowserNext ==
    \/ \E t \in Tabs : \/ ReadMemory(t) \/ Hydrate(t) \/ StartLoad(t) \/ LoadEnds(t)
                       \/ LostLoadEnds(t) \/ LoadFails(t) \/ ChangeAndInvalidate(t) \/ Reload(t)
    \/ StorageChanges \/ EdgeFetch \/ EdgeReply \/ BrowserTick

\* Pages poll the key, the proxy replies, and calls do not fail for ever.
BrowserFairness ==
    /\ \A t \in Tabs : /\ WF_browserVars(Hydrate(t) \/ StartLoad(t) \/ LoadFails(t))
                       /\ SF_browserVars(LoadEnds(t) \/ LostLoadEnds(t))
    /\ WF_browserVars(EdgeFetch \/ EdgeReply)
    /\ WF_browserVars(BrowserTick)

BrowserSpec == BrowserInit /\ [][BrowserNext]_browserVars /\ BrowserFairness

-----------------------------------------------------------------------------
\* Through both caches and both tiers, an entry that is served as fresh was
\* read from the chain less than both times to live and one call ago.
FreshIsRecent ==
    \A entry \in {memory[t] : t \in Tabs} \cup {disk} : entry.left > 0 => entry.age < MaxAge

\* Once the value stops changing every tab shows it, whatever loads were lost,
\* whenever storage failed and whichever tab wrote last.
EveryTabCatchesUp ==
    \A t \in Tabs : <>[](memory[t].left > 0 => memory[t].value = head)

-----------------------------------------------------------------------------
(***************************************************************************)
(* A browser tab of the frontend: the wallet session of                    *)
(* frontend/src/hooks/useWallet.tsx with its attempt to reconnect after a  *)
(* reload, and one page that shows data of the connected account through   *)
(* useProfile, useReferral or useToken and polls while it is visible       *)
(* (useVisiblePoll).  A hook fetches for the account it was rendered with; *)
(* its answers arrive in any order.  A wallet stands for its account.      *)
(***************************************************************************)

CONSTANTS Wallets,      \* numbers
          MaxInFlight,  \* bound: fetches of one account in flight
          MaxSessions   \* bound: wallet prompts and reloads

VARIABLES session,   \* publicKey, or NoWallet
          stored,    \* ip_wallet_pubkey in localStorage, or NoWallet
          prompts,   \* wallet prompts that wait for the user
          visible,   \* document.visibilityState
          timers,    \* intervals that tick
          inFlight,  \* account -> fetches that have not answered
          shown,     \* the account whose data is on the page, or NoWallet
          sessions   \* prompts and reloads so far

walletVars == <<session, stored, prompts, visible, timers, inFlight, shown, sessions>>
pageOnly == <<visible, inFlight, shown>>

NoWallet == 0
Idle == [w \in Wallets |-> 0]

WalletInit == /\ session = NoWallet /\ stored = NoWallet /\ prompts = {} /\ visible = TRUE
              /\ timers = 0 /\ inFlight = Idle /\ shown = NoWallet /\ sessions = 0

-----------------------------------------------------------------------------
\* fetchData for the account the hook was rendered with.
FetchFor(w) == inFlight' = [inFlight EXCEPT ![w] = IF @ < MaxInFlight THEN @ + 1 ELSE @]

\* A slip: the effect's cleanup leaves the interval running.
Rerendered_Leak(w) == timers' = IF visible /\ w # NoWallet THEN timers + 1 ELSE timers

\* useVisiblePoll's effect runs again when polling is enabled or disabled: its
\* cleanup stops the interval, and it starts one if the page is seen.
Rerendered(w) == timers' = IF visible /\ w # NoWallet THEN 1 ELSE 0

\* The account changes: the hook's effect fetches for the new one, or clears the page.
SessionIs(w) ==
    /\ session' = w
    /\ IF (session = NoWallet) = (w = NoWallet) THEN UNCHANGED timers ELSE Rerendered(w)
    /\ IF w = session THEN UNCHANGED <<inFlight, shown>>
       ELSE IF w = NoWallet THEN shown' = NoWallet /\ UNCHANGED inFlight
       ELSE FetchFor(w) /\ UNCHANGED shown

Prompt(w) == /\ sessions < MaxSessions /\ sessions' = sessions + 1
             /\ ~\E p \in prompts : p.how = "connect"
             /\ prompts' = prompts \cup {[how |-> "connect", wallet |-> w]}
             /\ UNCHANGED <<session, stored, timers, pageOnly>>

\* The user accepts: only connect() stores the session for the next load.
Accept(p) == /\ p \in prompts /\ prompts' = prompts \ {p}
             /\ SessionIs(p.wallet)
             /\ stored' = IF p.how = "connect" THEN p.wallet ELSE stored
             /\ UNCHANGED <<visible, sessions>>

\* A silent reconnection that fails forgets what was stored.
Reject(p) == /\ p \in prompts /\ prompts' = prompts \ {p}
             /\ stored' = IF p.how = "reconnect" THEN NoWallet ELSE stored
             /\ UNCHANGED <<session, timers, sessions, pageOnly>>

\* A slip: disconnecting only forgets the session of this load.
Forgotten_Session == stored
Forgotten == NoWallet

Disconnect == /\ session # NoWallet
              /\ SessionIs(NoWallet) /\ stored' = Forgotten
              /\ UNCHANGED <<prompts, visible, sessions>>

\* The page is loaded anew and the provider tries the stored wallet.
ReloadTab == /\ sessions < MaxSessions /\ sessions' = sessions + 1
             /\ session' = NoWallet /\ timers' = 0 /\ inFlight' = Idle /\ shown' = NoWallet
             /\ prompts' = IF stored = NoWallet THEN {}
                           ELSE {[how |-> "reconnect", wallet |-> stored]}
             /\ UNCHANGED <<stored, visible>>

-----------------------------------------------------------------------------
\* visibilitychange: the interval stops, or a fetch and the interval start.
Hide == /\ visible /\ visible' = FALSE /\ timers' = 0
        /\ UNCHANGED <<session, stored, prompts, inFlight, shown, sessions>>

Show == /\ ~visible /\ visible' = TRUE
        /\ IF session # NoWallet THEN timers' = 1 /\ FetchFor(session)
           ELSE UNCHANGED <<timers, inFlight>>
        /\ UNCHANGED <<session, stored, prompts, shown, sessions>>

\* A slip: the interval keeps the callback of the render it was started in.
PolledAccount_Stale == IF stored # NoWallet THEN stored ELSE session
\* The interval calls the latest render's callback.
PolledAccount == session

\* (That the account has no fetch in flight is a bound: the code fetches at every tick.)
PollFetches == /\ timers > 0 /\ PolledAccount # NoWallet /\ inFlight[PolledAccount] = 0
               /\ FetchFor(PolledAccount)
               /\ UNCHANGED <<session, stored, prompts, visible, timers, shown, sessions>>

\* The page is still mounted, so whatever answers is shown - also an answer
\* for the account of an earlier render.
FetchAnswers(w) == /\ inFlight[w] > 0
                   /\ inFlight' = [inFlight EXCEPT ![w] = @ - 1] /\ shown' = w
                   /\ UNCHANGED <<session, stored, prompts, visible, timers, sessions>>

FetchFails(w) == /\ inFlight[w] > 0
                 /\ inFlight' = [inFlight EXCEPT ![w] = @ - 1]
                 /\ UNCHANGED <<session, stored, prompts, visible, timers, shown, sessions>>

WalletNext == \/ \E w \in Wallets : Prompt(w) \/ FetchAnswers(w) \/ FetchFails(w)
              \/ \E p \in prompts : Accept(p) \/ Reject(p)
              \/ Disconnect \/ ReloadTab \/ Hide \/ Show \/ PollFetches

\* Intervals tick, every fetch ends, and one that is tried again and again
\* succeeds at some time.  The user owes nothing.
WalletFairness ==
    /\ WF_walletVars(PollFetches)
    /\ \A w \in Wallets : SF_walletVars(FetchAnswers(w))

WalletSpec == WalletInit /\ [][WalletNext]_walletVars /\ WalletFairness

-----------------------------------------------------------------------------
\* useVisiblePoll: "pauses entirely when the tab is hidden"; and one interval at
\* most runs, whatever connects, disconnects and returns to the tab meanwhile.
PollsOnlyWhenSeen == timers <= 1 /\ (timers > 0 => visible /\ session # NoWallet)

\* Nobody stays stored without being connected once no prompt is open: whoever
\* disconnected is not connected again by the next load of the page.
StoredIsConnected == stored # NoWallet /\ prompts = {} => session # NoWallet

\* A page shows the account that is connected in the end, although an answer for
\* the previous account may overwrite it: while somebody looks, the poll repairs it.
PageCatchesUp == <>[](visible /\ session # NoWallet => shown = session)

-----------------------------------------------------------------------------
(***************************************************************************)
(* The leaderboard as one browser tab assembles it (useLeaderboard of      *)
(* frontend/src/hooks, getTopPlayers and getStats of services/leaderboard):*)
(* the contract's list of top players with the statistics of each, and the *)
(* bettors of every market with theirs, are read one by one while players  *)
(* bet and claim, some from the cache and some in vain, and then merged.   *)
(* Rows without points and bets and the names of players are left out.     *)
(***************************************************************************)

CONSTANTS Players,
          ListPage,  \* MAX_PAGE_SIZE of the contract
          TopTtl,    \* LEADERBOARD_TTL
          StatsTtl,  \* STATS_TTL
          MaxPlays   \* bound: bets and registrations of all players

VARIABLES chain,      \* player -> bets placed, won and lost, and a bonus
          topCache,   \* the rows getTopPlayers keeps, with their age
          statsCache, \* player -> what getStats keeps, with its age
          opening,       \* the load in progress
          page,       \* player -> its row on the page
          complete    \* no read of the page's load failed

pageVars == <<chain, topCache, statsCache, opening, page, complete>>

NoRow == [points |-> 0, total |-> 0, won |-> 0, lost |-> 0]
NoRows == [p \in Players |-> NoRow]
NoLoad == [stage |-> "none"]
WinPoints == 3
LosePoints == 1

Points(s) == WinPoints * s.won + LosePoints * s.lost + s.bonus
\* get_stats: only claims are counted.
StatsOf(p) == [points |-> Points(chain[p]), total |-> chain[p].won + chain[p].lost,
               won |-> chain[p].won, lost |-> chain[p].lost]

BoardInit == /\ chain = [p \in Players |-> [placed |-> 0, won |-> 0, lost |-> 0, bonus |-> 0]]
             /\ topCache = [rows |-> NoRows, age |-> TopTtl]
             /\ statsCache = [p \in Players |-> [rows |-> NoRow, age |-> StatsTtl]]
             /\ opening = NoLoad /\ page = NoRows /\ complete = FALSE

-----------------------------------------------------------------------------
Plays == FoldSet(LAMBDA p, n : chain[p].placed + chain[p].bonus + n, 0, Players)
PlaceBet(p) == /\ Plays < MaxPlays /\ chain' = [chain EXCEPT ![p].placed = @ + 1]
               /\ UNCHANGED <<topCache, statsCache, opening, page, complete>>

Claim(p) == /\ chain[p].won + chain[p].lost < chain[p].placed
            /\ \/ chain' = [chain EXCEPT ![p].won = @ + 1]
               \/ chain' = [chain EXCEPT ![p].lost = @ + 1]
            /\ UNCHANGED <<topCache, statsCache, opening, page, complete>>

Register(p) == /\ Plays < MaxPlays /\ chain[p].bonus = 0
               /\ chain' = [chain EXCEPT ![p].bonus = 1]
               /\ UNCHANGED <<topCache, statsCache, opening, page, complete>>

\* Time passes; what expires is forgotten.
OlderRows(kept, ttl, none) == IF kept.age + 1 < ttl THEN [kept EXCEPT !.age = @ + 1]
                          ELSE [rows |-> none, age |-> ttl]
TabWaits == /\ topCache' = OlderRows(topCache, TopTtl, NoRows)
            /\ statsCache' = [p \in Players |-> OlderRows(statsCache[p], StatsTtl, NoRow)]
            /\ UNCHANGED <<chain, opening, page, complete>>

-----------------------------------------------------------------------------
\* fetchData starts both sources at once; only the list's cache is asked at once.
OpenBoard ==
    /\ opening = NoLoad
    /\ LET kept == topCache.age < TopTtl
       IN opening' = [stage |-> "reading", top |-> IF kept THEN "done" ELSE "asked",
                   listed |-> NoRows, entries |-> IF kept THEN topCache.rows ELSE NoRows,
                   counted |-> FALSE, counts |-> [p \in Players |-> 0],
                   stats |-> NoRows, unread |-> {}, clean |-> TRUE,
                   began |-> {p \in Players : chain[p].placed > 0}]
    /\ UNCHANGED <<chain, topCache, statsCache, page, complete>>

\* get_top_players: the first page of the players with points.
TopLists == {top \in SUBSET {p \in Players : Points(chain[p]) > 0} :
                /\ \/ Cardinality(top) = ListPage
                   \/ Cardinality(top) < ListPage /\ \A p \in Players \ top : Points(chain[p]) = 0
                /\ \A p \in top, q \in Players \ top : Points(chain[p]) >= Points(chain[q])}

ReadTopList ==
    /\ opening # NoLoad /\ opening.top = "asked"
    /\ \/ \E top \in TopLists :
              opening' = [opening EXCEPT !.top = "listed",
                       !.listed = [p \in Players |-> IF p \in top THEN [NoRow EXCEPT !.points = Points(chain[p])]
                                                 ELSE NoRow]]
       \/ opening' = [opening EXCEPT !.top = "done", !.clean = FALSE]
    /\ UNCHANGED <<chain, topCache, statsCache, page, complete>>

\* The statistics of the listed players; a failed read counts as no bets.
ReadTopStats ==
    /\ opening # NoLoad /\ opening.top = "listed"
    /\ \E failed \in SUBSET {p \in Players : opening.listed[p] # NoRow} :
          LET rows == [p \in Players |->
                          IF opening.listed[p] = NoRow THEN NoRow
                          ELSE IF p \in failed THEN opening.listed[p]
                          ELSE [StatsOf(p) EXCEPT !.points = opening.listed[p].points]]
          IN /\ opening' = [opening EXCEPT !.top = "done", !.entries = rows, !.listed = NoRows,
                                     !.clean = @ /\ failed = {}]
             /\ topCache' = [rows |-> rows, age |-> 0]
    /\ UNCHANGED <<chain, statsCache, page, complete>>

\* The markets each player has bet in, of those whose bettors could be read.
CountBettors ==
    /\ opening # NoLoad /\ ~opening.counted
    /\ \E counts \in [Players -> 0 .. MaxPlays] :
          /\ \A p \in Players : counts[p] <= chain[p].placed
          /\ opening' = [opening EXCEPT !.counted = TRUE, !.counts = counts,
                         !.clean = @ /\ \A p \in Players : counts[p] = chain[p].placed,
                         !.unread = {p \in Players : counts[p] > 0}]
    /\ UNCHANGED <<chain, topCache, statsCache, page, complete>>

BettorRow(p, row) == [row EXCEPT !.total = Max({@, opening.counts[p]})]

\* getStats of one bettor: cached, read, or null and taken for nothing.
ReadStats(p) ==
    /\ opening # NoLoad /\ p \in opening.unread
    /\ LET Got(row, clean) == opening' = [opening EXCEPT !.unread = @ \ {p}, !.clean = @ /\ clean,
                                                   !.stats[p] = BettorRow(p, row)]
       IN \/ /\ statsCache[p].age < StatsTtl
             /\ Got(statsCache[p].rows, TRUE) /\ UNCHANGED statsCache
          \/ /\ statsCache[p].age >= StatsTtl /\ Got(StatsOf(p), TRUE)
             /\ statsCache' = [statsCache EXCEPT ![p] = [rows |-> StatsOf(p), age |-> 0]]
          \/ /\ statsCache[p].age >= StatsTtl /\ Got(NoRow, FALSE) /\ UNCHANGED statsCache
    /\ UNCHANGED <<chain, topCache, page, complete>>

\* Slips: bets are taken from the markets alone; a listed player's row replaces the
\* bettor's; and players without points are dropped.
Merged_Counted == [p \in Players |->
    LET b == opening.stats[p] t == opening.entries[p]
    IN [points |-> Max({b.points, t.points}),
        total |-> IF opening.counts[p] > 0 THEN opening.counts[p] ELSE t.total,
        won |-> Max({b.won, t.won}), lost |-> Max({b.lost, t.lost})]]
Merged_LastWins == [p \in Players |->
    IF opening.entries[p] # NoRow THEN opening.entries[p] ELSE opening.stats[p]]
Merged_Listed == [p \in Players |->
    IF opening.entries[p] = NoRow THEN NoRow ELSE opening.stats[p]]
\* The larger value of each source, player by player.
Merged == [p \in Players |->
    LET b == opening.stats[p] t == opening.entries[p]
    IN [points |-> Max({b.points, t.points}), total |-> Max({b.total, t.total}),
        won |-> Max({b.won, t.won}), lost |-> Max({b.lost, t.lost})]]

ShowBoard == /\ opening # NoLoad /\ opening.top = "done" /\ opening.counted /\ opening.unread = {}
             /\ page' = Merged /\ complete' = opening.clean /\ opening' = NoLoad
             /\ UNCHANGED <<chain, topCache, statsCache>>

BoardNext == \/ \E p \in Players : PlaceBet(p) \/ Claim(p) \/ Register(p) \/ ReadStats(p)
             \/ TabWaits \/ OpenBoard \/ ReadTopList \/ ReadTopStats \/ CountBettors \/ ShowBoard

BoardSpec == BoardInit /\ [][BoardNext]_pageVars

-----------------------------------------------------------------------------
\* A row never claims more than the chain knows, and what was won and lost is part
\* of the bets it shows, although its numbers come from four reads of any age.
RowsAddUp == \A p \in Players :
    /\ page[p].won + page[p].lost <= page[p].total
    /\ page[p].total <= chain[p].placed /\ page[p].points <= Points(chain[p])

\* useLeaderboard merges two sources "so EVERY participant shows, not just
\* claimers": whoever had bet when a load began is on its page if no read failed.
EveryBettorShows ==
    [][page' # page /\ complete' => \A p \in opening.began : page'[p].total > 0]_pageVars

\* From one complete page to the next nobody loses points, bets, wins or losses:
\* the list is kept longer than the statistics it outlives.
RowsOnlyGrow ==
    [][complete /\ complete' => \A p \in Players : page'[p] = NoRow \/
           \A f \in {"points", "total", "won", "lost"} : page[p][f] <= page'[p][f]]_pageVars
=============================================================================
