----------------------------- MODULE MCServices -----------------------------
(***************************************************************************)
(* The caches, the connections and the pages between the chain and a user, *)
(* each on a small instance of its own: a behaviour is one of the part     *)
(* that focus names.  (The variables of parts that other runs explore are  *)
(* given to focus.)                                                        *)
(***************************************************************************)
EXTENDS Integers, FiniteSets

VARIABLES focus, circuit, command, redisUp, streak, heard, spared, record, entry,
          storeUp, reader, flight, replay, holder, stage, gone, asked, sending,
          answer, attempt, txStage, built, polls, report, result, number, proxied,
          head, memory, disk, load, lost, cooling, diskUp, edge, fetch, session,
          stored, prompts, visible, timers, inFlight, shown, sessions, chain, topCache,
          statsCache, opening, page, complete

circuitVars == <<circuit, command, redisUp, streak, heard, spared>>
cacheVars == <<record, entry, storeUp, reader, flight, replay>>
queryVars == <<holder, stage, gone, asked, sending, answer>>
txVars == <<attempt, txStage, built, polls, report, result, number, proxied>>
browserVars == <<head, memory, disk, load, lost, cooling, diskUp, edge, fetch>>
walletVars == <<session, stored, prompts, visible, timers, inFlight, shown, sessions>>
boardVars == <<chain, topCache, statsCache, opening, page, complete>>

Redis == INSTANCE BackendCache WITH
    Callers <- {1, 2, 3}, FailureThreshold <- 2, ProbeThreshold <- 1, ResetTimeout <- 1,
    Multiplier <- 2, LongestBackoff <- 3,
    Readers <- {1, 2}, Ttl <- 2, MaxJitter <- 1, MaxLoad <- 1, MaxVersion <- 2

Queries == INSTANCE DatabasePool WITH
    Requests <- {1, 2}, Connections <- {1, 2},
    Sessions <- {}, MaxLag <- 1, Poll <- 1, Cooldown <- 1, Window <- 1, MaxCheck <- 1,
    Shapes <- {}, Durations <- {}, Reservoir <- 1, MaxLines <- 1,
    lag <- focus, replicaUp <- focus, lagMs <- focus, health <- focus,
    retryIn <- focus, nextCheck <- focus, checks <- focus, writes <- focus,
    written <- focus, sinceMark <- focus, logLines <- focus, gathered <- focus,
    slowTotals <- focus, filters <- focus

Form == INSTANCE FrontendTransactions WITH
    Attempts <- {1, 2, 3}, ValidFor <- 3, PollsLeft <- 2, ProxyTtl <- 1,
    stage <- txStage

\* Two tabs over one proxy, two accounts of one tab, and two players on a page.
Browser == INSTANCE FrontendPages WITH
    Tabs <- {1, 2}, TabTtl <- 1, EdgeTtl <- 1, RetryAfter <- 1, MaxFetch <- 0, MaxHead <- 1,
    Wallets <- {1, 2}, MaxInFlight <- 1, MaxSessions <- 4,
    Players <- {1, 2}, ListPage <- 1, TopTtl <- 1, StatsTtl <- 1, MaxPlays <- 2

-----------------------------------------------------------------------------
Parts == {"circuit", "cache", "query", "form", "tabs", "wallet", "board"}

Only(part) ==
    /\ focus = part /\ UNCHANGED focus
    /\ IF part = "circuit" THEN TRUE ELSE UNCHANGED circuitVars
    /\ IF part = "cache" THEN TRUE ELSE UNCHANGED cacheVars
    /\ IF part = "query" THEN TRUE ELSE UNCHANGED queryVars
    /\ IF part = "form" THEN TRUE ELSE UNCHANGED txVars
    /\ IF part = "tabs" THEN TRUE ELSE UNCHANGED browserVars
    /\ IF part = "wallet" THEN TRUE ELSE UNCHANGED walletVars
    /\ IF part = "board" THEN TRUE ELSE UNCHANGED boardVars

Init ==
    /\ focus \in Parts
    /\ Redis!CircuitInit
    /\ Redis!CacheInit /\ (focus # "cache" => record = 0)
    /\ Queries!QueryInit
    /\ Form!TxInit
    /\ Browser!BrowserInit
    /\ Browser!WalletInit
    /\ Browser!BoardInit

\* Player 1 is the first to play, and never registers; player 2 never loses.
PlayersDiffer == /\ Browser!Plays = 0 => chain'[2] = chain[2]
                 /\ chain'[1].bonus = 0 /\ chain'[2].lost = 0

Next ==
    \/ Only("circuit") /\ Redis!CircuitNext
    \/ Only("cache") /\ Redis!CacheNext
    \/ Only("query") /\ Queries!QueryNext
    \/ Only("form") /\ Form!TxNext
    \/ Only("tabs") /\ Browser!BrowserNext
    \/ Only("wallet") /\ Browser!WalletNext
    \/ Only("board") /\ Browser!BoardNext /\ PlayersDiffer

vars == <<focus, circuitVars, cacheVars, queryVars, txVars, browserVars, walletVars,
          boardVars>>

Explores(part) == <>[](focus = part)

\* The fairness of each part's own specification, of the part in focus.
\* (What is fair in one part is fair in its behaviours alone, so that one formula
\* states the strong fairness of several parts.)
Fairness ==
    /\ \A c \in {1, 2, 3} :
        WF_circuitVars(focus = "circuit" /\ (Redis!Succeeds(c) \/ Redis!Fails(c)))
    /\ WF_circuitVars(focus = "circuit" /\ Redis!CircuitTick)
    /\ \A r \in {1, 2} : WF_cacheVars(focus = "cache" /\ Redis!ReaderGoesOn(r))
    /\ WF_cacheVars(focus = "cache" /\ (Redis!Load \/ Redis!StoreReturns))
    /\ WF_cacheVars(focus = "cache" /\ Redis!CacheTick)
    /\ \A c \in {1, 2} :
        /\ WF_queryVars(focus = "query" /\ \E r \in {1, 2} : Queries!TimeOut(r, c))
        /\ WF_queryVars(focus = "query" /\ (Queries!CancelArrives(c) \/ Queries!CancelReturns(c)))
    /\ WF_txVars(focus = "form" /\ (Form!SendRefused \/ Form!PollNotFound \/ Form!PollAnswers))
    /\ \A t \in {1, 2} :
        /\ WF_browserVars(focus = "tabs" /\
               (Browser!Hydrate(t) \/ Browser!StartLoad(t) \/ Browser!LoadFails(t)))
    /\ WF_browserVars(focus = "tabs" /\ (Browser!EdgeFetch \/ Browser!EdgeReply))
    /\ WF_browserVars(focus = "tabs" /\ Browser!BrowserTick)
    /\ WF_walletVars(focus = "wallet" /\ Browser!PollFetches)
    /\ \A i \in {1, 2} : SF_vars(
          \/ Only("circuit") /\ \E c \in {1, 2, 3} : Redis!Ask(c)
          \/ Only("tabs") /\ (Browser!LoadEnds(i) \/ Browser!LostLoadEnds(i))
          \/ Only("wallet") /\ Browser!FetchAnswers(i))

Spec == Init /\ [][Next]_vars /\ Fairness

-----------------------------------------------------------------------------
\* However loads overlap commits, deletions, invalidations and outages, nothing
\* is served longer after it was read than the times to live and one load allow,
\* and each lookup is counted once, in the family of its answer.  A user is told
\* what happened: a query is answered as abandoned only if its own client left, an
\* attempt shown as failed is not applied later, a bet is placed twice only after
\* an unknown result, and polls and sessions end with the account, and no row of the leaderboard page
\* claims more than the chain knows, however it is read piece by piece.
AnswersAreTrue ==
    /\ focus = "cache" => Redis!BoundedStaleness /\ Redis!AccountingExact
    /\ focus = "tabs" => Browser!FreshIsRecent
    /\ focus = "query" => Queries!AbandonedOnlyIfGone
    /\ focus = "form" => Form!ReportsHold /\ Form!DoublesFollowAnUnknown
    /\ focus = "wallet" => Browser!PollsOnlyWhenSeen /\ Browser!StoredIsConnected
    /\ focus = "board" => Browser!RowsAddUp

\* Redis is used again after it recovered, requests and tabs come to show the
\* committed value, connections come back to the pool, a sent transaction is
\* reported, a page shows the connected account.  The circuit opens on failures
\* in a row only, and leaves Redis alone for its backoff.  Every bettor is on the
\* leaderboard page once it was read in full, with rows that only grow.
ServicesProgress ==
    /\ Redis!OpensOnAStreak /\ Redis!OutageIsLeftAlone
    /\ Browser!EveryBettorShows /\ Browser!RowsOnlyGrow
    /\ Explores("circuit") => Redis!RecoveredRedisIsUsed
    /\ Explores("cache") => Redis!EventuallyFresh
    /\ Explores("query") => Queries!ConnectionsComeBack
    /\ Explores("form") => Form!SentIsReported
    /\ Explores("tabs") => Browser!EveryTabCatchesUp
    /\ Explores("wallet") => Browser!PageCatchesUp
=============================================================================
