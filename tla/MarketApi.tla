----------------------------- MODULE MarketApi ------------------------------
(***************************************************************************)
(* The routes of backend/src/api/markets.ts about one market - its details *)
(* (/:id), its odds (/:id/odds) and a page of its bets (/:id/bets) - over  *)
(* the three cache keys they share.  Every lookup goes through getOrSet(), *)
(* whose concurrent callers share one loader (module ReadThroughCache has  *)
(* one key in full); the loader of the odds is itself a lookup of the      *)
(* market key.  Redis is up here.  Ages are in ticks.                      *)
(***************************************************************************)
EXTENDS Integers, Sequences, FiniteSets, SequencesExt, FiniteSetsExt

CONSTANTS Clients,   \* concurrent requests
          PageTtl,   \* CACHE_TTLS.market = .odds = .bets, in ticks
          Slack,     \* the jitter of a time to live, in ticks
          MaxHold,   \* bound: ticks a loader holds what it read
          MaxBets,   \* bound: bets of the market; 0 leaves only whether it is known
          BetPages   \* the pages of bets that are asked for

VARIABLES booked,    \* bets in the database, or NoMarket
          kept,      \* key -> its entry in Redis
          fetching,  \* key -> its in-flight load
          client     \* the requests

pageVars == <<booked, kept, fetching, client>>

NoMarket == -1
CacheKeys == {"market", "odds", "bets"}

\* What a database read gave: bets seen, the page asked for, and how old it is.
Content(bets, page) == [bets |-> bets, page |-> page, age |-> 0]
Nothing == Content(NoMarket, 0)
Empty == [present |-> FALSE, content |-> Nothing, left |-> 0]
NoLoad == [at |-> "none", starter |-> 0, held |-> 0, content |-> Nothing]
Away == [wants |-> "none", page |-> 0, at |-> "idle", shares |-> "none",
         content |-> Nothing, code |-> 0]

PagesInit == /\ booked \in {NoMarket, 0} /\ client = [c \in Clients |-> Away]
             /\ kept = [k \in CacheKeys |-> Empty] /\ fetching = [k \in CacheKeys |-> NoLoad]

-----------------------------------------------------------------------------
\* The details and the bets look the market up first, the odds their own key.
Request(c) ==
    /\ client[c].at = "idle"
    /\ \E wants \in CacheKeys, page \in BetPages \cup {0} :
         /\ wants = "bets" <=> page # 0
         /\ client' = [client EXCEPT ![c] = [Away EXCEPT !.wants = wants, !.page = page,
                          !.at = IF wants = "odds" THEN "odds" ELSE "market"]]
    /\ UNCHANGED <<booked, kept, fetching>>

\* What a request does with the content its lookup of key gave: an unknown
\* market is a 404, and the bets are looked up once the market is known.
Served(ask, key, content) ==
    IF content.bets = NoMarket \/ ask.wants = key
    THEN [ask EXCEPT !.at = "answered", !.shares = "none", !.content = content,
                     !.code = IF content.bets = NoMarket THEN 404 ELSE 200]
    ELSE [ask EXCEPT !.at = ask.wants, !.shares = "none"]

Lookup(c) ==
    LET key == client[c].at
    IN  /\ key \in CacheKeys
        /\ IF kept[key].present
           THEN client' = [client EXCEPT ![c] = Served(@, key, kept[key].content)]
                /\ UNCHANGED fetching
           ELSE /\ client' = [client EXCEPT ![c].at = "joined", ![c].shares = key]
                /\ fetching' = IF fetching[key].at = "none"
                               THEN [fetching EXCEPT ![key].at = "reading", ![key].starter = c]
                               ELSE fetching
        /\ UNCHANGED <<booked, kept>>

\* The loader of the market or of the page its starter asked for; the odds read
\* the market key, or join the load of it.
Read(key) ==
    /\ fetching[key].at = "reading" /\ key # "odds"
    /\ fetching' = [fetching EXCEPT ![key].at = "storing",
          ![key].content = Content(booked, IF key = "bets" THEN client[fetching[key].starter].page
                                                           ELSE 0)]
    /\ UNCHANGED <<booked, kept, client>>
ReadOdds ==
    /\ fetching["odds"].at = "reading"
    /\ fetching' =
         IF kept["market"].present
         THEN [fetching EXCEPT !["odds"].at = "storing", !["odds"].content = kept["market"].content]
         ELSE [fetching EXCEPT !["odds"].at = "waiting",
                 !["market"] = IF @.at = "none" THEN [@ EXCEPT !.at = "reading"] ELSE @]
    /\ UNCHANGED <<booked, kept, client>>

\* All that share the load of key get what it gave.
ToJoined(key, content) ==
    [c \in Clients |-> IF client[c].shares = key
                       THEN Served(client[c], key, content) ELSE client[c]]

\* A slip: the time to live of the odds starts when they are read again.
Stored_Forever(key) ==
    \E extra \in 0 .. Slack :
        kept' = [kept EXCEPT ![key] = [present |-> TRUE, content |-> fetching[key].content,
                    left |-> IF key = "odds" THEN 2 * (PageTtl + Slack + MaxHold) ELSE PageTtl + extra]]

\* SETEX; an unknown market is kept as null.
Stored(key) ==
    \E extra \in 0 .. Slack :
        kept' = [kept EXCEPT ![key] = [present |-> TRUE, content |-> fetching[key].content,
                                       left |-> PageTtl + extra]]

\* A slip: the odds of an unknown market are cached like any other answer.
Keeps_All(key) == TRUE

\* The odds' loader throws notFound, which is not kept; the others return null.
Keeps(key) == key # "odds" \/ fetching[key].content.bets # NoMarket

\* The odds that wait for the market's load go on with what it gave.
Finish(key) ==
    /\ fetching[key].at = "storing"
    /\ IF Keeps(key) THEN Stored(key) ELSE UNCHANGED kept
    /\ client' = ToJoined(key, fetching[key].content)
    /\ fetching' = [fetching EXCEPT ![key] = NoLoad,
          !["odds"] = IF key = "market" /\ @.at = "waiting"
                      THEN [@ EXCEPT !.at = "storing", !.content = fetching["market"].content]
                      ELSE IF key = "odds" THEN NoLoad ELSE @]
    /\ UNCHANGED booked

\* A query fails, or is cancelled since the client that started it is gone:
\* everyone who shares the load gets its error.
Fail(key) ==
    LET hit == IF key = "market" /\ fetching["odds"].at = "waiting" THEN {key, "odds"} ELSE {key}
    IN  /\ fetching[key].at = "reading" /\ key # "odds"
        /\ client' = [c \in Clients |-> IF client[c].shares \in hit
                          THEN [client[c] EXCEPT !.at = "answered", !.shares = "none", !.code = 500] ELSE client[c]]
        /\ fetching' = [k \in CacheKeys |-> IF k \in hit THEN NoLoad ELSE fetching[k]]
        /\ UNCHANGED <<booked, kept>>

Answered(c) == /\ client[c].at = "answered"
               /\ client' = [client EXCEPT ![c] = Away]
               /\ UNCHANGED <<booked, kept, fetching>>

\* The indexer commits the market, then its bets; live polling drops no key.
Index == /\ booked < MaxBets /\ booked' = booked + 1
         /\ UNCHANGED <<kept, fetching, client>>

\* The oldest content of an entry: the load's hold, then all ticks but the one it goes on.
OnceOld == MaxHold + PageTtl + Slack - 1
AgedContent(content) == [content EXCEPT !.age = IF @ <= 2 * OnceOld THEN @ + 1 ELSE @]

\* Every load ends within MaxHold ticks of its read.
PageTick ==
    /\ \A k \in CacheKeys : fetching[k].held < MaxHold
    /\ kept' = [k \in CacheKeys |-> IF kept[k].left > 1
                  THEN [kept[k] EXCEPT !.content = AgedContent(@), !.left = @ - 1] ELSE Empty]
    /\ fetching' = [k \in CacheKeys |-> IF fetching[k].at = "storing"
                      THEN [fetching[k] EXCEPT !.content = AgedContent(@), !.held = @ + 1] ELSE fetching[k]]
    /\ UNCHANGED <<booked, client>>

PagesNext == \/ \E c \in Clients : Request(c) \/ Lookup(c) \/ Answered(c)
             \/ \E k \in CacheKeys : Read(k) \/ Finish(k) \/ Fail(k)
             \/ ReadOdds \/ Index \/ PageTick

PagesSpec == PagesInit /\ [][PagesNext]_pageVars

-----------------------------------------------------------------------------
\* No answer shows the market as it was more than two times to live and two
\* loads ago - the odds pass through two entries - and the details and the bets
\* as it was more than one ago.
AnswersAreRecent ==
    \A c \in Clients : client[c].code = 200 =>
        client[c].content.age <= (IF client[c].wants = "odds" THEN 2 ELSE 1) * OnceOld

\* A market is reported as unknown for at most one time to live and one load
\* after it was indexed, by the odds as well: only the market key keeps a null.
UnknownIsNotKeptTwice ==
    \A c \in Clients : client[c].code = 404 => client[c].content.age <= OnceOld + MaxHold

-----------------------------------------------------------------------------
(***************************************************************************)
(* What backend/src/db/markets.ts answers from one snapshot of the markets *)
(* table: the filtered, sorted and paginated list, the resolution delay,   *)
(* the candidates of the mappability sweep; and the odds of one market     *)
(* (backend/src/api/markets.ts).  Rows that a sort leaves tied come in any *)
(* order, which may differ from query to query.  question is one snapshot. *)
(***************************************************************************)

CONSTANTS MarketIds,
          ListNow,      \* NOW()
          GraceTime,    \* RESOLUTION_GRACE_SECONDS
          StalledTime,  \* RESOLUTION_STALLED_SECONDS
          OddsScale,    \* the fixed point a ratio is cut to, SCALE
          OddsPlaces,   \* the units odds are rounded to, toFixed(4)
          MaxPool       \* bound: stroops on a side

VARIABLE question

Rows == question.rows  \* market -> its row

-----------------------------------------------------------------------------
Filters == {"active", "resolved", "ended", "cancelled", "all"}
Sorts == {"newest", "volume", "ending_soon"}
Unsettled(m) == ~Rows[m].resolved /\ ~Rows[m].cancelled
Active(m) == Unsettled(m) /\ Rows[m].ends > ListNow

\* A slip: a market that ends now is neither active nor ended.
Passes_Strict(filter, m) ==
    CASE filter = "active" -> Active(m)
      [] filter = "resolved" -> Rows[m].resolved
      [] filter = "ended" -> Unsettled(m) /\ Rows[m].ends < ListNow
      [] filter = "cancelled" -> Rows[m].cancelled
      [] filter = "all" -> TRUE

\* FILTER_CLAUSES
Passes(filter, m) ==
    CASE filter = "active" -> Active(m)
      [] filter = "resolved" -> Rows[m].resolved
      [] filter = "ended" -> Unsettled(m) /\ Rows[m].ends <= ListNow
      [] filter = "cancelled" -> Rows[m].cancelled
      [] filter = "all" -> TRUE

\* buildMarketsWhere: ending_soon keeps the active markets of any filter only.
Matching(filter, sort) ==
    {m \in MarketIds : Passes(filter, m) /\ (sort = "ending_soon" => Active(m))}

\* A slip: the sort ends without its tiebreaker.
SortKey_Tied(sort, m) ==
    CASE sort = "newest" -> <<-Rows[m].created>>
      [] sort = "volume" -> <<-Rows[m].pool, -Rows[m].created>>
      [] sort = "ending_soon" -> <<Rows[m].ends>>

\* ORDER_BY
SortKey(sort, m) ==
    CASE sort = "newest" -> <<-Rows[m].created, -m>>
      [] sort = "volume" -> <<-Rows[m].pool, -Rows[m].created, -m>>
      [] sort = "ending_soon" -> <<Rows[m].ends, m>>

Smaller(a, b) == \E i \in DOMAIN a : a[i] < b[i] /\ \A j \in 1 .. i - 1 : a[j] = b[j]

\* The orders the database may return the matching rows in.
Orders(filter, sort) ==
    {s \in SetToSeqs(Matching(filter, sort)) :
        \A i, j \in DOMAIN s : i < j => ~Smaller(SortKey(sort, s[j]), SortKey(sort, s[i]))}

\* COUNT(*) OVER () of the same query, or countWhenEmptyPage.
TotalOf(filter, sort) == Cardinality(Matching(filter, sort))

\* getMarkets: what one query may answer for a page.
ListPage(filter, sort, page, limit) ==
    LET from == (page - 1) * limit IN
    {LET rows == SubSeq(s, from + 1, IF from + limit < Len(s) THEN from + limit ELSE Len(s))
     IN [rows |-> rows, total |-> TotalOf(filter, sort)] : s \in Orders(filter, sort)}

-----------------------------------------------------------------------------
Overdue == {m \in MarketIds : Unsettled(m) /\ Rows[m].ends < ListNow - GraceTime}

\* A slip: the newest overdue market is the one whose age is looked at.
OverdueAge_Newest == ListNow - Max({Rows[m].ends : m \in Overdue})
OverdueAge == ListNow - Min({Rows[m].ends : m \in Overdue})

\* getResolutionDelayStatus
DelayStatus == IF Overdue = {} THEN "on_time"
               ELSE IF OverdueAge >= StalledTime THEN "stalled" ELSE "delayed"

\* A slip: the latest to expire come first.
SweepRank_Last(m) == -Rows[m].ends
SweepRank(m) == Rows[m].ends

\* getUnmappableCandidates: past expiry included, every open market is one, and
\* the first of them by expiry are handed out.
HandedOut(limit) ==
    {c \in SUBSET {m \in MarketIds : Unsettled(m)} :
        /\ Cardinality(c) = LET open == Cardinality({m \in MarketIds : Unsettled(m)})
                            IN IF open < limit THEN open ELSE limit
        /\ \A m \in c, o \in MarketIds \ c : Unsettled(o) => SweepRank(m) <= SweepRank(o)}

-----------------------------------------------------------------------------
\* A slip: the ratio is cut to its places.
Rounded_Cut(ratio) == {(ratio * OddsPlaces) \div OddsScale}

\* toFixed: to the nearest place; a tie goes either way in binary fractions.
Rounded(ratio) == {n \in 0 .. OddsPlaces :
                      LET off == n * OddsScale - ratio * OddsPlaces
                      IN -OddsScale <= 2 * off /\ 2 * off <= OddsScale}

\* calculateOddsPayload, for one side
OddsOf(side, other) == IF side + other = 0 THEN {OddsPlaces \div 2}
                       ELSE Rounded((side * OddsScale) \div (side + other))

-----------------------------------------------------------------------------
ListedRows == [resolved : BOOLEAN, cancelled : BOOLEAN, ends : ListNow - 2 .. ListNow + 1,
               created : 1..2, pool : 0..1]
ListingQuestions ==
    [about : {"listing"},
     rows : [MarketIds -> {r \in ListedRows : ~(r.resolved /\ r.cancelled)}]]
    \cup [about : {"odds"}, yes : 0 .. MaxPool, no : 0 .. MaxPool]

ListingInit == question = [about |-> "nothing"]
AskListing == \E q \in ListingQuestions : question' = q
ListingNext == question.about = "nothing" /\ AskListing

\* Pages read by independent queries of one snapshot neither repeat a market nor
\* skip one, whatever ties, and each carries the number of all matching markets,
\* also the page past the end.
PagesCoverOnce ==
    question.about = "listing" =>
        \A filter \in Filters, sort \in Sorts, limit \in {1, 2} :
            \A one \in ListPage(filter, sort, 1, limit), two \in ListPage(filter, sort, 2, limit),
               three \in ListPage(filter, sort, 3, limit) :
                LET shown == one.rows \o two.rows \o three.rows IN
                /\ IsInjective(shown) /\ ToSet(shown) = Matching(filter, sort)
                /\ {one.total, two.total, three.total} = {Len(shown)}

\* A market is under exactly one of the four filters at every moment, the one it
\* ends at included.
FiltersPartition ==
    question.about = "listing" =>
        \A m \in MarketIds : Cardinality({f \in Filters \ {"all"} : Passes(f, m)}) = 1

\* The delay shown to users is that of the market that has waited longest.
LongestWaitDecides ==
    question.about = "listing" =>
        (DelayStatus = "stalled" <=>
            \E m \in MarketIds : Unsettled(m) /\ Rows[m].ends < ListNow - GraceTime
                                 /\ ListNow - Rows[m].ends >= StalledTime)

\* The sweep never hands out a market and leaves a more urgent one for later.
ExpiredAreSweptFirst ==
    question.about = "listing" =>
        \A limit \in {1, 2}, m \in MarketIds : \A c \in HandedOut(limit) :
            (m \in c /\ Rows[m].ends > ListNow) =>
                \A o \in MarketIds : Unsettled(o) /\ Rows[o].ends <= ListNow => o \in c

\* The two sides' odds differ from a split of the pool by half a place at most,
\* so they add up to one within a place, and the heavier side never looks lighter.
OddsAreFair ==
    question.about = "odds" =>
        LET y == question.yes  n == question.no IN
        \A yes \in OddsOf(y, n), no \in OddsOf(n, y) :
            /\ yes + no \in OddsPlaces - 1 .. OddsPlaces + 1
            /\ y > n => yes >= no
            /\ 2 * OddsScale * (y * OddsPlaces - yes * (y + n)) <= (y + n) * (OddsScale + 2 * OddsPlaces)
=============================================================================
