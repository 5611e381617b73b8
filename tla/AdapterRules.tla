---------------------------- MODULE AdapterRules ----------------------------
(***************************************************************************)
(* Which adapters a market has, oracle/src/adapters: the order in which a  *)
(* market's adapters are asked (index.ts), whether any could resolve it at *)
(* all (mappability.ts), with the operator's overrides read from the       *)
(* environment and a file, and the sweep that lists the open markets none  *)
(* can resolve, most urgent first (unmappableSweep.ts).                    *)
(*                                                                         *)
(* question is one input of one of these functions.                        *)
(***************************************************************************)
EXTENDS Integers, Sequences, FiniteSets, SequencesExt, FiniteSetsExt, Functions

CONSTANTS SweepWithin,  \* withinSeconds of the sweep
          MaxSwept,     \* bound: markets in a sweep
          MaxAdapters   \* bound: registered adapters

VARIABLE question

Absent == "absent"
NotGiven == {Absent}    \* no adapters or no registry passed
UnknownEnd == 1000      \* an end time that is missing or unreadable

-----------------------------------------------------------------------------
\* Markets.  The database holds title-case categories and no params.

Lower(category) == CASE category = "Crypto" -> "crypto"
                     [] category = "Politics" -> "politics"
                     [] OTHER -> category

StoredMarkets == [category : {"Crypto", "Politics"}, params : {Absent, "bad", "good"},
                  symbol : {"BTCUSDT", "bitcoin", "TIAUSDT"}]

\* A market of the oracle has params; one the sweep reads has a stored category.
MappedMarkets ==
    [category : {"crypto", "politics", "sports", "weather"}, params : {"bad", "good"}, symbol : {"BTCUSDT", "bitcoin", "TIAUSDT"}]
    \cup StoredMarkets

AdapterCategory == [binance |-> "crypto", coingecko |-> "crypto", reuters |-> "politics"]

\* supports(): category and params; what the params name is not looked up.
Supports(adapter, m) == m.category = AdapterCategory[adapter] /\ m.params = "good"

\* DEFAULT_MAPPABLE_SYMBOLS: of the names above, the one in upper case can
\* match, for every symbol is looked up in upper case.
MatchingSymbols == [binance |-> {"BTCUSDT"}, coingecko |-> {}, reuters |-> {}]

-----------------------------------------------------------------------------
\* Overrides.

Overrides == [symbols : SUBSET {"TIAUSDT"}, unsupported : SUBSET {"BTCUSDT", "TIAUSDT"},
              categories : SUBSET {"weather"}]
NoOverride == [symbols |-> {}, unsupported |-> {}, categories |-> {}]

\* A slip: a file replaces what the environment says.
MergeOverride_Replace(base, next) == next

\* load, mergeOverride: what either source says holds.
MergeOverride(base, next) ==
    [symbols |-> base.symbols \cup next.symbols,
     unsupported |-> base.unsupported \cup next.unsupported,
     categories |-> base.categories \cup next.categories]

ServedCategories == {"crypto", "politics", "science", "sports"}

\* A slip: the category is compared as it is stored.
IsCategorySupported_AsStored(category, o) ==
    category \in ServedCategories \cup o.categories

\* MAPPABLE_CATEGORIES and the added ones, whichever adapters are registered.
IsCategorySupported(category, o) == Lower(category) \in ServedCategories \cup o.categories

\* A slip: an added symbol is looked up before the blocked ones.
IsSymbolKnown_AddedFirst(symbol, registry, o) ==
    \/ symbol \in o.symbols
    \/ /\ symbol \notin o.unsupported
       /\ \E a \in registry : symbol \in MatchingSymbols[a]

\* An unsupported entry wins over an added symbol and over the defaults.
IsSymbolKnown(symbol, registry, o) ==
    /\ symbol \notin o.unsupported
    /\ symbol \in o.symbols \/ \E a \in registry : symbol \in MatchingSymbols[a]

Unmappable(reason) == [mappable |-> FALSE, by |-> {}, reason |-> reason]

\* A slip: missing params are no reason.
Validate_Guess(m, adapters, registry, o) ==
    LET live == IF adapters = NotGiven THEN {} ELSE adapters
        claimed == {a \in live : Supports(a, m)}
        effective == IF registry # NotGiven THEN registry ELSE adapters
    IN IF claimed # {} THEN [mappable |-> TRUE, by |-> claimed, reason |-> Absent]
       ELSE IF effective = NotGiven \/ ~IsCategorySupported(m.category, o)
            THEN Unmappable("unsupported-category")
       ELSE IF Lower(m.category) \in {"crypto", "politics"} /\ m.params = "bad" THEN Unmappable("missing-params")
       ELSE IF Lower(m.category) = "crypto" /\ ~IsSymbolKnown(m.symbol, effective, o)
            THEN Unmappable("unknown-symbol")
       ELSE [mappable |-> TRUE, by |-> {}, reason |-> Absent]

\* validateMarketMappability: the live adapters settle it if any claims the
\* market; otherwise the registry, built from them if none is given.
Validate(m, adapters, registry, o) ==
    LET live == IF adapters = NotGiven THEN {} ELSE adapters
        claimed == {a \in live : Supports(a, m)}
        effective == IF registry # NotGiven THEN registry ELSE adapters
    IN IF claimed # {} THEN [mappable |-> TRUE, by |-> claimed, reason |-> Absent]
       ELSE IF effective = NotGiven \/ ~IsCategorySupported(m.category, o)
            THEN Unmappable("unsupported-category")
       ELSE IF m.params = Absent THEN Unmappable("unknown-params")
       ELSE IF Lower(m.category) \in {"crypto", "politics"} /\ m.params = "bad" THEN Unmappable("missing-params")
       ELSE IF Lower(m.category) = "crypto" /\ ~IsSymbolKnown(m.symbol, effective, o)
            THEN Unmappable("unknown-symbol")
       ELSE [mappable |-> TRUE, by |-> {}, reason |-> Absent]

-----------------------------------------------------------------------------
\* The sweep.  A market ends at a time relative to now, or at one that is not
\* known or cannot be read.

SweptMarkets == [ends : (-(SweepWithin + 1) .. SweepWithin + 1) \cup {UnknownEnd}, mappable : BOOLEAN]

InWindow(ends, includeExpired) ==
    \/ ends = UnknownEnd
    \/ /\ ends >= -SweepWithin /\ ends <= SweepWithin
       /\ includeExpired \/ ends >= 0

\* A slip: an unknown end sorts first.
Urgency_UnknownFirst(ends) == IF ends = UnknownEnd THEN -(SweepWithin + 2) ELSE ends

\* The sort key: unknown ends come last.
Urgency(ends) == IF ends = UnknownEnd THEN SweepWithin + 2 ELSE ends

\* collectUnmappableMarkets, as the positions of what it lists.
CollectUnmappable(markets, includeExpired) ==
    LET listed == {i \in DOMAIN markets : ~markets[i].mappable /\ InWindow(markets[i].ends, includeExpired)}
    IN SetToSortSeq(listed, LAMBDA i, j : \/ Urgency(markets[i].ends) < Urgency(markets[j].ends)
                                          \/ Urgency(markets[i].ends) = Urgency(markets[j].ends) /\ i < j)

\* adaptersFor: ids the sweep builds no adapter for are dropped.
SweepAdapters(ids) == ids \cap {"binance", "coingecko"}

\* main: a stored market gets the params the file has for it, if any, and is
\* checked against these adapters and their registry.
SweepVerdict(stored, given, ids, o) ==
    Validate([stored EXCEPT !.params = given], SweepAdapters(ids), SweepAdapters(ids), o)

-----------------------------------------------------------------------------
\* The order of the adapters.

\* A slip: tags select adapters.
SelectAdapters_Filter(supported) ==
    LET tagged == SelectSeq(supported, LAMBDA a : a.tagged)
    IN IF tagged = <<>> THEN supported ELSE tagged

\* selectAdaptersForMarket: those whose id or tags the market names go first.
SelectAdapters(supported) ==
    SelectSeq(supported, LAMBDA a : a.tagged) \o SelectSeq(supported, LAMBDA a : ~a.tagged)

AdapterLists == UNION {{[i \in 1..n |-> [id |-> i, tagged |-> t[i]]] : t \in [1..n -> BOOLEAN]} :
                         n \in 0..MaxAdapters}

-----------------------------------------------------------------------------
AdapterSets == {NotGiven} \cup SUBSET DOMAIN AdapterCategory
MappingQuestions ==
    [about : {"mapping"}, market : MappedMarkets, adapters : AdapterSets,
     registry : {NotGiven, {"binance"}}, env : Overrides, file : {NoOverride} \cup {o \in Overrides : o.symbols = {}}]
    \cup [about : {"sweep"}, markets : UNION {[1..n -> SweptMarkets] : n \in 0..MaxSwept}, expired : BOOLEAN]
    \cup [about : {"stored"}, market : StoredMarkets, ids : SUBSET {"binance", "coinmarketcap", "coingecko"},
          overrides : Overrides]
    \cup [about : {"select"}, supported : AdapterLists]

MappingInit == question = [about |-> "nothing"]
AskMapping == \E q \in MappingQuestions : question' = q
MappingNext == question.about = "nothing" /\ AskMapping

MappingAsked == Validate(question.market, question.adapters, question.registry,
                         MergeOverride(question.env, question.file))

\* What the operator adds in one source never makes a market unmappable that
\* the other source made mappable.
AdditionsOnlyHelp ==
    (question.about = "mapping" /\ question.file.unsupported = {} /\
       Validate(question.market, question.adapters, question.registry, question.env).mappable)
        => MappingAsked.mappable

\* Where no live adapter claims a market, the verdict does not depend on
\* whether the category comes from the database or from the oracle.
StoredCategoryIsRead ==
    (question.about = "mapping" /\ question.market.category \in {"Crypto", "Politics"}) =>
        LET o == MergeOverride(question.env, question.file) IN
        \/ question.market.params = Absent
        \/ Validate(question.market, NotGiven, question.registry, o)
             = Validate([question.market EXCEPT !.category = Lower(@)], NotGiven, question.registry, o)

\* What the registry calls resolvable is not a symbol the operator blocked, in
\* whichever source it was blocked.
BlockedStaysBlocked ==
    (question.about = "mapping" /\ MappingAsked.mappable /\ MappingAsked.by = {}
       /\ Lower(question.market.category) = "crypto")
        => question.market.symbol \notin question.env.unsupported \cup question.file.unsupported

\* A market whose params the sweep was not given is never passed as fine, not
\* even one an override serves.
UnclassifiedIsReported ==
    (question.about = "stored" /\ question.market.params = Absent) =>
        ~SweepVerdict(question.market, Absent, question.ids, question.overrides).mappable

\* The sweep lists every unmappable market of its window once, most urgent
\* first; one whose end is unknown is never left out, nor in front.
SweepIsComplete ==
    question.about = "sweep" =>
        LET list == CollectUnmappable(question.markets, question.expired)
            ends(i) == question.markets[list[i]].ends IN
        /\ IsInjective(list)
        /\ \A i \in DOMAIN question.markets :
              (~question.markets[i].mappable /\ question.markets[i].ends \in {UnknownEnd} \cup 0..SweepWithin)
                  => i \in Range(list)
        /\ \A i, j \in DOMAIN list : i < j =>
              ends(j) = UnknownEnd \/ (ends(i) # UnknownEnd /\ ends(i) <= ends(j))

\* Tags change the order in which sources are asked, never which: every
\* supporting adapter is asked once, tagged ones first, each group in order.
TagsOnlyReorder ==
    question.about = "select" =>
        LET s == SelectAdapters(question.supported) IN
        /\ Len(s) = Len(question.supported) /\ Range(s) = Range(question.supported)
        /\ \A i, j \in DOMAIN s : i < j =>
              (s[i].tagged /\ ~s[j].tagged) \/ (s[i].tagged = s[j].tagged /\ s[i].id < s[j].id)

-----------------------------------------------------------------------------
(***************************************************************************)
(* What the oracle's adapters read from a provider's answer,               *)
(* oracle/src/adapters: when the quote was observed and what an old one is *)
(* worth (freshness.ts), which outcome and confidence a payload has        *)
(* (normalize.ts, decimalCompare.ts), which failures are retried and when  *)
(* (errors.ts, http.ts, httpRetry.ts).                                     *)
(*                                                                         *)
(* Confidence is in percent.  Times are in ticks, a second is two of them. *)
(* question is one input of one of these functions.                        *)
(***************************************************************************)

CONSTANTS ReadAt,          \* now
          SecondsBound,    \* SECONDS_UPPER_BOUND_MS: a smaller number is in seconds
          FutureTolerance, \* FUTURE_TOLERANCE_MS
          ToFixed,         \* the decimals a threshold keeps at least
          MaxDigits        \* bound: digits of a decimal, as a number

Nothing == "nothing"
AtMost(a, b) == IF a <= b THEN a ELSE b
AtLeast(a, b) == IF a >= b THEN a ELSE b

-----------------------------------------------------------------------------
\* When a quote was observed.  A field is a number (of seconds or of ticks), a
\* date, or nothing that can be read.

Fields == [kind : {"number", "date"}, value : 0 .. 2 * ReadAt] \cup {[kind |-> "junk", value |-> 0]}
Unread == -1

\* A slip: every number is taken for ticks.
NormalizeEpoch_Ticks(v) == IF v <= 0 \/ v > ReadAt + FutureTolerance THEN Unread ELSE v

\* normalizeEpoch: seconds are scaled; a time in the future is not read.
NormalizeEpoch(v) ==
    LET t == IF v < SecondsBound THEN 2 * v ELSE v
    IN IF v <= 0 \/ t > ReadAt + FutureTolerance THEN Unread ELSE t

ReadField(f) == CASE f.kind = "number" -> NormalizeEpoch(f.value)
                  [] f.kind = "date" -> f.value
                  [] OTHER -> Unread

\* extractTimestampMs: the first field, in order of preference, that is read.
ExtractTimestamp(fields) ==
    LET found == {i \in DOMAIN fields : ReadField(fields[i]) # Unread}
    IN IF found = {} THEN Unread ELSE ReadField(fields[Min(found)])

-----------------------------------------------------------------------------
\* What it is worth.

\* resolveFreshnessPolicy: a staleness bound past the age bound is lowered to it.
Policies == [maxAge : 1..4, staleAfter : 1..4, stale : {0, 50, 100}, untimed : {0, 50}]
ResolvePolicy(p) == [p EXCEPT !.staleAfter = AtMost(@, p.maxAge)]

\* A slip: an expired quote is judged as a stale one.
Ceiling_StaleFirst(observed, policy) ==
    IF observed = Unread THEN policy.untimed
    ELSE LET age == AtLeast(0, ReadAt - observed)
         IN CASE age > policy.staleAfter -> policy.stale
              [] age > policy.maxAge -> 0
              [] OTHER -> 100

\* assessQuote
Ceiling(observed, policy) ==
    IF observed = Unread THEN policy.untimed
    ELSE LET age == AtLeast(0, ReadAt - observed)
         IN CASE age > policy.maxAge -> 0
              [] age > policy.staleAfter -> policy.stale
              [] OTHER -> 100

\* applyConfidenceCeiling
Capped(confidence, ceiling) == AtLeast(0, AtMost(confidence, ceiling))

-----------------------------------------------------------------------------
\* Outcome and confidence.  A field of a payload holds a number, or it is
\* null, of another type or not finite: Broken.  An optional one may be Missing.

Broken == -100
Missing == -1000
Numbers == (-1..3) \cup {Broken}
Flags == {"true", "false", "broken"}
Rejected == [outcome |-> Nothing, confidence |-> 0]
Clamp01(percent) == AtLeast(0, AtMost(100, percent))
Side(is) == IF is THEN "yes" ELSE "no"

\* A slip: the two comparators both hold at the threshold.
Holds_Both(comparator, price, threshold) ==
    IF comparator = "gte" THEN price >= threshold ELSE price <= threshold

\* gte is at or above the threshold, lte strictly below it.
Holds(comparator, price, threshold) ==
    IF comparator = "gte" THEN price >= threshold ELSE price < threshold

AbsOf(n) == IF n < 0 THEN -n ELSE n

\* normalizeCrypto: 50 at the threshold, 100 from 5% of it on (the distances of
\* the model's integers are 0 or further than that).
NormalizeCrypto(q) ==
    IF q.price = Broken \/ q.threshold \in {Broken, 0} \/ q.comparator = Nothing THEN Rejected
    ELSE [outcome |-> Side(Holds(q.comparator, q.price, q.threshold)),
          confidence |-> Capped(50 + 50 * AtMost(AbsOf(q.price - q.threshold), 1), q.ceiling)]

\* normalizeCryptoQuote: no exception, but no confidence either.
NormalizeQuote(q) ==
    IF q.price = Broken \/ q.threshold = Broken THEN [outcome |-> "no", confidence |-> 0]
    ELSE [outcome |-> Side(Holds(q.comparator, q.price, q.threshold)), confidence |-> Capped(100, q.ceiling)]

\* A slip: a broken source confidence counts as none.
NormalizeSports_Lenient(final, outcome, given) ==
    IF final = "broken" \/ outcome = "broken" THEN Rejected
    ELSE [outcome |-> Side(outcome = "true"),
          confidence |-> ((IF final = "true" THEN 100 ELSE 70)
                            * (IF given \in {Missing, Broken} THEN 100 ELSE Clamp01(given))) \div 100]

\* normalizeSports: an absent source confidence is none, a broken one is not.
NormalizeSports(final, outcome, given) ==
    IF final = "broken" \/ outcome = "broken" \/ given = Broken THEN Rejected
    ELSE [outcome |-> Side(outcome = "true"),
          confidence |-> ((IF final = "true" THEN 100 ELSE 70)
                            * (IF given = Missing THEN 100 ELSE Clamp01(given))) \div 100]

\* normalizePolitics, normalizeScience
NormalizeClaim(outcome, given) ==
    IF outcome = "broken" \/ given \in {Missing, Broken} THEN Rejected
    ELSE [outcome |-> Side(outcome = "true"), confidence |-> Clamp01(given)]

-----------------------------------------------------------------------------
\* Decimals: digits / 10^scale.

Pow10(n) == CASE n = 0 -> 1 [] n = 1 -> 10 [] n = 2 -> 100 [] n = 3 -> 1000
Decimals == [digits : 0..MaxDigits, scale : 0..3]

\* A slip: the two are not brought to the same scale.
CompareAtLeast_Unscaled(value, threshold) == value.digits >= threshold.digits

\* compareDecimal, >=: the threshold is rounded to max(scale, ToFixed) places,
\* and both are padded to the larger scale.
CompareAtLeast(value, threshold) ==
    LET places == AtLeast(value.scale, ToFixed)
        rounded == IF threshold.scale <= places THEN threshold.digits * Pow10(places - threshold.scale)
                   ELSE (threshold.digits + 5 * Pow10(threshold.scale - places - 1)) \div Pow10(threshold.scale - places)
    IN value.digits * Pow10(places - value.scale) >= rounded

-----------------------------------------------------------------------------
\* Failures.

Statuses == {200, 400, 401, 403, 404, 429, 500, 503}

\* A slip: a refused key is a transient failure.
KindOf_AuthIsNetwork(status, retryAfter) ==
    CASE status = 200 -> Nothing
      [] status = 429 \/ (status = 403 /\ retryAfter # Unread) -> "quota"
      [] status \in {401, 403} \/ status >= 500 -> "network"
      [] OTHER -> "data"

\* classifySourceResponse
KindOf(status, retryAfter) ==
    CASE status = 200 -> Nothing
      [] status = 429 \/ (status = 403 /\ retryAfter # Unread) -> "quota"
      [] status \in {401, 403} -> "auth"
      [] status >= 500 -> "network"
      [] OTHER -> "data"

\* AdapterError.retryable and httpRetry's isRetryableStatus.
RetryableKind(kind) == kind = "network"
RetryableStatus(status) == status = 429 \/ status >= 500

\* retryDelayMs: what the provider asks for goes before the backoff.
RetryDelay(asked, backoff) == IF asked # Unread THEN asked ELSE backoff

-----------------------------------------------------------------------------
ReadingQuestions ==
    [about : {"time"}, fields : UNION {[1..n -> Fields] : n \in 0..2}, policy : {p \in Policies : p.stale >= p.untimed}]
    \cup [about : {"crypto"}, price : Numbers, threshold : Numbers, comparator : {"gte", "lte"},
          ceiling : {0, 50, 100}]
    \cup [about : {"sports"}, final : Flags, outcome : Flags, given : {Missing, Broken, -10, 0, 40, 100, 300}]
    \cup [about : {"decimal"}, value : Decimals, threshold : Decimals]
    \cup [about : {"failure"}, status : Statuses, retryAfter : -1..3, backoff : 1..2]

ReadingInit == question = [about |-> Nothing]
AskReading == \E q \in ReadingQuestions : question' = q
ReadingNext == question.about = Nothing /\ AskReading

\* The same instant is read from seconds and from milliseconds, and a number
\* never reads as a time further ahead than the tolerance.
UnitsAgree ==
    question.about = "time" =>
        \A v \in 1 .. ReadAt \div 2 :
            (v < SecondsBound /\ 2 * v >= SecondsBound) => NormalizeEpoch(v) = NormalizeEpoch(2 * v)

\* An older quote is never worth more than a newer one, whatever bounds the
\* policy was given, and one past the age bound is worth nothing.
AgeNeverHelps ==
    question.about = "time" =>
        LET p == ResolvePolicy(question.policy)
            observed == ExtractTimestamp(question.fields) IN
        /\ \A t \in 0 .. ReadAt : observed # Unread /\ t <= observed => Ceiling(t, p) <= Ceiling(observed, p)
        /\ observed # Unread /\ observed + question.policy.maxAge < ReadAt => Ceiling(observed, p) = 0

\* The two comparators are complements, also at the threshold: two markets on
\* the same price with opposite questions never resolve alike.
ComparatorsExclude ==
    question.about = "crypto" =>
        LET other == [question EXCEPT !.comparator = IF @ = "gte" THEN "lte" ELSE "gte"]
            mine == NormalizeCrypto(question)
            its == NormalizeCrypto(other) IN
        /\ mine.confidence = its.confidence
        /\ mine.outcome # Nothing => mine.outcome # its.outcome /\ mine.outcome = NormalizeQuote(question).outcome

\* A payload with a broken field yields no outcome that carries confidence.
BrokenCarriesNothing ==
    /\ (question.about = "crypto" /\ Broken \in {question.price, question.threshold}) =>
           NormalizeCrypto(question) = Rejected /\ NormalizeQuote(question).confidence = 0
    /\ (question.about = "sports" /\ ("broken" \in {question.final, question.outcome} \/ question.given = Broken)) =>
           NormalizeSports(question.final, question.outcome, question.given) = Rejected
    /\ question.about = "sports" =>
           /\ NormalizeSports(question.final, question.outcome, question.given).confidence \in 0..100
           /\ NormalizeClaim(question.outcome, question.given).confidence \in 0..100

\* Prices are compared with thresholds of up to ToFixed decimals exactly.
DecimalsAreExact ==
    (question.about = "decimal" /\ question.threshold.scale <= ToFixed) =>
        (CompareAtLeast(question.value, question.threshold)
           <=> question.value.digits * Pow10(question.threshold.scale)
                 >= question.threshold.digits * Pow10(question.value.scale))

\* The two places that say which failures are transient agree on every status,
\* but for an exhausted quota; and a retry never comes before the provider's own
\* time for it.
RetryRulesAgree ==
    (question.about = "failure" /\ KindOf(question.status, question.retryAfter) # "quota") =>
        /\ RetryableKind(KindOf(question.status, question.retryAfter)) <=> RetryableStatus(question.status)
        /\ RetryDelay(question.retryAfter, question.backoff) >= question.retryAfter
=============================================================================
