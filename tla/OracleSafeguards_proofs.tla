----------------------- MODULE OracleSafeguards_proofs ------------------------
(***************************************************************************)
(* What keeps the oracle's daemons from harm, for any number of keys,      *)
(* providers, callers and markets: the signing key is one the contract     *)
(* accepts, a credential submits for its provider alone, loads are let     *)
(* through within a provider's quota and their requests are bounded, and   *)
(* no bond and no finalization is sent that its checks do not allow.       *)
(***************************************************************************)
EXTENDS OracleKeys, ProviderCalls, CouncilBots, FiniteSetTheorems,
        SequenceTheorems, SumFacts, TLAPS

-----------------------------------------------------------------------------
(* The signing key *)

\* While a rotation is under way the outgoing key is still registered, and is
\* not the incoming one; only then may it be pending without a failed retirement.
\* SignerIsRegistered alone does not say that rolling back finds a registered key, nor
\* that retiring the outgoing key leaves the active one.
RotationInv ==
    /\ rotation.stage \in {"idle", "registering", "verifying", "overlap"}
    /\ activeKey \in registered /\ activeKey \notin pendingKeys
    /\ rotation.stage # "idle" => rotation.incoming # rotation.outgoing
    /\ rotation.stage \in {"idle", "registering"} => pendingKeys \subseteq unretired
    /\ rotation.stage = "registering" => rotation.outgoing = activeKey
    /\ rotation.stage \in {"verifying", "overlap"} =>
          /\ rotation.incoming = activeKey /\ rotation.outgoing \in registered
          /\ pendingKeys \subseteq unretired \cup {rotation.outgoing}

LEMMA RotationInitially == RotationInit => RotationInv
  BY SMT DEF RotationInit, RotationInv, NoRotation

LEMMA RotationStarts ==
    ASSUME RotationInv, StartRotation PROVE RotationInv'
  BY SMT DEF RotationInv, StartRotation

LEMMA RegistrationKeeps ==
    ASSUME RotationInv, RegisterIncoming PROVE RotationInv'
<1>1. /\ rotation'.stage = "verifying"
      /\ rotation'.incoming = rotation.incoming /\ rotation'.outgoing = rotation.outgoing
  BY DEF RegisterIncoming, RotationInv
<1> QED BY <1>1 DEF RotationInv, RegisterIncoming, PendingAfter

LEMMA FailedRegistrationKeeps ==
    ASSUME RotationInv, NEW landed, RegisterFails(landed) PROVE RotationInv'
  BY DEF RotationInv, RegisterFails, NoRotation

LEMMA VerificationKeeps ==
    ASSUME RotationInv, VerifyIncoming PROVE RotationInv'
<1>1. /\ rotation'.stage = "overlap"
      /\ rotation'.incoming = rotation.incoming /\ rotation'.outgoing = rotation.outgoing
  BY DEF VerifyIncoming, RotationInv
<1> QED BY <1>1 DEF RotationInv, VerifyIncoming

LEMMA RollbackKeeps ==
    ASSUME RotationInv, VerifyFails PROVE RotationInv'
  BY DEF RotationInv, VerifyFails, NoRotation, PendingAfter

LEMMA RetirementKeeps ==
    ASSUME RotationInv, RetireOutgoing PROVE RotationInv'
  BY DEF RotationInv, RetireOutgoing, NoRotation

LEMMA FailedRetirementKeeps ==
    ASSUME RotationInv, NEW landed, RetireFails(landed) PROVE RotationInv'
  BY DEF RotationInv, RetireFails, NoRotation

LEMMA RotationStepKeeps == RotationInv /\ [RotationNext]_rotationVars => RotationInv'
<1> SUFFICES ASSUME RotationInv, [RotationNext]_rotationVars PROVE RotationInv'
  OBVIOUS
<1>1. ASSUME NEW key \in Keys, ReplaceSecret(key) PROVE RotationInv'
  BY <1>1 DEF ReplaceSecret, RotationInv
<1>2. CASE UNCHANGED rotationVars
  BY <1>2 DEF rotationVars, RotationInv
<1>3. CASE RotationStep
  BY <1>3, RotationStarts, RegistrationKeeps, FailedRegistrationKeeps, VerificationKeeps,
     RollbackKeeps, RetirementKeeps, FailedRetirementKeeps DEF RotationStep
<1> QED BY <1>1, <1>2, <1>3 DEF RotationNext

\* A rotation in progress keeps both its keys registered until it retires one.
THEOREM RotationInvariant == RotationSpec => []RotationInv
<1> QED BY RotationInitially, RotationStepKeeps, PTL DEF RotationSpec

\* key-rotation.ts: however registration, verification, rollback and retirement
\* fail, and whether or not a failed call reached the chain, the oracle signs with
\* a key the contract accepts, and between rotations it accepts a former key only
\* where its retirement failed.
THEOREM SignerAlwaysRegistered == RotationSpec => [](SignerIsRegistered /\ OnlyUnretiredLinger)
<1>1. RotationInv => SignerIsRegistered /\ OnlyUnretiredLinger
  BY DEF RotationInv, SignerIsRegistered, OnlyUnretiredLinger
<1> QED BY <1>1, RotationInvariant, PTL

-----------------------------------------------------------------------------
(* Who submits for whom *)

\* What is left of a list, and where, when entry i is deleted.
LEMMA RemovedEntry ==
    ASSUME NEW S, NEW s \in Seq(S), NEW i \in DOMAIN s
    PROVE  /\ RemoveAt(s, i) \in Seq(S) /\ Len(RemoveAt(s, i)) = Len(s) - 1
           /\ \A j \in 1 .. Len(s) - 1 :
                 RemoveAt(s, i)[j] = IF j < i THEN s[j] ELSE s[j + 1]
<1> DEFINE head == SubSeq(s, 1, i - 1)
           tail == SubSeq(s, i + 1, Len(s))
<1>1. Len(s) \in Nat /\ i \in 1 .. Len(s) /\ \A k \in 1 .. Len(s) : s[k] \in S
  BY LenProperties
<1>2. /\ head \in Seq(S) /\ Len(head) = i - 1
      /\ \A j \in 1 .. i - 1 : head[j] = s[j]
  <2>1. \A k \in 1 .. i - 1 : s[k] \in S
    BY <1>1
  <2>2. 1 \in Int /\ i - 1 \in Int
    BY <1>1
  <2>3. /\ head \in Seq(S) /\ Len(head) = IF 1 <= i - 1 THEN i - 1 - 1 + 1 ELSE 0
        /\ \A j \in 1 .. i - 1 - 1 + 1 : head[j] = s[1 + j - 1]
    BY <2>1, <2>2, SubSeqProperties
  <2> HIDE DEF head
  <2> QED BY <1>1, <2>3
<1>3. /\ tail \in Seq(S) /\ Len(tail) = Len(s) - i
      /\ \A j \in 1 .. Len(s) - i : tail[j] = s[i + j]
  <2>1. \A k \in i + 1 .. Len(s) : s[k] \in S
    BY <1>1
  <2>2. i + 1 \in Int /\ Len(s) \in Int
    BY <1>1
  <2>3. /\ tail \in Seq(S) /\ Len(tail) = IF i + 1 <= Len(s) THEN Len(s) - (i + 1) + 1 ELSE 0
        /\ \A j \in 1 .. Len(s) - (i + 1) + 1 : tail[j] = s[(i + 1) + j - 1]
    BY <2>1, <2>2, SubSeqProperties
  <2> HIDE DEF tail
  <2>4. Len(tail) = Len(s) - i
    BY <1>1, <2>3
  <2>5. ASSUME NEW j \in 1 .. Len(s) - i PROVE tail[j] = s[i + j]
    <3>1. j \in 1 .. Len(s) - (i + 1) + 1 /\ (i + 1) + j - 1 = i + j
      BY <1>1
    <3>2. tail[j] = s[(i + 1) + j - 1]
      BY <2>3, <3>1
    <3> QED BY <3>1, <3>2
  <2> QED BY <2>3, <2>4, <2>5
<1>4. RemoveAt(s, i) = head \o tail
  BY DEF RemoveAt
<1> HIDE DEF head, tail
<1>5. /\ head \o tail \in Seq(S) /\ Len(head \o tail) = Len(head) + Len(tail)
      /\ \A j \in 1 .. Len(head) + Len(tail) :
            (head \o tail)[j] = IF j <= Len(head) THEN head[j] ELSE tail[j - Len(head)]
  BY <1>2, <1>3, ConcatProperties
<1>6. ASSUME NEW j \in 1 .. Len(s) - 1
      PROVE  (head \o tail)[j] = IF j < i THEN s[j] ELSE s[j + 1]
  <2>1. CASE j < i
    <3>1. j \in 1 .. Len(head) + Len(tail) /\ j <= Len(head) /\ j \in 1 .. i - 1
      BY <1>1, <1>2, <1>3, <2>1
    <3> QED BY <1>2, <1>5, <2>1, <3>1
  <2>2. CASE ~ (j < i)
    <3>1. /\ j \in 1 .. Len(head) + Len(tail) /\ ~ (j <= Len(head))
          /\ j - Len(head) \in 1 .. Len(s) - i /\ i + (j - Len(head)) = j + 1
      BY <1>1, <1>2, <1>3, <2>2
    <3>2. (head \o tail)[j] = tail[j - Len(head)]
      BY <1>5, <3>1
    <3>3. tail[j - Len(head)] = s[i + (j - Len(head))]
      BY <1>3, <3>1
    <3> QED BY <2>2, <3>1, <3>2, <3>3
  <2> QED BY <2>1, <2>2
<1>7. Len(head) + Len(tail) = Len(s) - 1
  BY <1>1, <1>2, <1>3
<1> QED BY <1>4, <1>5, <1>6, <1>7

\* The entries left are those of the other places.
LEMMA OtherEntriesStay ==
    ASSUME NEW S, NEW s \in Seq(S), NEW i \in DOMAIN s
    PROVE  /\ \A j \in DOMAIN RemoveAt(s, i) : \E k \in DOMAIN s : k # i /\ RemoveAt(s, i)[j] = s[k]
           /\ \A k \in DOMAIN s : k # i => \E j \in DOMAIN RemoveAt(s, i) : RemoveAt(s, i)[j] = s[k]
           /\ \A j, l \in DOMAIN RemoveAt(s, i) : j # l =>
                 \E k, n \in DOMAIN s : /\ k # n
                                        /\ RemoveAt(s, i)[j] = s[k] /\ RemoveAt(s, i)[l] = s[n]
<1> DEFINE r == RemoveAt(s, i)
           from(j) == IF j < i THEN j ELSE j + 1
<1>a. /\ r \in Seq(S) /\ Len(r) = Len(s) - 1
      /\ \A j \in 1 .. Len(s) - 1 : r[j] = IF j < i THEN s[j] ELSE s[j + 1]
  BY RemovedEntry, Zenon
<1> HIDE DEF r
<1>1. /\ r \in Seq(S) /\ Len(r) = Len(s) - 1 /\ Len(s) \in Nat /\ DOMAIN s = 1 .. Len(s)
      /\ \A j \in 1 .. Len(s) - 1 : r[j] = IF j < i THEN s[j] ELSE s[j + 1]
  BY <1>a
<1>2. DOMAIN r = 1 .. Len(s) - 1 /\ i \in 1 .. Len(s)
  BY <1>1
<1>3. \A j \in DOMAIN r : from(j) \in DOMAIN s /\ from(j) # i /\ r[j] = s[from(j)]
  BY <1>1, <1>2
<1>4. \A j, l \in DOMAIN r : j # l => from(j) # from(l)
  BY <1>2
<1>5. \A k \in DOMAIN s : k # i => \E j \in DOMAIN r : from(j) = k
  <2> SUFFICES ASSUME NEW k \in DOMAIN s, k # i PROVE \E j \in DOMAIN r : from(j) = k
    OBVIOUS
  <2>1. CASE k < i
    <3>1. k \in DOMAIN r /\ from(k) = k
      BY <1>1, <1>2, <2>1
    <3> QED BY <3>1
  <2>2. CASE k > i
    <3>1. k - 1 \in DOMAIN r /\ from(k - 1) = k
      BY <1>1, <1>2, <2>2
    <3> QED BY <3>1
  <2> QED BY <1>1, <1>2, <2>1, <2>2
<1> HIDE DEF from
<1> QED BY <1>3, <1>4, <1>5 DEF r

Credentials(entries) == {Credential(entries[k]) : k \in DOMAIN entries}

\* A configuration with entries is accepted when each of them reads, none twice.
LEMMA AcceptedLists ==
    ASSUME NEW entries, entries # <<>>, NEW production
    PROVE  /\ Parse(entries, production).accepted =>
                 /\ ~ Duplicates(entries)
                 /\ \A k \in DOMAIN entries : ReadsAs(entries[k], production)
                 /\ Parse(entries, production).credentials = Credentials(entries)
           /\ (~ Duplicates(entries) /\ \A k \in DOMAIN entries : ReadsAs(entries[k], production))
                 => Parse(entries, production).credentials = Credentials(entries)
<1>1. CASE Duplicates(entries) \/ \E k \in DOMAIN entries : ~ ReadsAs(entries[k], production)
  <2>1. Parse(entries, production) = NoConfig /\ ~ NoConfig.accepted
    BY <1>1 DEF Parse, NoConfig
  <2> QED BY <1>1, <2>1
<1>2. CASE ~ (Duplicates(entries) \/ \E k \in DOMAIN entries : ~ ReadsAs(entries[k], production))
  <2>1. Parse(entries, production) = [accepted |-> TRUE, credentials |-> Credentials(entries)]
    BY <1>2 DEF Parse, Credentials
  <2> QED BY <1>2, <2>1
<1> QED BY <1>1, <1>2

\* Without a wildcard, a key submits for the providers whose entries name it.
LEMMA ListedKeysSubmit ==
    ASSUME NEW entries, \A k \in DOMAIN entries : entries[k].provider # Wildcard,
           NEW key, NEW p
    PROVE  MaySubmit(key, Credentials(entries), p)
               <=> \E k \in DOMAIN entries : entries[k].key = key /\ entries[k].provider = p
<1>1. \A k \in DOMAIN entries : /\ Credential(entries[k]).key = entries[k].key
                                /\ Credential(entries[k]).provider = entries[k].provider
  BY DEF Credential
<1>2. MaySubmit(key, Credentials(entries), p)
          <=> \E k \in DOMAIN entries : /\ Credential(entries[k]).key = key
                                        /\ Credential(entries[k]).provider \in {Wildcard, p}
  BY DEF MaySubmit, Resolved, CanSubmitFor, Credentials
<1> QED BY <1>1, <1>2

\* The key of entry i submits for its provider alone, and is hashed in production.
Attributed(entries, production, i, p) ==
    LET config == Parse(entries, production) IN
    /\ MaySubmit(entries[i].key, config.credentials, p) <=> p = entries[i].provider
    /\ production => \A c \in config.credentials : c.hashed

LEMMA AcceptedKeysAttribute ==
    ASSUME NEW entries, NEW production, Parse(entries, production).accepted,
           NEW i \in DOMAIN entries, NEW p
    PROVE  Attributed(entries, production, i, p)
<1>1. entries # <<>>
  OBVIOUS
<1>2. /\ ~ Duplicates(entries)
      /\ \A k \in DOMAIN entries : ReadsAs(entries[k], production)
      /\ Parse(entries, production).credentials = Credentials(entries)
  BY <1>1, AcceptedLists
<1>3. /\ \A k \in DOMAIN entries : entries[k].provider # Wildcard
      /\ production => \A k \in DOMAIN entries : entries[k].form = "sha256"
  BY <1>2 DEF ReadsAs
<1>4. \A k \in DOMAIN entries : entries[k].key = entries[i].key => k = i
  BY <1>2 DEF Duplicates
<1>5. MaySubmit(entries[i].key, Credentials(entries), p)
          <=> \E k \in DOMAIN entries : entries[k].key = entries[i].key /\ entries[k].provider = p
  BY <1>3, ListedKeysSubmit
<1>6. ASSUME production, NEW c \in Credentials(entries) PROVE c.hashed
  <2>1. PICK k \in DOMAIN entries : c = Credential(entries[k])
    BY DEF Credentials
  <2>2. entries[k].form = "sha256"
    BY <1>3, <1>6
  <2>3. c.hashed <=> entries[k].form = "sha256"
    BY <2>1, Zenon DEF Credential
  <2> QED BY <2>2, <2>3
<1> QED BY <1>2, <1>4, <1>5, <1>6 DEF Attributed

LEMMA DeletingRevokes ==
    ASSUME NEW entries \in Seq(Entries), Parse(entries, TRUE).accepted,
           NEW i \in DOMAIN entries, NEW key, NEW p
    PROVE  LET after == Parse(RemoveAt(entries, i), TRUE) IN
           IF p = entries[i].provider THEN ~ MaySubmit(key, after.credentials, p)
           ELSE MaySubmit(key, after.credentials, p)
                    <=> MaySubmit(key, Parse(entries, TRUE).credentials, p)
<1> DEFINE left == RemoveAt(entries, i)
<1>1. entries # <<>>
  OBVIOUS
<1>2. /\ ~ Duplicates(entries)
      /\ \A k \in DOMAIN entries : ReadsAs(entries[k], TRUE)
      /\ Parse(entries, TRUE).credentials = Credentials(entries)
  BY <1>1, AcceptedLists
<1>3. /\ \A j \in DOMAIN left : \E k \in DOMAIN entries : k # i /\ left[j] = entries[k]
      /\ \A k \in DOMAIN entries : k # i => \E j \in DOMAIN left : left[j] = entries[k]
      /\ \A j, l \in DOMAIN left : j # l =>
            \E k, n \in DOMAIN entries : k # n /\ left[j] = entries[k] /\ left[l] = entries[n]
  BY OtherEntriesStay
<1>4. /\ \A k \in DOMAIN entries : entries[k].provider # Wildcard
      /\ \A k \in DOMAIN entries : k # i => entries[k].provider # entries[i].provider
  BY <1>2 DEF ReadsAs, Duplicates
<1> HIDE DEF left
<1>5. Parse(left, TRUE).credentials = Credentials(left)
  <2>1. CASE left = <<>>
    <3>1. Parse(left, TRUE) = NoConfig
      BY <2>1 DEF Parse, Unset
    <3>2. DOMAIN left = {}
      BY <2>1
    <3>3. Credentials(left) = {}
      BY <3>2 DEF Credentials
    <3>4. NoConfig.credentials = {}
      BY DEF NoConfig
    <3> QED BY <3>1, <3>3, <3>4
  <2>2. CASE left # <<>>
    <3>1. \A j \in DOMAIN left : ReadsAs(left[j], TRUE)
      BY <1>2, <1>3
    <3>2. ~ Duplicates(left)
      BY <1>2, <1>3 DEF Duplicates
    <3> QED BY <2>2, <3>1, <3>2, AcceptedLists
  <2> QED BY <2>1, <2>2
<1>6. MaySubmit(key, Credentials(entries), p)
          <=> \E k \in DOMAIN entries : entries[k].key = key /\ entries[k].provider = p
  BY <1>4, ListedKeysSubmit
<1>7. MaySubmit(key, Credentials(left), p)
          <=> \E j \in DOMAIN left : left[j].key = key /\ left[j].provider = p
  <2>1. \A j \in DOMAIN left : left[j].provider # Wildcard
    BY <1>3, <1>4
  <2> QED BY <2>1, ListedKeysSubmit
<1>8. (\E j \in DOMAIN left : left[j].key = key /\ left[j].provider = p)
          <=> \E k \in DOMAIN entries : k # i /\ entries[k].key = key /\ entries[k].provider = p
  BY <1>3
<1>9. CASE p = entries[i].provider
  <2>1. ~ MaySubmit(key, Credentials(left), p)
    BY <1>4, <1>7, <1>8, <1>9
  <2> QED BY <1>5, <1>9, <2>1 DEF left
<1>10. CASE p # entries[i].provider
  <2>1. MaySubmit(key, Credentials(left), p) <=> MaySubmit(key, Credentials(entries), p)
    BY <1>6, <1>7, <1>8, <1>10
  <2> QED BY <1>2, <1>5, <1>10, <2>1 DEF left
<1> QED BY <1>9, <1>10

LEMMA ListsAreSequences == SeqOf(Entries, 2) \subseteq Seq(Entries)
<1> SUFFICES ASSUME NEW q \in SeqOf(Entries, 2) PROVE q \in Seq(Entries)
  OBVIOUS
<1>1. PICK m \in 0 .. 2 : q \in [1 .. m -> Entries]
  BY Zenon DEF SeqOf
<1>2. m \in Nat
  OBVIOUS
<1> QED BY <1>1, <1>2, SeqDef, Zenon

\* oracleApiKeys.ts: a presented key submits for the provider of its entry and for
\* no other, a deleted entry revokes its provider and nobody else, and production
\* keeps no key in the clear, for any providers and keys.
THEOREM KeysAlwaysSayWhoSubmits == KeysSpec => []KeysSayWhoSubmits
<1> DEFINE Asked == question.about = "nothing" \/ question \in KeyQuestions
<1>1. KeysInit => Asked
  BY DEF KeysInit
<1>2. Asked /\ [KeysNext]_question => Asked'
  BY DEF KeysNext, AskKeys
<1>3. Asked => KeysSayWhoSubmits
  <2> SUFFICES ASSUME Asked, question.about = "keys" PROVE KeysAttribute /\ RevocationIsExact
    BY DEF KeysSayWhoSubmits, KeysAttribute, RevocationIsExact
  <2>1. question.entries \in Seq(Entries)
    BY ListsAreSequences DEF KeyQuestions
  <2>2. KeysAttribute
    <3> SUFFICES ASSUME Parse(question.entries, question.production).accepted,
                        NEW i \in DOMAIN question.entries, NEW p \in Providers
                 PROVE  Attributed(question.entries, question.production, i, p)
      BY DEF KeysAttribute, Attributed
    <3> QED BY AcceptedKeysAttribute, Zenon
  <2>3. RevocationIsExact
    BY <2>1, DeletingRevokes DEF RevocationIsExact
  <2> QED BY <2>2, <2>3
<1> QED BY <1>1, <1>2, <1>3, PTL DEF KeysSpec

\* The oracle's signing key and the providers' API keys together, each in step with
\* those who accept it.
THEOREM KeysAlwaysSound == RotationSpec /\ KeysSpec => []KeysAreSound
<1> QED BY SignerAlwaysRegistered, KeysAlwaysSayWhoSubmits, PTL DEF KeysAreSound

-----------------------------------------------------------------------------
(* Shared calls within a quota *)

Places == {"idle", "waiting", "served", "failed"}
Entry == [at : {"absent", "loading", "value"}, age : Nat]
Load == [at : {"none", "queued", "fetching"}, tries : 0 .. HttpRetries]
Call == [at : Places, key : QueryKeys \cup {"none"}, age : Nat]
Counts == [0 .. QuotaWindow -> Nat]

CallsTypeOK ==
    /\ cached \in [QueryKeys -> Entry]
    /\ loadOf \in [QueryKeys -> Load]
    /\ caller \in [FetchCallers -> Call]
    /\ slots \in Seq(Nat) /\ admitted \in Counts /\ sent \in Counts

\* A caller that waits was given no age yet: what it is handed is a fresh value.
LoadInv ==
    /\ \A k \in QueryKeys : (cached[k].at = "loading") <=> (loadOf[k].at # "none")
    /\ \A c \in FetchCallers :
          /\ caller[c].at = "waiting" =>
                caller[c].key \in QueryKeys /\ loadOf[caller[c].key].at # "none"
          /\ caller[c].at = "waiting" => caller[c].age = 0
          /\ caller[c].at = "served" => caller[c].age < CacheTtl

\* The limiter prunes only when a slot is asked for, and counts what is left of ages:
\* of whatever span up to the window, the reservations are the last ones of its list.
Tracks(ages, counts) ==
    /\ counts[0] = 0 /\ counts[QuotaWindow] <= Quota
    /\ \A t \in 0 .. QuotaWindow :
          /\ counts[t] <= Len(ages)
          /\ \A i \in 1 .. Len(ages) : ages[i] < t <=> i > Len(ages) - counts[t]

\* What a load, and what all of them may still send again.
LeftOf(load) == IF load.at = "fetching" THEN HttpRetries - load.tries ELSE 0
Left(loads) == SumFunctionOnSet([k \in QueryKeys |-> LeftOf(loads[k])], QueryKeys)
Most == HttpRetries * Cardinality(QueryKeys)

\* RequestsAreBounded, for every span, with what the loads under way may still add.
Spent(requests, counts, left) ==
    /\ requests[0] = 0
    /\ \A t \in 1 .. QuotaWindow : requests[t] + left <= (1 + HttpRetries) * counts[t] + Most

LimitInv == Tracks(slots, admitted) /\ Spent(sent, admitted, Left(loadOf))

\* CallsAreSound with the types and what the limiter keeps unpruned.
CallsInv == CallsTypeOK /\ LoadInv /\ LimitInv

-----------------------------------------------------------------------------
\* Below cuts the ages up to the first one that is recent enough.
LEMMA BelowCuts ==
    ASSUME NEW window \in Nat, NEW ages \in Seq(Nat)
    PROVE  \E cut \in 0 .. Len(ages) :
              /\ Below(window, ages) \in Seq(Nat)
              /\ Len(Below(window, ages)) = Len(ages) - cut
              /\ \A i \in 1 .. Len(ages) - cut : Below(window, ages)[i] = ages[cut + i]
              /\ \A j \in 1 .. cut : ages[j] >= window
              /\ cut < Len(ages) => ages[cut + 1] < window
<1> DEFINE First(i) == /\ \A j \in 1 .. i - 1 : ages[j] >= window
                       /\ i <= Len(ages) => ages[i] < window
           young == {i \in 1 .. Len(ages) + 1 : i <= Len(ages) => ages[i] < window}
<1>1. Len(ages) \in Nat /\ \A i \in 1 .. Len(ages) : ages[i] \in Nat
  BY LenProperties
<1>2. \E i \in 1 .. Len(ages) + 1 : First(i)
  <2>1. Len(ages) + 1 \in young /\ young \subseteq Nat
    BY <1>1
  <2>2. PICK i \in young : \A j \in young : i <= j
    BY <2>1, LeastOfNaturals
  <2>3. ASSUME NEW j \in 1 .. i - 1 PROVE ages[j] >= window
    <3>1. j \in 1 .. Len(ages) + 1 /\ j <= Len(ages) /\ ~ (i <= j)
      BY <1>1, <2>2
    <3>2. j \notin young
      BY <2>2, <3>1
    <3> QED BY <1>1, <3>1, <3>2
  <2>4. i \in 1 .. Len(ages) + 1 /\ (i <= Len(ages) => ages[i] < window)
    OBVIOUS
  <2>5. First(i)
    BY <2>3, <2>4
  <2> QED BY <2>4, <2>5
<1>3. PICK first \in 1 .. Len(ages) + 1 :
         First(first) /\ Below(window, ages) = SubSeq(ages, first, Len(ages))
  <2> DEFINE first == CHOOSE i \in 1 .. Len(ages) + 1 : First(i)
  <2>1. first \in 1 .. Len(ages) + 1 /\ First(first)
    <3> HIDE DEF First
    <3> QED BY <1>2
  <2>2. Below(window, ages) = SubSeq(ages, first, Len(ages))
    BY DEF Below
  <2> HIDE DEF First, first
  <2> QED BY <2>1, <2>2
<1> DEFINE cut == first - 1
<1>4. cut \in 0 .. Len(ages) /\ first = cut + 1
  BY <1>1
<1>5. /\ \A j \in 1 .. cut : ages[j] >= window
      /\ cut < Len(ages) => ages[cut + 1] < window
  BY <1>1, <1>3, <1>4
<1>6. /\ Below(window, ages) \in Seq(Nat)
      /\ Len(Below(window, ages)) = IF first <= Len(ages) THEN Len(ages) - first + 1 ELSE 0
      /\ \A i \in 1 .. Len(ages) - first + 1 : Below(window, ages)[i] = ages[first + i - 1]
  <2>1. first \in Int /\ Len(ages) \in Int /\ \A i \in first .. Len(ages) : ages[i] \in Nat
    BY <1>1
  <2> HIDE DEF First, cut
  <2>2. /\ SubSeq(ages, first, Len(ages)) \in Seq(Nat)
        /\ Len(SubSeq(ages, first, Len(ages)))
              = IF first <= Len(ages) THEN Len(ages) - first + 1 ELSE 0
        /\ \A i \in 1 .. Len(ages) - first + 1 :
              SubSeq(ages, first, Len(ages))[i] = ages[first + i - 1]
    BY <2>1, SubSeqProperties
  <2>3. Below(window, ages) = SubSeq(ages, first, Len(ages))
    BY <1>3
  <2> QED BY <2>2, <2>3, Zenon
<1> HIDE DEF First, cut
<1>7. Len(Below(window, ages)) = Len(ages) - cut
  BY <1>1, <1>4, <1>6
<1>8. ASSUME NEW i \in 1 .. Len(ages) - cut PROVE Below(window, ages)[i] = ages[cut + i]
  <2>1. i \in 1 .. Len(ages) - first + 1 /\ first + i - 1 = cut + i
    BY <1>1, <1>4
  <2> QED BY <1>6, <2>1
<1> QED BY <1>4, <1>5, <1>6, <1>7, <1>8

\* A list whose ages all change keeps its length.
LEMMA AgedList ==
    ASSUME NEW ages \in Seq(Nat), NEW aged, DOMAIN aged = DOMAIN ages,
           aged = [i \in DOMAIN aged |-> aged[i]], \A i \in DOMAIN ages : aged[i] \in Nat
    PROVE  aged \in Seq(Nat) /\ Len(aged) = Len(ages)
<1>1. Len(ages) \in Nat /\ DOMAIN ages = 1 .. Len(ages)
  BY LenProperties
<1>2. aged \in [1 .. Len(ages) -> Nat]
  BY <1>1
<1>3. aged \in Seq(Nat)
  BY <1>1, <1>2, SeqDef, Zenon
<1>4. Len(aged) \in Nat /\ DOMAIN aged = 1 .. Len(aged)
  BY <1>3, LenProperties
<1> QED BY <1>1, <1>3, <1>4

\* A longer span holds no fewer reservations.
LEMMA LongerSpans ==
    ASSUME NEW s \in Seq(Nat), NEW counts \in Counts, Tracks(s, counts),
           NEW t \in 0 .. QuotaWindow
    PROVE  counts[t] <= counts[QuotaWindow]
<1>1. /\ QuotaWindow \in Nat \ {0} /\ QuotaWindow \in 0 .. QuotaWindow /\ Len(s) \in Nat
      /\ t \in Nat /\ t <= QuotaWindow
  BY CallConstants, LenProperties
<1>2. PICK n \in Nat, m \in Nat, len \in Nat :
         n = counts[t] /\ m = counts[QuotaWindow] /\ len = Len(s)
  BY <1>1 DEF Counts
<1>3. /\ n <= len
      /\ \A i \in 1 .. len : s[i] < t <=> i > len - n
      /\ \A i \in 1 .. len : s[i] < QuotaWindow <=> i > len - m
      /\ \A i \in 1 .. len : s[i] \in Nat
  <2>1. n <= len
    BY <1>1, <1>2 DEF Tracks
  <2>2. \A i \in 1 .. len : s[i] < t <=> i > len - n
    BY <1>1, <1>2 DEF Tracks
  <2>3. \A i \in 1 .. len : s[i] < QuotaWindow <=> i > len - m
    BY <1>1, <1>2 DEF Tracks
  <2> QED BY <1>2, <2>1, <2>2, <2>3, LenProperties
<1>4. ~ (n > m)
  <2> SUFFICES ASSUME n > m PROVE FALSE
    OBVIOUS
  <2>1. PICK i \in 1 .. len : i = len - n + 1
    BY <1>3
  <2>2. s[i] < t /\ s[i] \in Nat
    BY <1>3, <2>1
  <2>3. s[i] < QuotaWindow
    BY <1>1, <2>2
  <2> QED BY <1>3, <2>1, <2>3
<1> QED BY <1>2, <1>4

\* A slot is taken only when fewer reservations than the quota are recent.
LEMMA TakingASlot ==
    ASSUME NEW s \in Seq(Nat), NEW counts \in Counts, Tracks(s, counts), Len(Pruned(s)) < Quota
    PROVE  /\ Append(Pruned(s), 0) \in Seq(Nat) /\ OneMore(counts) \in Counts
           /\ Tracks(Append(Pruned(s), 0), OneMore(counts))
<1> DEFINE p == Pruned(s)
           p2 == Append(p, 0)
           c2 == OneMore(counts)
<1>1. Len(s) \in Nat /\ QuotaWindow \in Nat \ {0} /\ Quota \in Nat \ {0}
      /\ \A i \in 1 .. Len(s) : s[i] \in Nat
  BY LenProperties, CallConstants
<1>2. PICK cut \in 0 .. Len(s) :
         /\ p \in Seq(Nat) /\ Len(p) = Len(s) - cut
         /\ \A i \in 1 .. Len(s) - cut : p[i] = s[cut + i]
         /\ \A j \in 1 .. cut : s[j] >= QuotaWindow
         /\ cut < Len(s) => s[cut + 1] < QuotaWindow
  BY <1>1, BelowCuts, Zenon DEF Pruned
<1> HIDE DEF p
<1>3. PICK len \in Nat, m \in Nat : len = Len(s) /\ m = counts[QuotaWindow]
  BY <1>1 DEF Counts
<1>4. m <= len /\ \A i \in 1 .. len : s[i] < QuotaWindow <=> i > len - m
  BY <1>1, <1>3 DEF Tracks
<1>5. cut = len - m
  <2>1. ~ (cut < len - m)
    <3> SUFFICES ASSUME cut < len - m PROVE FALSE
      OBVIOUS
    <3>1. PICK i \in 1 .. len : i = cut + 1
      BY <1>3, <1>4
    <3>2. s[i] < QuotaWindow
      BY <1>2, <1>3, <3>1
    <3> QED BY <1>4, <3>1, <3>2
  <2>2. ~ (cut > len - m)
    <3> SUFFICES ASSUME cut > len - m PROVE FALSE
      OBVIOUS
    <3>1. cut \in 1 .. cut /\ cut \in 1 .. len
      BY <1>3, <1>4
    <3>2. s[cut] >= QuotaWindow /\ s[cut] < QuotaWindow /\ s[cut] \in Nat
      BY <1>1, <1>2, <1>3, <1>4, <3>1
    <3> QED BY <1>1, <3>2
  <2> QED BY <1>3, <2>1, <2>2
<1>6. Len(p) = m /\ m < Quota /\ \A i \in 1 .. m : p[i] = s[(len - m) + i]
  BY <1>2, <1>3, <1>4, <1>5 DEF p
<1>7. /\ p2 \in Seq(Nat) /\ Len(p2) = m + 1 /\ p2[m + 1] = 0
      /\ \A i \in 1 .. m : p2[i] = p[i]
  BY <1>2, <1>6, AppendProperties
<1>8. c2 \in Counts /\ \A t \in 0 .. QuotaWindow : c2[t] = IF t = 0 THEN 0 ELSE counts[t] + 1
  BY DEF OneMore, Counts
<1> HIDE DEF p2, c2
<1>9. c2[0] = 0 /\ c2[QuotaWindow] <= Quota
  BY <1>1, <1>3, <1>6, <1>8
<1>10. ASSUME NEW t \in 0 .. QuotaWindow
       PROVE  /\ c2[t] <= Len(p2)
              /\ \A i \in 1 .. Len(p2) : p2[i] < t <=> i > Len(p2) - c2[t]
  <2>1. CASE t = 0
    <3>1. c2[t] = 0 /\ \A i \in 1 .. Len(p2) : p2[i] \in Nat
      BY <1>7, <1>9, <2>1, LenProperties
    <3> QED BY <1>7, <2>1, <3>1
  <2>2. CASE t # 0
    <3>1. PICK n \in Nat : n = counts[t]
      BY DEF Counts
    <3>2. n <= m
      BY <1>3, <3>1, LongerSpans
    <3>3. c2[t] = n + 1 /\ Len(p2) = m + 1
      BY <1>7, <1>8, <2>2, <3>1
    <3>4. \A i \in 1 .. len : s[i] < t <=> i > len - n
      BY <1>3, <3>1 DEF Tracks
    <3>5. ASSUME NEW i \in 1 .. m + 1 PROVE p2[i] < t <=> i > (m + 1) - (n + 1)
      <4>1. CASE i = m + 1
        <5>1. p2[i] = 0 /\ t > 0
          BY <1>7, <2>2, <4>1
        <5> QED BY <4>1, <5>1
      <4>2. CASE i # m + 1
        <5>1. PICK j \in 1 .. len : j = (len - m) + i
          BY <1>4, <4>2
        <5>2. p2[i] = s[j]
          BY <1>6, <1>7, <4>2, <5>1
        <5>3. s[j] < t <=> j > len - n
          BY <3>4
        <5>4. j > len - n <=> i > (m + 1) - (n + 1)
          BY <5>1
        <5> QED BY <5>2, <5>3, <5>4
      <4> QED BY <4>1, <4>2
    <3> QED BY <3>2, <3>3, <3>5
  <2> QED BY <2>1, <2>2
<1>11. Tracks(p2, c2)
  BY <1>9, <1>10 DEF Tracks
<1> QED BY <1>7, <1>8, <1>11 DEF p, p2, c2

\* A tick makes every age a tick older; those that leave the window are no longer
\* counted, and stay with the limiter until it prunes.
LEMMA AgingSlots ==
    ASSUME NEW s \in Seq(Nat), NEW counts \in Counts, Tracks(s, counts)
    PROVE  LET s2 == [i \in DOMAIN s |-> Older(s[i], QuotaWindow)]
           IN  s2 \in Seq(Nat) /\ ATickLater(counts) \in Counts /\ Tracks(s2, ATickLater(counts))
<1> DEFINE s2 == [i \in DOMAIN s |-> Older(s[i], QuotaWindow)]
           c2 == ATickLater(counts)
<1>1. /\ Len(s) \in Nat /\ DOMAIN s = 1 .. Len(s) /\ \A i \in 1 .. Len(s) : s[i] \in Nat
      /\ QuotaWindow \in Nat \ {0} /\ Quota \in Nat \ {0}
  BY LenProperties, CallConstants
<1>2. \A i \in 1 .. Len(s) : s2[i] = IF s[i] < QuotaWindow THEN s[i] + 1 ELSE s[i]
  BY <1>1 DEF Older
<1>3. s2 \in Seq(Nat) /\ Len(s2) = Len(s)
  <2>1. DOMAIN s2 = DOMAIN s /\ s2 = [i \in DOMAIN s2 |-> s2[i]]
    OBVIOUS
  <2>2. \A i \in DOMAIN s : s2[i] \in Nat
    BY <1>1, <1>2
  <2> HIDE DEF s2
  <2> QED BY <2>1, <2>2, AgedList
<1>4. \A t \in 0 .. QuotaWindow : c2[t] = IF t = 0 THEN 0 ELSE counts[t - 1]
  BY DEF ATickLater
<1>5. c2 \in Counts
  <2>1. \A t \in 0 .. QuotaWindow : t # 0 => t - 1 \in 0 .. QuotaWindow
    BY <1>1
  <2> QED BY <2>1 DEF ATickLater, Counts
<1> HIDE DEF s2, c2
<1>6. c2[0] = 0 /\ c2[QuotaWindow] <= Quota
  <2>1. PICK t \in 0 .. QuotaWindow : t = QuotaWindow - 1
    BY <1>1
  <2>2. counts[t] <= counts[QuotaWindow] /\ counts[QuotaWindow] <= Quota
    BY LongerSpans DEF Tracks
  <2>3. counts[t] \in Nat /\ counts[QuotaWindow] \in Nat
    BY <1>1 DEF Counts
  <2> QED BY <1>1, <1>4, <2>1, <2>2, <2>3
<1>7. ASSUME NEW t \in 0 .. QuotaWindow
      PROVE  /\ c2[t] <= Len(s2)
             /\ \A i \in 1 .. Len(s2) : s2[i] < t <=> i > Len(s2) - c2[t]
  <2>1. CASE t = 0
    <3>1. \A i \in 1 .. Len(s2) : s2[i] \in Nat
      BY <1>3, LenProperties
    <3> QED BY <1>1, <1>3, <1>6, <2>1, <3>1
  <2>2. CASE t # 0
    <3>1. PICK u \in 0 .. QuotaWindow : u = t - 1
      BY <1>1, <2>2
    <3>2. PICK n \in Nat, len \in Nat : n = counts[u] /\ len = Len(s)
      BY <1>1 DEF Counts
    <3>3. c2[t] = n
      BY <1>4, <2>2, <3>1, <3>2
    <3>4. n <= len /\ \A i \in 1 .. len : s[i] < u <=> i > len - n
      BY <3>2 DEF Tracks
    <3>5. ASSUME NEW i \in 1 .. len PROVE s2[i] < t <=> s[i] < u
      <4>1. PICK age \in Nat : age = s[i]
        BY <1>1, <3>2
      <4>2. s2[i] = IF age < QuotaWindow THEN age + 1 ELSE age
        BY <1>2, <3>2, <4>1
      <4>3. (IF age < QuotaWindow THEN age + 1 ELSE age) < t <=> age < u
        BY <1>1, <3>1
      <4> QED BY <4>1, <4>2, <4>3
    <3>6. \A i \in 1 .. len : s2[i] < t <=> i > len - n
      BY <3>4, <3>5
    <3> QED BY <1>3, <3>2, <3>3, <3>4, <3>6
  <2> QED BY <2>1, <2>2
<1>8. Tracks(s2, c2)
  BY <1>6, <1>7 DEF Tracks
<1> QED BY <1>3, <1>5, <1>8 DEF s2, c2

-----------------------------------------------------------------------------
(* Requests that are sent again without another slot *)

LEMMA LeftOfLoad ==
    ASSUME NEW load \in Load
    PROVE  LeftOf(load) \in Nat /\ LeftOf(load) <= HttpRetries
<1>1. load.tries \in 0 .. HttpRetries /\ HttpRetries \in Nat
  BY CallConstants DEF Load
<1>2. PICK n \in Nat : n = HttpRetries - load.tries /\ n <= HttpRetries
  BY <1>1
<1> QED BY <1>1, <1>2 DEF LeftOf

LEMMA SumOfSame ==
    ASSUME NEW S, IsFiniteSet(S), NEW n \in Nat
    PROVE  SumFunctionOnSet([x \in S |-> n], S) = n * Cardinality(S)
<1> DEFINE f == [x \in S |-> n]
           G == {T \in SUBSET S : SumFunctionOnSet(f, T) = n * Cardinality(T)}
<1>1. \A x \in S : f[x] = n /\ f[x] \in Int
  OBVIOUS
<1> HIDE DEF f
<1>2. {} \in G
  <2>1. SumFunctionOnSet(f, {}) = 0 /\ Cardinality({}) = 0
    BY SumOfNothing, FS_EmptySet
  <2> QED BY <2>1
<1>3. ASSUME NEW T \in SUBSET S, \A x \in T : T \ {x} \in G
      PROVE  T \in G
  <2>1. CASE T = {}
    BY <1>2, <2>1
  <2>2. CASE T # {}
    <3>1. PICK x \in T : TRUE
      BY <2>2
    <3>2. SumFunctionOnSet(f, T) = f[x] + SumFunctionOnSet(f, T \ {x}) /\ f[x] = n
      BY <1>1, SumSplits
    <3>3. SumFunctionOnSet(f, T \ {x}) = n * Cardinality(T \ {x})
      BY <1>3
    <3>4. IsFiniteSet(T) /\ Cardinality(T) \in Nat /\ Cardinality(T \ {x}) = Cardinality(T) - 1
      BY FS_Subset, FS_CardinalityType, FS_RemoveElement
    <3>5. PICK m \in Int : m = Cardinality(T \ {x}) /\ Cardinality(T) = m + 1
      BY <3>4
    <3>6. n * (m + 1) = n * m + n * 1
      BY Distributes
    <3> QED BY <3>2, <3>3, <3>5, <3>6
  <2> QED BY <2>1, <2>2
<1>4. SUBSET S \subseteq G
  <2> HIDE DEF G
  <2> QED BY <1>2, <1>3, SubsetsFromEmpty
<1>5. S \in G
  BY <1>4
<1> QED BY <1>5 DEF f

\* What is left to send again is no more than all retries of one load per query.
LEMMA LeftIsBounded ==
    ASSUME NEW loads \in [QueryKeys -> Load]
    PROVE  Left(loads) \in Nat /\ Left(loads) <= Most /\ Most \in Nat
<1> DEFINE f == [k \in QueryKeys |-> LeftOf(loads[k])]
           g == [k \in QueryKeys |-> HttpRetries]
<1>1. IsFiniteSet(QueryKeys) /\ HttpRetries \in Nat /\ Cardinality(QueryKeys) \in Nat
  BY CallConstants, FS_CardinalityType
<1>2. \A k \in QueryKeys : f[k] \in Nat /\ f[k] <= g[k] /\ g[k] = HttpRetries
  BY LeftOfLoad
<1>3. Left(loads) = SumFunctionOnSet(f, QueryKeys)
  BY DEF Left
<1>4. SumFunctionOnSet(g, QueryKeys) = Most
  BY <1>1, SumOfSame DEF Most
<1>5. Most \in Nat
  BY <1>1, ProductIsNatural DEF Most
<1> HIDE DEF f, g
<1>6. SumFunctionOnSet(f, QueryKeys) \in Nat
  BY <1>1, <1>2, SumIsNatural
<1>7. SumFunctionOnSet(f, QueryKeys) <= SumFunctionOnSet(g, QueryKeys)
  BY <1>1, <1>2, SumIsMonotone
<1> QED BY <1>3, <1>4, <1>5, <1>6, <1>7

LEMMA MostIsNatural == Most \in Nat
<1>1. IsFiniteSet(QueryKeys) /\ HttpRetries \in Nat /\ Cardinality(QueryKeys) \in Nat
  BY CallConstants, FS_CardinalityType
<1> QED BY <1>1, ProductIsNatural DEF Most

LEMMA AllowedIsNatural == \A m \in Nat : (1 + HttpRetries) * m + Most \in Nat
<1>1. PICK c \in Nat : c = 1 + HttpRetries
  BY CallConstants
<1>2. \A m \in Nat : c * m \in Nat
  BY ProductIsNatural
<1> QED BY <1>1, <1>2, MostIsNatural

LEMMA LeftChanges ==
    ASSUME NEW loads \in [QueryKeys -> Load], NEW k \in QueryKeys, NEW load \in Load
    PROVE  Left([loads EXCEPT ![k] = load]) = Left(loads) + LeftOf(load) - LeftOf(loads[k])
<1> DEFINE later == [loads EXCEPT ![k] = load]
           f == [q \in QueryKeys |-> LeftOf(loads[q])]
           g == [q \in QueryKeys |-> LeftOf(later[q])]
<1>1. \A q \in QueryKeys : later[q] = (IF q = k THEN load ELSE loads[q]) /\ later[q] \in Load
  OBVIOUS
<1> HIDE DEF later
<1>2. \A q \in QueryKeys : /\ f[q] = LeftOf(loads[q]) /\ g[q] = LeftOf(later[q])
                           /\ f[q] \in Int /\ g[q] \in Int
  BY <1>1, LeftOfLoad
<1>3. Left(loads) = SumFunctionOnSet(f, QueryKeys) /\ Left(later) = SumFunctionOnSet(g, QueryKeys)
  BY DEF Left
<1>4. \A q \in QueryKeys \ {k} : g[q] = f[q]
  BY <1>1, <1>2
<1> HIDE DEF f, g
<1>5. SumFunctionOnSet(g, QueryKeys) = SumFunctionOnSet(f, QueryKeys) + g[k] - f[k]
  BY <1>2, <1>4, SumOfUpdate, CallConstants
<1> QED BY <1>1, <1>2, <1>3, <1>5 DEF later

\* Loads that settle or begin have nothing more to send again.
LEMMA SpentLess ==
    ASSUME NEW requests \in Counts, NEW counts \in Counts, NEW left \in Nat, NEW less \in Nat,
           less <= left, Spent(requests, counts, left)
    PROVE  Spent(requests, counts, less)
<1> SUFFICES ASSUME NEW t \in 1 .. QuotaWindow
             PROVE  requests[t] + less <= (1 + HttpRetries) * counts[t] + Most
  BY DEF Spent
<1>1. t \in 0 .. QuotaWindow
  BY CallConstants
<1>2. PICK n \in Nat, m \in Nat : n = requests[t] /\ m = counts[t]
  BY <1>1 DEF Counts
<1>3. PICK allowed \in Nat : allowed = (1 + HttpRetries) * m + Most
  BY AllowedIsNatural
<1>4. n + left <= allowed
  BY <1>2, <1>3 DEF Spent
<1> QED BY <1>2, <1>3, <1>4

\* A load that takes a slot adds its request and all its retries.
LEMMA SpentOnASlot ==
    ASSUME NEW requests \in Counts, NEW counts \in Counts, NEW left \in Nat, NEW more \in Nat,
           more <= left + HttpRetries, Spent(requests, counts, left)
    PROVE  OneMore(requests) \in Counts /\ Spent(OneMore(requests), OneMore(counts), more)
<1>1. OneMore(requests) \in Counts
  BY DEF OneMore, Counts
<1>2. OneMore(requests)[0] = 0
  BY CallConstants DEF OneMore
<1>3. ASSUME NEW t \in 1 .. QuotaWindow
      PROVE  OneMore(requests)[t] + more <= (1 + HttpRetries) * OneMore(counts)[t] + Most
  <2>1. t \in 0 .. QuotaWindow /\ t # 0 /\ HttpRetries \in Nat
    BY CallConstants
  <2>2. PICK n \in Nat, m \in Nat : n = requests[t] /\ m = counts[t]
    BY <2>1 DEF Counts
  <2>3. OneMore(requests)[t] = n + 1 /\ OneMore(counts)[t] = m + 1
    BY <2>1, <2>2 DEF OneMore
  <2>4. PICK product \in Nat, most \in Nat : product = (1 + HttpRetries) * m /\ most = Most
    <3>1. PICK c \in Nat : c = 1 + HttpRetries
      BY <2>1
    <3>2. c * m \in Nat
      BY ProductIsNatural
    <3> QED BY <3>1, <3>2, MostIsNatural
  <2>5. n + left <= product + most
    BY <2>2, <2>4 DEF Spent
  <2>6. (1 + HttpRetries) * (m + 1) = product + (1 + HttpRetries)
    <3>1. (1 + HttpRetries) * (m + 1) = (1 + HttpRetries) * m + (1 + HttpRetries) * 1
      BY <2>1, Distributes
    <3> QED BY <2>1, <2>4, <3>1
  <2> QED BY <2>1, <2>3, <2>4, <2>5, <2>6
<1> QED BY <1>1, <1>2, <1>3 DEF Spent

\* A request that is sent again was left to its load.
LEMMA SpentAgain ==
    ASSUME NEW requests \in Counts, NEW counts \in Counts, NEW left \in Nat, NEW less \in Nat,
           left = less + 1, Spent(requests, counts, left)
    PROVE  OneMore(requests) \in Counts /\ Spent(OneMore(requests), counts, less)
<1>1. OneMore(requests) \in Counts
  BY DEF OneMore, Counts
<1>2. OneMore(requests)[0] = 0
  BY CallConstants DEF OneMore
<1>3. ASSUME NEW t \in 1 .. QuotaWindow
      PROVE  OneMore(requests)[t] + less <= (1 + HttpRetries) * counts[t] + Most
  <2>1. t \in 0 .. QuotaWindow /\ t # 0
    BY CallConstants
  <2>2. PICK n \in Nat, m \in Nat : n = requests[t] /\ m = counts[t]
    BY <2>1 DEF Counts
  <2>3. OneMore(requests)[t] = n + 1
    BY <2>1, <2>2 DEF OneMore
  <2>4. PICK allowed \in Nat : allowed = (1 + HttpRetries) * m + Most
    BY AllowedIsNatural
  <2>5. n + left <= allowed
    BY <2>2, <2>4 DEF Spent
  <2>6. n + 1 + less = n + left
    OBVIOUS
  <2> QED BY <2>2, <2>3, <2>4, <2>5, <2>6
<1> QED BY <1>1, <1>2, <1>3 DEF Spent

LEMMA SpentATickAgo ==
    ASSUME NEW requests \in Counts, NEW counts \in Counts, counts[0] = 0,
           NEW left \in Nat, left <= Most, Spent(requests, counts, left)
    PROVE  /\ ATickLater(requests) \in Counts
           /\ Spent(ATickLater(requests), ATickLater(counts), left)
<1>1. ATickLater(requests) \in Counts
  <2>1. \A t \in 0 .. QuotaWindow : t # 0 => t - 1 \in 0 .. QuotaWindow
    BY CallConstants
  <2> QED BY <2>1 DEF ATickLater, Counts
<1>2. ATickLater(requests)[0] = 0
  BY CallConstants DEF ATickLater
<1>3. ASSUME NEW t \in 1 .. QuotaWindow
      PROVE  ATickLater(requests)[t] + left <= (1 + HttpRetries) * ATickLater(counts)[t] + Most
  <2>1. PICK u \in 0 .. QuotaWindow : u = t - 1 /\ t \in 0 .. QuotaWindow /\ t # 0
    BY CallConstants
  <2>2. PICK n \in Nat, m \in Nat : n = requests[u] /\ m = counts[u]
    BY <2>1 DEF Counts
  <2>3. ATickLater(requests)[t] = n /\ ATickLater(counts)[t] = m
    BY <2>1, <2>2 DEF ATickLater
  <2>4. CASE u = 0
    <3>1. n = 0 /\ m = 0
      BY <2>2, <2>4 DEF Spent
    <3>2. (1 + HttpRetries) * 0 = 0 /\ Most \in Nat
      BY CallConstants, MostIsNatural
    <3> QED BY <2>3, <3>1, <3>2
  <2>5. CASE u # 0
    <3>1. u \in 1 .. QuotaWindow
      BY <2>1, <2>5
    <3> QED BY <2>2, <2>3, <3>1 DEF Spent
  <2> QED BY <2>4, <2>5
<1> QED BY <1>1, <1>2, <1>3 DEF Spent

-----------------------------------------------------------------------------
LEMMA CallsInitially == CallsInit => CallsInv
<1> SUFFICES ASSUME CallsInit PROVE CallsInv
  OBVIOUS
<1>1. /\ NoEntry \in Entry /\ NoEntry.at = "absent" /\ NoLoad \in Load /\ NoLoad.at = "none"
      /\ IdleCaller \in Call /\ IdleCaller.at = "idle"
  BY CallConstants DEF NoEntry, NoLoad, IdleCaller, Places, Entry, Load, Call
<1>2. /\ \A k \in QueryKeys : cached[k] = NoEntry /\ loadOf[k] = NoLoad
      /\ \A c \in FetchCallers : caller[c] = IdleCaller
  BY DEF CallsInit
<1>3. CallsTypeOK
  BY <1>1 DEF CallsInit, CallsTypeOK, Counts
<1>4. LoadInv
  BY <1>1, <1>2 DEF LoadInv
<1>5. /\ \A t \in 0 .. QuotaWindow : admitted[t] = 0 /\ sent[t] = 0
      /\ 0 \in 0 .. QuotaWindow /\ QuotaWindow \in 0 .. QuotaWindow
  BY CallConstants DEF CallsInit
<1>6. Tracks(slots, admitted)
  <2>1. slots = <<>> /\ Len(<<>>) = 0
    BY DEF CallsInit
  <2> QED BY <1>5, <2>1, CallConstants DEF Tracks
<1>7. Spent(sent, admitted, Left(loadOf))
  <2>1. PICK left \in Nat : left = Left(loadOf) /\ left <= Most /\ Most \in Nat
    BY <1>3, LeftIsBounded DEF CallsTypeOK
  <2>2. (1 + HttpRetries) * 0 = 0
    BY CallConstants
  <2>3. \A t \in 1 .. QuotaWindow : sent[t] + left <= (1 + HttpRetries) * admitted[t] + Most
    BY <1>5, <2>1, <2>2, CallConstants
  <2> QED BY <1>5, <2>1, <2>3 DEF Spent
<1> QED BY <1>3, <1>4, <1>6, <1>7 DEF CallsInv, LimitInv

LEMMA LimitPrimed ==
    LimitInv' <=> Tracks(slots', admitted') /\ Spent(sent', admitted', Left(loadOf'))
  BY DEF LimitInv, Tracks, Spent, Left, LeftOf

LEMMA LimitUntouched ==
    ASSUME LimitInv, UNCHANGED <<slots, admitted, sent, loadOf>>
    PROVE  LimitInv'
  BY LimitPrimed DEF LimitInv

\* A load that settles, or is only queued, has nothing to send again.
LEMMA LimitSettles ==
    ASSUME CallsInv, NEW k \in QueryKeys, NEW load \in Load, LeftOf(load) = 0,
           loadOf' = [loadOf EXCEPT ![k] = load], UNCHANGED <<slots, admitted, sent>>
    PROVE  LimitInv'
<1>1. /\ loadOf \in [QueryKeys -> Load] /\ loadOf' \in [QueryKeys -> Load]
      /\ sent \in Counts /\ admitted \in Counts
      /\ Tracks(slots, admitted) /\ Spent(sent, admitted, Left(loadOf))
  BY DEF CallsInv, CallsTypeOK, LimitInv
<1>2. Left(loadOf) \in Nat /\ Left(loadOf') \in Nat
  BY <1>1, LeftIsBounded
<1>3. Left(loadOf') = Left(loadOf) + LeftOf(load) - LeftOf(loadOf[k])
  BY <1>1, LeftChanges
<1>4. LeftOf(loadOf[k]) \in Nat
  BY <1>1, LeftOfLoad
<1>5. Left(loadOf') <= Left(loadOf)
  BY <1>2, <1>3, <1>4
<1>6. Spent(sent, admitted, Left(loadOf'))
  BY <1>1, <1>2, <1>5, SpentLess
<1> QED BY <1>1, <1>6, LimitPrimed

LEMMA JoinKeeps ==
    ASSUME CallsInv, NEW c \in FetchCallers, NEW k \in QueryKeys, GetOrSet(c, k)
    PROVE  CallsInv'
<1>1. /\ cached \in [QueryKeys -> Entry] /\ loadOf \in [QueryKeys -> Load]
      /\ caller \in [FetchCallers -> Call] /\ cached[k].age \in Nat
  BY DEF CallsInv, CallsTypeOK, Entry
<1>2. CASE Live(k) /\ cached[k].at = "loading"
  <2> DEFINE joined == [at |-> "waiting", key |-> k, age |-> 0]
  <2>1. caller' = [caller EXCEPT ![c] = joined] /\ UNCHANGED <<cached, loadOf, slots, admitted, sent>>
    BY <1>2 DEF GetOrSet
  <2>2. joined \in Call /\ joined.at = "waiting" /\ joined.key = k /\ joined.age = 0
    BY DEF Call, Places
  <2> HIDE DEF joined
  <2>3. caller' \in [FetchCallers -> Call]
    BY <1>1, <2>1, <2>2
  <2>4. \A d \in FetchCallers : caller'[d] = IF d = c THEN joined ELSE caller[d]
    BY <1>1, <2>1
  <2>5. LoadInv'
    BY <1>2, <2>1, <2>2, <2>4 DEF CallsInv, LoadInv
  <2> QED BY <2>1, <2>3, <2>5, LimitUntouched DEF CallsInv, CallsTypeOK
<1>3. CASE Live(k) /\ cached[k].at # "loading"
  <2> DEFINE given == [at |-> "served", key |-> k, age |-> cached[k].age]
  <2>1. caller' = [caller EXCEPT ![c] = given] /\ UNCHANGED <<cached, loadOf, slots, admitted, sent>>
    BY <1>3 DEF GetOrSet
  <2>2. given \in Call /\ given.at = "served" /\ given.age < CacheTtl
    BY <1>1, <1>3 DEF Call, Places, Live
  <2> HIDE DEF given
  <2>3. caller' \in [FetchCallers -> Call]
    BY <1>1, <2>1, <2>2
  <2>4. \A d \in FetchCallers : caller'[d] = IF d = c THEN given ELSE caller[d]
    BY <1>1, <2>1
  <2>5. LoadInv'
    BY <2>1, <2>2, <2>4 DEF CallsInv, LoadInv
  <2> QED BY <2>1, <2>3, <2>5, LimitUntouched DEF CallsInv, CallsTypeOK
<1>4. CASE ~ Live(k)
  <2> DEFINE joined == [at |-> "waiting", key |-> k, age |-> 0]
             load == [at |-> "queued", tries |-> 0]
             entry == [at |-> "loading", age |-> 0]
  <2>1. /\ caller' = [caller EXCEPT ![c] = joined] /\ loadOf' = [loadOf EXCEPT ![k] = load]
        /\ cached' = [cached EXCEPT ![k] = entry] /\ UNCHANGED <<slots, admitted, sent>>
    BY <1>4 DEF GetOrSet
  <2>2. /\ joined \in Call /\ joined.at = "waiting" /\ joined.key = k /\ joined.age = 0
        /\ load \in Load /\ load.at = "queued"
        /\ entry \in Entry /\ entry.at = "loading"
    BY CallConstants DEF Call, Load, Entry, Places
  <2> HIDE DEF joined, load, entry
  <2>3. /\ caller' \in [FetchCallers -> Call] /\ loadOf' \in [QueryKeys -> Load]
        /\ cached' \in [QueryKeys -> Entry]
    BY <1>1, <2>1, <2>2
  <2>4. /\ \A d \in FetchCallers : caller'[d] = IF d = c THEN joined ELSE caller[d]
        /\ \A q \in QueryKeys : loadOf'[q] = IF q = k THEN load ELSE loadOf[q]
        /\ \A q \in QueryKeys : cached'[q] = IF q = k THEN entry ELSE cached[q]
    BY <1>1, <2>1
  <2>5. LoadInv'
    BY <2>2, <2>4 DEF CallsInv, LoadInv
  <2>6. LimitInv'
    BY <2>1, <2>2, LimitSettles DEF LeftOf
  <2> QED BY <2>1, <2>3, <2>5, <2>6 DEF CallsInv, CallsTypeOK
<1> QED BY <1>2, <1>3, <1>4

\* A load that settles leaves no caller waiting for it, whatever it leaves behind.
LEMMA SettlingKeeps ==
    ASSUME CallsInv, NEW k \in QueryKeys, NEW entry \in Entry, entry.at # "loading",
           NEW place \in {"served", "failed"},
           loadOf' = [loadOf EXCEPT ![k] = NoLoad],
           cached' = [cached EXCEPT ![k] = entry],
           caller' = Answered(k, place),
           UNCHANGED <<slots, admitted, sent>>
    PROVE  CallsInv'
<1>1. /\ cached \in [QueryKeys -> Entry] /\ loadOf \in [QueryKeys -> Load]
      /\ caller \in [FetchCallers -> Call]
  BY DEF CallsInv, CallsTypeOK
<1>2. NoLoad \in Load /\ NoLoad.at = "none"
  BY CallConstants DEF NoLoad, Load
<1>3. cached' \in [QueryKeys -> Entry] /\ loadOf' \in [QueryKeys -> Load]
  BY <1>1, <1>2
<1>4. ASSUME NEW c \in FetchCallers
      PROVE  IF caller[c].at = "waiting" /\ caller[c].key = k
             THEN /\ caller'[c] \in Call /\ caller'[c].at = place /\ caller'[c].age = caller[c].age
             ELSE caller'[c] = caller[c]
  <2>1. caller[c] \in Call
    BY <1>1
  <2>2. [caller[c] EXCEPT !.at = place] \in Call
    BY <2>1 DEF Call, Places
  <2>3. /\ [caller[c] EXCEPT !.at = place].at = place
        /\ [caller[c] EXCEPT !.at = place].age = caller[c].age
    BY <2>1 DEF Call
  <2>4. caller'[c] = IF caller[c].at = "waiting" /\ caller[c].key = k
                     THEN [caller[c] EXCEPT !.at = place] ELSE caller[c]
    BY DEF Answered
  <2> QED BY <2>2, <2>3, <2>4
<1>5. caller' \in [FetchCallers -> Call]
  <2>1. caller' = [c \in FetchCallers |-> caller'[c]]
    BY DEF Answered
  <2>2. \A c \in FetchCallers : caller'[c] \in Call
    BY <1>1, <1>4
  <2> QED BY <2>1, <2>2
<1>6. \A q \in QueryKeys : /\ loadOf'[q] = IF q = k THEN NoLoad ELSE loadOf[q]
                           /\ cached'[q] = IF q = k THEN entry ELSE cached[q]
  BY <1>1
<1>7. LoadInv'
  <2>1. \A q \in QueryKeys : (cached'[q].at = "loading") <=> (loadOf'[q].at # "none")
    BY <1>2, <1>6 DEF CallsInv, LoadInv
  <2>2. ASSUME NEW c \in FetchCallers
        PROVE  /\ caller'[c].at = "waiting" =>
                     caller'[c].key \in QueryKeys /\ loadOf'[caller'[c].key].at # "none"
               /\ caller'[c].at = "waiting" => caller'[c].age = 0
               /\ caller'[c].at = "served" => caller'[c].age < CacheTtl
    <3>1. CASE caller[c].at = "waiting" /\ caller[c].key = k
      <4>1. caller'[c].at = place /\ caller'[c].age = 0
        BY <1>4, <3>1 DEF CallsInv, LoadInv
      <4> QED BY <4>1, CallConstants
    <3>2. CASE ~ (caller[c].at = "waiting" /\ caller[c].key = k)
      <4>1. caller'[c] = caller[c]
        BY <1>4, <3>2
      <4> QED BY <1>6, <3>2, <4>1 DEF CallsInv, LoadInv
    <3> QED BY <3>1, <3>2
  <2> QED BY <2>1, <2>2 DEF LoadInv
<1>8. LimitInv'
  BY <1>2, LimitSettles DEF LeftOf
<1> QED BY <1>3, <1>5, <1>7, <1>8 DEF CallsInv, CallsTypeOK

LEMMA LoadDoneKeeps ==
    ASSUME CallsInv, NEW k \in QueryKeys, LoadDone(k) PROVE CallsInv'
<1> DEFINE entry == [at |-> "value", age |-> 0]
<1>1. entry \in Entry /\ entry.at # "loading"
  BY DEF Entry
<1>2. /\ loadOf' = [loadOf EXCEPT ![k] = NoLoad] /\ cached' = [cached EXCEPT ![k] = entry]
      /\ caller' = Answered(k, "served") /\ UNCHANGED <<slots, admitted, sent>>
  BY DEF LoadDone
<1> HIDE DEF entry
<1> QED BY <1>1, <1>2, SettlingKeeps

LEMMA LoadFailsKeeps ==
    ASSUME CallsInv, NEW k \in QueryKeys, LoadFails(k) PROVE CallsInv'
<1>1. NoEntry \in Entry /\ NoEntry.at # "loading"
  BY DEF NoEntry, Entry
<1>2. /\ loadOf' = [loadOf EXCEPT ![k] = NoLoad] /\ cached' = [cached EXCEPT ![k] = NoEntry]
      /\ caller' = Answered(k, "failed") /\ UNCHANGED <<slots, admitted, sent>>
  BY DEF LoadFails
<1> QED BY <1>1, <1>2, SettlingKeeps

\* A load that is sent, for the first time or again, is still under way.
LEMMA SendingKeeps ==
    ASSUME CallsInv, NEW k \in QueryKeys, NEW load \in Load, load.at # "none",
           loadOf[k].at # "none", loadOf' = [loadOf EXCEPT ![k] = load],
           UNCHANGED <<cached, caller>>
    PROVE  loadOf' \in [QueryKeys -> Load] /\ LoadInv'
<1>1. loadOf \in [QueryKeys -> Load]
  BY DEF CallsInv, CallsTypeOK, Load
<1>2. \A q \in QueryKeys : loadOf'[q] = IF q = k THEN load ELSE loadOf[q]
  BY <1>1
<1> QED BY <1>1, <1>2 DEF CallsInv, LoadInv

LEMMA AcquireKeeps ==
    ASSUME CallsInv, NEW k \in QueryKeys, Acquire(k) PROVE CallsInv'
<1>1. loadOf[k] \in Load /\ loadOf[k].at = "queued"
  BY DEF CallsInv, CallsTypeOK, Load, Acquire
<1> DEFINE load == [loadOf[k] EXCEPT !.at = "fetching"]
<1>2. load \in Load /\ load.at = "fetching"
  BY <1>1 DEF Load
<1>3. loadOf' = [loadOf EXCEPT ![k] = load] /\ UNCHANGED <<cached, caller>>
  BY DEF Acquire
<1> HIDE DEF load
<1>4. loadOf' \in [QueryKeys -> Load] /\ LoadInv'
  BY <1>1, <1>2, <1>3, SendingKeeps
<1>5. /\ slots \in Seq(Nat) /\ admitted \in Counts /\ sent \in Counts
      /\ loadOf \in [QueryKeys -> Load]
      /\ Tracks(slots, admitted) /\ Spent(sent, admitted, Left(loadOf))
  BY DEF CallsInv, CallsTypeOK, LimitInv
<1>6. slots' \in Seq(Nat) /\ admitted' \in Counts /\ Tracks(slots', admitted')
  <2>1. /\ Len(Pruned(slots)) < Quota
        /\ slots' = Append(Pruned(slots), 0) /\ admitted' = OneMore(admitted)
    BY DEF Acquire
  <2> QED BY <1>5, <2>1, TakingASlot
<1>7. sent' \in Counts /\ Spent(sent', admitted', Left(loadOf'))
  <2>1. sent' = OneMore(sent) /\ admitted' = OneMore(admitted)
    BY DEF Acquire
  <2>2. PICK left \in Nat, more \in Nat : left = Left(loadOf) /\ more = Left(loadOf')
    BY <1>4, <1>5, LeftIsBounded
  <2>3. more = left + LeftOf(load) - LeftOf(loadOf[k])
    BY <1>2, <1>3, <1>5, <2>2, LeftChanges
  <2>4. LeftOf(loadOf[k]) = 0
    BY <1>1 DEF LeftOf
  <2>5. LeftOf(load) \in Nat /\ LeftOf(load) <= HttpRetries /\ HttpRetries \in Nat
    BY <1>2, LeftOfLoad, CallConstants
  <2>6. more <= left + HttpRetries
    BY <2>3, <2>4, <2>5
  <2> QED BY <1>5, <2>1, <2>2, <2>6, SpentOnASlot
<1>8. LimitInv'
  BY <1>6, <1>7, LimitPrimed
<1> QED BY <1>3, <1>4, <1>6, <1>7, <1>8 DEF CallsInv, CallsTypeOK

LEMMA RequestAgainKeeps ==
    ASSUME CallsInv, NEW k \in QueryKeys, RequestAgain(k) PROVE CallsInv'
<1>1. /\ loadOf[k] \in Load /\ loadOf[k].at = "fetching"
      /\ loadOf[k].tries \in 0 .. HttpRetries /\ loadOf[k].tries < HttpRetries
  BY DEF CallsInv, CallsTypeOK, Load, RequestAgain
<1>2. PICK more \in 0 .. HttpRetries : more = loadOf[k].tries + 1
  BY <1>1, CallConstants
<1> DEFINE load == [loadOf[k] EXCEPT !.tries = more]
<1>3. load \in Load /\ load.at = "fetching" /\ load.tries = more
  BY <1>1 DEF Load
<1>4. /\ loadOf' = [loadOf EXCEPT ![k] = load] /\ sent' = OneMore(sent)
      /\ UNCHANGED <<cached, caller, slots, admitted>>
  BY <1>2 DEF RequestAgain
<1> HIDE DEF load
<1>5. loadOf' \in [QueryKeys -> Load] /\ LoadInv'
  BY <1>1, <1>3, <1>4, SendingKeeps
<1>6. /\ admitted \in Counts /\ sent \in Counts /\ loadOf \in [QueryKeys -> Load]
      /\ Tracks(slots, admitted) /\ Spent(sent, admitted, Left(loadOf))
  BY DEF CallsInv, CallsTypeOK, LimitInv
<1>7. PICK left \in Nat, less \in Nat : left = Left(loadOf) /\ less = Left(loadOf')
  BY <1>5, <1>6, LeftIsBounded
<1>8. left = less + 1
  <2>1. less = left + LeftOf(load) - LeftOf(loadOf[k])
    BY <1>3, <1>4, <1>6, <1>7, LeftChanges
  <2>2. LeftOf(load) = HttpRetries - more /\ LeftOf(loadOf[k]) = HttpRetries - loadOf[k].tries
    BY <1>1, <1>3 DEF LeftOf
  <2> QED BY <1>1, <1>2, <2>1, <2>2, CallConstants
<1>9. sent' \in Counts /\ Spent(sent', admitted, less)
  BY <1>4, <1>6, <1>7, <1>8, SpentAgain
<1>10. LimitInv'
  BY <1>4, <1>6, <1>7, <1>9, LimitPrimed
<1> QED BY <1>4, <1>5, <1>9, <1>10 DEF CallsInv, CallsTypeOK

LEMMA LeaveKeeps ==
    ASSUME CallsInv, NEW c \in FetchCallers, Leave(c) PROVE CallsInv'
<1>1. caller \in [FetchCallers -> Call] /\ IdleCaller \in Call /\ IdleCaller.at = "idle"
  BY DEF CallsInv, CallsTypeOK, Call, IdleCaller, Places
<1>2. /\ caller' \in [FetchCallers -> Call]
      /\ \A d \in FetchCallers : caller'[d] = IF d = c THEN IdleCaller ELSE caller[d]
  BY <1>1 DEF Leave
<1>3. LoadInv'
  BY <1>1, <1>2 DEF CallsInv, LoadInv, Leave
<1>4. LimitInv'
  BY LimitUntouched DEF CallsInv, Leave
<1> QED BY <1>2, <1>3, <1>4 DEF CallsInv, CallsTypeOK, Leave

LEMMA CallTickKeeps ==
    ASSUME CallsInv, CallTick PROVE CallsInv'
<1>1. cached \in [QueryKeys -> Entry]
  BY DEF CallsInv, CallsTypeOK, Entry
<1>2. ASSUME NEW k \in QueryKeys PROVE cached'[k] \in Entry /\ cached'[k].at = cached[k].at
  <2>1. cached[k] \in Entry /\ cached[k].age \in Nat
    BY <1>1 DEF Entry
  <2>2. Older(cached[k].age, CacheTtl) \in Nat
    BY <2>1 DEF Older
  <2>3. cached'[k] = IF cached[k].at = "value"
                     THEN [cached[k] EXCEPT !.age = Older(cached[k].age, CacheTtl)] ELSE cached[k]
    BY DEF CallTick
  <2>4. /\ [cached[k] EXCEPT !.age = Older(cached[k].age, CacheTtl)] \in Entry
        /\ [cached[k] EXCEPT !.age = Older(cached[k].age, CacheTtl)].at = cached[k].at
    BY <2>1, <2>2 DEF Entry
  <2> QED BY <2>1, <2>3, <2>4
<1>3. cached' \in [QueryKeys -> Entry]
  <2>1. cached' = [k \in QueryKeys |-> cached'[k]]
    BY DEF CallTick
  <2> QED BY <1>2, <2>1
<1>4. LoadInv'
  BY <1>2 DEF CallsInv, LoadInv, CallTick
<1>5. /\ slots \in Seq(Nat) /\ admitted \in Counts /\ sent \in Counts
      /\ loadOf \in [QueryKeys -> Load] /\ admitted[0] = 0
      /\ Tracks(slots, admitted) /\ Spent(sent, admitted, Left(loadOf))
  BY DEF CallsInv, CallsTypeOK, LimitInv, Tracks
<1>6. slots' \in Seq(Nat) /\ admitted' \in Counts /\ Tracks(slots', admitted')
  <2>1. /\ slots' = [i \in DOMAIN slots |-> Older(slots[i], QuotaWindow)]
        /\ admitted' = ATickLater(admitted)
    BY DEF CallTick
  <2> QED BY <1>5, <2>1, AgingSlots
<1>7. sent' \in Counts /\ Spent(sent', admitted', Left(loadOf'))
  <2>1. sent' = ATickLater(sent) /\ admitted' = ATickLater(admitted) /\ loadOf' = loadOf
    BY DEF CallTick
  <2>2. Left(loadOf) \in Nat /\ Left(loadOf) <= Most
    BY <1>5, LeftIsBounded
  <2> QED BY <1>5, <2>1, <2>2, SpentATickAgo
<1>8. LimitInv'
  BY <1>6, <1>7, LimitPrimed
<1> QED BY <1>3, <1>4, <1>6, <1>7, <1>8 DEF CallsInv, CallsTypeOK, CallTick

LEMMA CallsStepKeeps == CallsInv /\ [CallsNext]_callVars => CallsInv'
<1> SUFFICES ASSUME CallsInv, [CallsNext]_callVars PROVE CallsInv'
  OBVIOUS
<1>1. CASE UNCHANGED callVars
  BY <1>1, LimitUntouched DEF callVars, CallsInv, CallsTypeOK, LoadInv
<1> QED BY <1>1, CallTickKeeps, LeaveKeeps, JoinKeeps, AcquireKeeps, LoadDoneKeeps,
           RequestAgainKeeps, LoadFailsKeeps DEF CallsNext

\* responseCache.ts and rateLimiter.ts: entries and loads agree, and the limiter's
\* list ends with the reservations of whatever span ends now.
THEOREM CallsInvariant == CallsSpec => []CallsInv
<1> QED BY CallsInitially, CallsStepKeeps, PTL DEF CallsSpec

\* However many callers and queries there are and however loads fail and are sent
\* again: no window lets more loads through than the quota, and none sees more
\* requests than all attempts of those loads, with the retries of one older load of
\* each query.  Nobody waits for a load that is gone, and no answer is older than
\* the time to live.
THEOREM RequestsAlwaysBounded ==
    CallsSpec => [](AdmissionsKept /\ RequestsAreBounded /\ WaitersHaveALoad /\ ServedIsRecent)
<1>1. CallsInv => RequestsAreBounded
  <2> SUFFICES ASSUME CallsInv PROVE RequestsAreBounded
    OBVIOUS
  <2>1. /\ QuotaWindow \in 1 .. QuotaWindow /\ QuotaWindow \in 0 .. QuotaWindow
        /\ Quota \in Nat /\ HttpRetries \in Nat
    BY CallConstants
  <2>2. /\ sent[QuotaWindow] + Left(loadOf) <= (1 + HttpRetries) * admitted[QuotaWindow] + Most
        /\ admitted[QuotaWindow] <= Quota
    BY <2>1 DEF CallsInv, LimitInv, Tracks, Spent
  <2>3. PICK n \in Nat, m \in Nat, left \in Nat :
           n = sent[QuotaWindow] /\ m = admitted[QuotaWindow] /\ left = Left(loadOf)
    BY <2>1, LeftIsBounded DEF CallsInv, CallsTypeOK, Counts
  <2>4. PICK rest \in Nat : Quota = m + rest
    <3>1. Quota - m \in Nat /\ Quota = m + (Quota - m)
      BY <2>1, <2>2, <2>3
    <3> QED BY <3>1
  <2>5. PICK c \in Nat : c = 1 + HttpRetries
    BY <2>1
  <2>6. c * Quota = c * m + c * rest /\ c * m \in Nat /\ c * rest \in Nat
    <3>1. c * (m + rest) = c * m + c * rest
      BY Distributes
    <3> QED BY <2>4, <3>1, ProductIsNatural
  <2>7. n + left <= c * m + Most /\ Most \in Nat
    BY <2>2, <2>3, <2>5, MostIsNatural
  <2>8. n <= c * Quota + Most
    BY <2>6, <2>7
  <2> QED BY <2>3, <2>5, <2>8 DEF RequestsAreBounded, Most
<1>2. CallsInv => AdmissionsKept /\ WaitersHaveALoad /\ ServedIsRecent
  BY DEF CallsInv, LoadInv, LimitInv, Tracks, AdmissionsKept, WaitersHaveALoad, ServedIsRecent
<1> QED BY <1>1, <1>2, CallsInvariant, PTL

\* A request under way is joined: no call of the same query sends another.
THEOREM LoadsAlwaysShared == CallsSpec => LoadsAreShared
<1> DEFINE Shared == \A k \in QueryKeys : loadOf[k].at = "fetching" => loadOf'[k].at # "queued"
<1>1. ASSUME CallsInv, [CallsNext]_callVars PROVE [Shared]_callVars
  <2> SUFFICES ASSUME CallsNext, NEW k \in QueryKeys, loadOf[k].at = "fetching"
               PROVE  loadOf'[k].at # "queued"
    BY <1>1
  <2>1. loadOf \in [QueryKeys -> Load] /\ loadOf[k] \in Load /\ cached[k].at = "loading"
    BY <1>1 DEF CallsInv, CallsTypeOK, LoadInv, Load
  <2>2. ASSUME NEW c \in FetchCallers, NEW q \in QueryKeys, GetOrSet(c, q)
        PROVE  loadOf'[k].at # "queued"
    <3>1. CASE q = k
      BY <2>1, <2>2, <3>1 DEF GetOrSet, Live
    <3>2. CASE q # k
      BY <2>1, <2>2, <3>2 DEF GetOrSet
    <3> QED BY <3>1, <3>2
  <2>3. ASSUME NEW q \in QueryKeys, Acquire(q) PROVE loadOf'[k].at # "queued"
    BY <2>1, <2>3 DEF Acquire
  <2>4. ASSUME NEW q \in QueryKeys, RequestAgain(q) PROVE loadOf'[k].at # "queued"
    <3>1. CASE q = k
      BY <2>1, <2>4, <3>1 DEF RequestAgain, Load
    <3>2. CASE q # k
      BY <2>1, <2>4, <3>2 DEF RequestAgain
    <3> QED BY <3>1, <3>2
  <2>5. ASSUME NEW q \in QueryKeys, LoadDone(q) \/ LoadFails(q) PROVE loadOf'[k].at # "queued"
    <3>1. loadOf' = [loadOf EXCEPT ![q] = NoLoad] /\ NoLoad.at = "none"
      BY <2>5 DEF LoadDone, LoadFails, NoLoad
    <3> QED BY <2>1, <3>1
  <2>6. CASE CallTick \/ \E c \in FetchCallers : Leave(c)
    BY <2>6 DEF CallTick, Leave
  <2> QED BY <2>2, <2>3, <2>4, <2>5, <2>6 DEF CallsNext
<1>2. [][Shared]_callVars <=> LoadsAreShared
  BY DEF LoadsAreShared
<1> HIDE DEF Shared
<1> QED BY <1>1, <1>2, CallsInvariant, PTL DEF CallsSpec

-----------------------------------------------------------------------------
(* The circuit breaker *)

BreakerStates == [failures : Nat, successes : Nat, isOpen : BOOLEAN, probed : Nat]

\* The action properties need that the saved state is the one in memory, that the
\* recorded probe is no older than the last call let through, and that a closed
\* breaker has counted no outcome twice: the success that closed it is the one
\* that evidence leaves out.
BreakerInv ==
    /\ breaker \in BreakerStates /\ stored = breaker
    /\ callsOut \in Nat /\ evidence \in Nat /\ sinceProbe \in Nat
    /\ breaker.probed <= sinceProbe
    /\ ~ breaker.isOpen => breaker.failures + breaker.successes <= evidence + 1

LEMMA BreakerInitially == BreakerInit => BreakerInv
<1>1. /\ NewState \in BreakerStates /\ NewState.probed = 0
      /\ NewState.failures = 0 /\ NewState.successes = 0
  BY DEF NewState, BreakerStates
<1> QED BY <1>1, BreakerConstants DEF BreakerInit, BreakerInv

LEMMA ProbeKeeps == ASSUME BreakerInv, Probe PROVE BreakerInv'
<1>1. breaker \in BreakerStates /\ breaker.isOpen
  BY DEF BreakerInv, Probe
<1> DEFINE probing == [breaker EXCEPT !.probed = 0]
<1>2. probing \in BreakerStates /\ probing.probed = 0 /\ probing.isOpen
  BY <1>1 DEF BreakerStates
<1>3. /\ breaker' = probing /\ stored' = probing /\ callsOut' = callsOut + 1 /\ sinceProbe' = 0
      /\ UNCHANGED evidence
  BY DEF Probe, Save
<1> HIDE DEF probing
<1> QED BY <1>2, <1>3 DEF BreakerInv

\* What recordSuccess leaves.
LEMMA SuccessIsCounted ==
    ASSUME BreakerInv, RecordSuccess
    PROVE  /\ breaker' \in BreakerStates /\ stored' = breaker' /\ ~ breaker'.isOpen
           /\ breaker'.probed = breaker.probed /\ callsOut' = callsOut - 1 /\ callsOut > 0
           /\ UNCHANGED sinceProbe /\ evidence' \in Nat
           /\ breaker'.failures + breaker'.successes <= evidence' + 1
<1>1. /\ breaker \in BreakerStates /\ breaker.failures \in Nat /\ breaker.successes \in Nat
      /\ evidence \in Nat
  BY DEF BreakerInv, BreakerStates
<1>2. CASE breaker.isOpen
  <2> DEFINE b1 == [breaker EXCEPT !.isOpen = FALSE]
             b2 == [b1 EXCEPT !.failures = 0]
             b3 == [b2 EXCEPT !.successes = 1]
  <2>1. b1 \in BreakerStates /\ ~ b1.isOpen /\ b1.probed = breaker.probed
    BY <1>1 DEF BreakerStates
  <2>2. b2 \in BreakerStates /\ ~ b2.isOpen /\ b2.probed = breaker.probed /\ b2.failures = 0
    <3> HIDE DEF b1
    <3> QED BY <2>1 DEF BreakerStates
  <2>3. /\ b3 \in BreakerStates /\ ~ b3.isOpen /\ b3.probed = breaker.probed /\ b3.failures = 0
        /\ b3.successes = 1
    <3> HIDE DEF b2
    <3> QED BY <2>2 DEF BreakerStates
  <2>4. [breaker EXCEPT !.isOpen = FALSE, !.failures = 0, !.successes = 1] = b3
    BY <1>1 DEF BreakerStates
  <2> HIDE DEF b1, b2, b3
  <2>5. breaker' = b3 /\ stored' = b3 /\ evidence' = 0
    BY <1>2, <2>4 DEF RecordSuccess, Save
  <2> QED BY <2>3, <2>5 DEF RecordSuccess
<1>3. CASE ~ breaker.isOpen
  <2> DEFINE counted == [breaker EXCEPT !.successes = breaker.successes + 1]
  <2>1. /\ counted \in BreakerStates /\ ~ counted.isOpen /\ counted.probed = breaker.probed
        /\ counted.failures = breaker.failures /\ counted.successes = breaker.successes + 1
    BY <1>1, <1>3 DEF BreakerStates
  <2>2. breaker' = counted /\ stored' = counted /\ evidence' = evidence + 1
    BY <1>3 DEF RecordSuccess, Save
  <2> HIDE DEF counted
  <2>3. breaker.failures + breaker.successes <= evidence + 1
    BY <1>3 DEF BreakerInv
  <2> QED BY <1>1, <2>1, <2>2, <2>3 DEF RecordSuccess
<1> QED BY <1>2, <1>3

\* What recordFailure leaves: it opens the breaker on enough counted outcomes only.
LEMMA FailureIsCounted ==
    ASSUME BreakerInv, RecordFailure
    PROVE  /\ breaker' \in BreakerStates /\ stored' = breaker'
           /\ breaker'.probed = breaker.probed /\ callsOut' = callsOut - 1 /\ callsOut > 0
           /\ UNCHANGED sinceProbe /\ evidence' = evidence + 1
           /\ breaker'.failures = breaker.failures + 1 /\ breaker'.successes = breaker.successes
           /\ breaker.isOpen => breaker'.isOpen
           /\ (~ breaker.isOpen /\ breaker'.isOpen)
                 => breaker'.failures + breaker'.successes >= MinRequests
<1>1. /\ breaker \in BreakerStates /\ breaker.failures \in Nat /\ breaker.isOpen \in BOOLEAN
  BY DEF BreakerInv, BreakerStates
<1> DEFINE counted == [breaker EXCEPT !.failures = breaker.failures + 1]
           enough == counted.failures + counted.successes >= MinRequests
           opens == counted.isOpen \/ (enough /\ MostlyFailing(counted))
           saved == [counted EXCEPT !.isOpen = opens]
<1>2. /\ counted \in BreakerStates /\ counted.isOpen = breaker.isOpen
      /\ counted.probed = breaker.probed /\ counted.successes = breaker.successes
      /\ counted.failures = breaker.failures + 1
  BY <1>1 DEF BreakerStates
<1>3. breaker' = saved /\ stored' = saved
  BY DEF RecordFailure, Save
<1> HIDE DEF counted
<1>4. opens \in BOOLEAN
  BY <1>1, <1>2
<1> HIDE DEF opens
<1>5. saved \in BreakerStates
  BY <1>2, <1>4 DEF BreakerStates
<1>6. /\ saved.probed = counted.probed /\ saved.successes = counted.successes
      /\ saved.failures = counted.failures
  BY <1>2 DEF BreakerStates
<1>7. saved.isOpen <=> opens
  BY <1>2, <1>4 DEF BreakerStates
<1> HIDE DEF saved
<1>8. /\ breaker.isOpen => saved.isOpen
      /\ (~ breaker.isOpen /\ saved.isOpen) => enough
  BY <1>2, <1>7 DEF opens
<1> QED BY <1>2, <1>3, <1>5, <1>6, <1>8 DEF RecordFailure

LEMMA ClockKeeps == ASSUME BreakerInv, ClockTick PROVE BreakerInv' /\ breaker'.isOpen = breaker.isOpen
<1>1. breaker \in BreakerStates /\ breaker.probed \in Nat /\ sinceProbe \in Nat
  BY DEF BreakerInv, BreakerStates
<1> DEFINE later == LaterProbe(breaker.probed)
           aged == [breaker EXCEPT !.probed = later]
<1>2. later \in Nat /\ LaterProbe(sinceProbe) \in Nat /\ later <= LaterProbe(sinceProbe)
  BY <1>1, BreakerConstants DEF LaterProbe, BreakerInv
<1>3. breaker' = aged /\ stored' = aged /\ sinceProbe' = LaterProbe(sinceProbe)
  BY DEF ClockTick, BreakerInv
<1> HIDE DEF later
<1>4. /\ aged \in BreakerStates /\ aged.probed = later /\ aged.isOpen = breaker.isOpen
      /\ aged.failures = breaker.failures /\ aged.successes = breaker.successes
  BY <1>1, <1>2 DEF BreakerStates
<1> HIDE DEF aged
<1> QED BY <1>2, <1>3, <1>4 DEF BreakerInv, ClockTick

LEMMA BreakerStepKeeps == BreakerInv /\ [BreakerNext]_breakerVars => BreakerInv'
<1> SUFFICES ASSUME BreakerInv, [BreakerNext]_breakerVars PROVE BreakerInv'
  OBVIOUS
<1>1. CASE CallThrough \/ Restart \/ ProviderChanges \/ UNCHANGED breakerVars
  BY <1>1 DEF CallThrough, Restart, ProviderChanges, breakerVars, BreakerInv
<1>2. CASE RecordSuccess
  BY <1>2, SuccessIsCounted DEF BreakerInv
<1>3. CASE RecordFailure
  <2>1. breaker.failures \in Nat /\ breaker.successes \in Nat
    BY DEF BreakerInv, BreakerStates
  <2> QED BY <1>3, <2>1, FailureIsCounted DEF BreakerInv
<1> QED BY <1>1, <1>2, <1>3, ProbeKeeps, ClockKeeps DEF BreakerNext

\* circuitBreaker.ts: the saved breaker is the one in memory, and its counters are
\* those of the outcomes since it last closed.
THEOREM BreakerInvariant == BreakerSpec => []BreakerInv
<1> QED BY BreakerInitially, BreakerStepKeeps, PTL DEF BreakerSpec

\* A process that stops at any point finds an open breaker open, and a closed one
\* closed, when it comes back.
THEOREM RestartsKeepBreaker == BreakerSpec => []RestartKeepsBreaker
<1>1. BreakerInv => RestartKeepsBreaker
  BY DEF BreakerInv, RestartKeepsBreaker
<1> QED BY <1>1, BreakerInvariant, PTL

\* A failing provider is probed once an interval at most, and a breaker that closed
\* opens on as many new outcomes as the first opening needs, for any thresholds and
\* any number of calls in flight.
THEOREM BreakerAlwaysKeepsToEvidence == BreakerSpec => BreakerKeepsToEvidence
<1> DEFINE Spaced == callsOut' > callsOut /\ breaker.isOpen => sinceProbe > ProbeInterval
           Evident == ~ breaker.isOpen /\ breaker'.isOpen => evidence' + 1 >= MinRequests
<1>1. ASSUME BreakerInv, [BreakerNext]_breakerVars PROVE [Spaced /\ Evident]_breakerVars
  <2> SUFFICES ASSUME BreakerNext PROVE Spaced /\ Evident
    BY <1>1
  <2>1. /\ callsOut \in Nat /\ evidence \in Nat /\ sinceProbe \in Nat /\ stored = breaker
        /\ breaker \in BreakerStates /\ breaker.probed \in Nat /\ breaker.probed <= sinceProbe
        /\ breaker.failures \in Nat /\ breaker.successes \in Nat
        /\ ~ breaker.isOpen => breaker.failures + breaker.successes <= evidence + 1
    BY <1>1 DEF BreakerInv, BreakerStates
  <2>2. CASE CallThrough \/ Restart \/ ProviderChanges
    BY <2>1, <2>2 DEF CallThrough, Restart, ProviderChanges
  <2>3. CASE Probe
    BY <2>1, <2>3, BreakerConstants DEF Probe
  <2>4. CASE RecordSuccess
    <3>1. ~ breaker'.isOpen /\ callsOut' = callsOut - 1
      BY <1>1, <2>4, SuccessIsCounted
    <3> QED BY <2>1, <3>1
  <2>5. CASE RecordFailure
    <3>1. /\ callsOut' = callsOut - 1 /\ evidence' = evidence + 1
          /\ breaker'.failures = breaker.failures + 1 /\ breaker'.successes = breaker.successes
          /\ (~ breaker.isOpen /\ breaker'.isOpen)
                => breaker'.failures + breaker'.successes >= MinRequests
      BY <1>1, <2>5, FailureIsCounted
    <3> QED BY <2>1, <3>1, BreakerConstants
  <2>6. CASE ClockTick
    <3>1. breaker'.isOpen = breaker.isOpen /\ callsOut' = callsOut
      BY <1>1, <2>6, ClockKeeps DEF ClockTick
    <3> QED BY <2>1, <3>1
  <2> QED BY <2>2, <2>3, <2>4, <2>5, <2>6 DEF BreakerNext
<1>2. BreakerSpec => [][Spaced /\ Evident]_breakerVars
  <2> HIDE DEF Spaced, Evident
  <2> QED BY <1>1, BreakerInvariant, PTL DEF BreakerSpec
<1>3. [][Spaced /\ Evident]_breakerVars => [][Spaced]_breakerVars /\ [][Evident]_breakerVars
  <2> HIDE DEF Spaced, Evident
  <2>1. [Spaced /\ Evident]_breakerVars => [Spaced]_breakerVars /\ [Evident]_breakerVars
    OBVIOUS
  <2> QED BY <2>1, PTL
<1>4. /\ [][Spaced]_breakerVars <=> ProbesAreSpaced
      /\ [][Evident]_breakerVars <=> OpensOnNewEvidence
  BY DEF ProbesAreSpaced, OpensOnNewEvidence
<1> HIDE DEF Spaced, Evident
<1> QED BY <1>2, <1>3, <1>4, PTL DEF BreakerKeepsToEvidence

\* The adapters' limiter, cache and breaker together: what CallsAreSound says holds
\* for any callers, queries, quota, window and times to live.
THEOREM CallsAlwaysSound == CallsSpec /\ BreakerSpec => []CallsAreSound
<1> QED BY RequestsAlwaysBounded, RestartsKeepBreaker, PTL DEF CallsAreSound

\* A provider is called once for all who ask meanwhile, and by single probes while
\* it fails.
THEOREM ProvidersAlwaysSpared == CallsSpec /\ BreakerSpec => ProvidersAreSpared
<1> QED BY LoadsAlwaysShared, BreakerAlwaysKeepsToEvidence, PTL DEF ProvidersAreSpared

-----------------------------------------------------------------------------
(* The bot that spends bonds *)

InStep == {"evaluating", "guarding", "sending"}
BotStates == [step : {"idle", "looking"} \cup InStep, market : Submitted \cup {NoMarket},
              queue : SUBSET Submitted]

BotTypeOK ==
    /\ ledger \in Nat /\ enabled \in BOOLEAN /\ lagged \in BOOLEAN
    /\ bot \in BotStates
    /\ processed \subseteq Submitted
    /\ challenged \subseteq Submitted /\ indexedBonds \subseteq challenged

\* What the bot has established when it gets to a step.  ChallengesAreSound is not
\* inductive: Returned puts aside whatever market is in hand, and the limit is
\* checked one step before the bond is spent.
Established ==
    /\ bot.step \in InStep => bot.market \in Submitted \ OwnSubmission
    /\ bot.step \in {"guarding", "sending"} => verdict[bot.market] = "disagrees"
    /\ (bot.step = "sending" /\ ~ lagged) => Bond * Cardinality(challenged) + Bond <= SpendLimit

BotInv == BotTypeOK /\ ChallengesAreSound /\ Established

LEMMA BotInitially == BotInit => BotInv
<1> SUFFICES ASSUME BotInit PROVE BotInv
  OBVIOUS
<1>1. Polling \in BotStates /\ Polling.step = "idle"
  BY DEF Polling, BotStates
<1>2. Bond * Cardinality({}) <= SpendLimit
  <2>1. Cardinality({}) = 0
    BY FS_EmptySet
  <2> QED BY <2>1, BotConstants
<1> QED BY <1>1, <1>2 DEF BotInit, BotInv, BotTypeOK, ChallengesAreSound, Established,
           NothingPutAside, OnlyDisagreementsChallenged, SpendWithinHourlyLimit, InStep

\* The states the bot goes on to.
LEMMA NextBotStates ==
    ASSUME bot \in BotStates, NEW m \in Submitted
    PROVE  /\ Looking(m) \in BotStates /\ Looking(m).step = "looking"
           /\ [bot EXCEPT !.step = "evaluating", !.market = m] \in BotStates
           /\ [bot EXCEPT !.step = "evaluating", !.market = m].step = "evaluating"
           /\ [bot EXCEPT !.step = "evaluating", !.market = m].market = m
<1> DEFINE l1 == [bot EXCEPT !.step = "looking"]
           l2 == [l1 EXCEPT !.market = NoMarket]
           l3 == [l2 EXCEPT !.queue = bot.queue \ {m}]
           e1 == [bot EXCEPT !.step = "evaluating"]
           e2 == [e1 EXCEPT !.market = m]
<1>1. l1 \in BotStates /\ l1.step = "looking"
  BY DEF BotStates
<1>2. l2 \in BotStates /\ l2.step = "looking"
  <2> HIDE DEF l1
  <2> QED BY <1>1 DEF BotStates
<1>3. l3 \in BotStates /\ l3.step = "looking"
  <2>1. bot.queue \ {m} \in SUBSET Submitted
    BY DEF BotStates
  <2> HIDE DEF l2
  <2> QED BY <1>2, <2>1 DEF BotStates
<1>4. e1 \in BotStates /\ e1.step = "evaluating"
  BY DEF BotStates, InStep
<1>5. e2 \in BotStates /\ e2.step = "evaluating" /\ e2.market = m
  <2> HIDE DEF e1
  <2> QED BY <1>4 DEF BotStates
<1>6. Looking(m) = l3
  BY DEF BotStates, Looking
<1>7. [bot EXCEPT !.step = "evaluating", !.market = m] = e2
  BY DEF BotStates
<1> HIDE DEF l3, e2
<1> QED BY <1>3, <1>5, <1>6, <1>7

\* The two steps that keep the market in hand.
LEMMA SameMarketNext ==
    ASSUME bot \in BotStates, NEW place \in InStep
    PROVE  /\ [bot EXCEPT !.step = place] \in BotStates
           /\ [bot EXCEPT !.step = place].step = place
           /\ [bot EXCEPT !.step = place].market = bot.market
  BY DEF BotStates

\* Looking at the next event establishes nothing.
LEMMA LookingOn ==
    ASSUME BotInv, NEW m \in Submitted, bot' = Looking(m), UNCHANGED <<ledger, enabled>>,
           lagged' \in BOOLEAN, processed' \subseteq Submitted, challenged' \subseteq Submitted,
           indexedBonds' \subseteq challenged', ChallengesAreSound'
    PROVE  BotInv'
<1>1. bot' \in BotStates /\ bot'.step = "looking"
  BY NextBotStates DEF BotInv, BotTypeOK
<1> QED BY <1>1 DEF BotInv, BotTypeOK, Established, InStep

LEMMA SkipKeeps == ASSUME BotInv, NEW m \in Submitted, SkipEvent(m) PROVE BotInv'
<1>1. ChallengesAreSound'
  BY DEF BotInv, SkipEvent, ChallengesAreSound, NothingPutAside, OnlyDisagreementsChallenged,
         SpendWithinHourlyLimit
<1> QED BY <1>1, LookingOn DEF SkipEvent, BotInv, BotTypeOK

LEMMA ProcessKeeps == ASSUME BotInv, NEW m \in Submitted, ProcessSubmission(m) PROVE BotInv'
<1>1. CASE m \in OwnSubmission \/ ledger > ChallengeUntil[m]
  <2>1. /\ bot' = Looking(m) /\ processed' = processed \cup {m}
        /\ UNCHANGED <<ledger, verdict, enabled, challenged, indexedBonds, failedSends, lagged>>
    BY <1>1 DEF ProcessSubmission, Returned
  <2>2. ChallengesAreSound'
    BY <1>1, <2>1 DEF BotInv, ChallengesAreSound, NothingPutAside, OnlyDisagreementsChallenged,
           SpendWithinHourlyLimit
  <2> QED BY <2>1, <2>2, LookingOn DEF BotInv, BotTypeOK
<1>2. CASE ~ (m \in OwnSubmission \/ ledger > ChallengeUntil[m])
  <2>1. /\ bot' = [bot EXCEPT !.step = "evaluating", !.market = m]
        /\ UNCHANGED <<ledger, verdict, enabled, challenged, indexedBonds, failedSends, lagged, processed>>
    BY <1>2 DEF ProcessSubmission
  <2>2. bot' \in BotStates /\ bot'.step = "evaluating" /\ bot'.market = m
    BY <2>1, NextBotStates DEF BotInv, BotTypeOK
  <2>3. ChallengesAreSound'
    BY <2>1 DEF BotInv, ChallengesAreSound, NothingPutAside, OnlyDisagreementsChallenged,
           SpendWithinHourlyLimit
  <2> QED BY <1>2, <2>1, <2>2, <2>3 DEF BotInv, BotTypeOK, Established
<1> QED BY <1>1, <1>2

LEMMA EvaluateKeeps == ASSUME BotInv, EvaluateSubmission PROVE BotInv'
<1> DEFINE m == bot.market
<1>1. m \in Submitted \ OwnSubmission
  BY DEF BotInv, Established, EvaluateSubmission, InStep
<1>2. CASE verdict[m] = "disagrees" /\ enabled
  <2>1. /\ bot' = [bot EXCEPT !.step = "guarding"]
        /\ UNCHANGED <<ledger, verdict, enabled, challenged, indexedBonds, failedSends, lagged, processed>>
    BY <1>2 DEF EvaluateSubmission
  <2>2. bot' \in BotStates /\ bot'.step = "guarding" /\ bot'.market = m
    BY <2>1, SameMarketNext DEF BotInv, BotTypeOK, InStep
  <2>3. ChallengesAreSound'
    BY <2>1 DEF BotInv, ChallengesAreSound, NothingPutAside, OnlyDisagreementsChallenged,
           SpendWithinHourlyLimit
  <2> QED BY <1>1, <1>2, <2>1, <2>2, <2>3 DEF BotInv, BotTypeOK, Established
<1>3. CASE ~ (verdict[m] = "disagrees" /\ enabled)
  <2>1. /\ bot' = Looking(m) /\ processed' = IF enabled THEN processed \cup {m} ELSE processed
        /\ UNCHANGED <<ledger, verdict, enabled, challenged, indexedBonds, failedSends, lagged>>
    BY <1>3 DEF EvaluateSubmission, Returned
  <2>2. ChallengesAreSound'
    BY <1>3, <2>1 DEF BotInv, ChallengesAreSound, NothingPutAside, OnlyDisagreementsChallenged,
           SpendWithinHourlyLimit
  <2>3. processed' \subseteq Submitted
    BY <1>1, <2>1 DEF BotInv, BotTypeOK
  <2> QED BY <1>1, <2>1, <2>2, <2>3, LookingOn DEF BotInv, BotTypeOK
<1> QED BY <1>2, <1>3

\* The guard lets a bond pass when those it knows of leave room for one more: all
\* there are, unless a dispute was not indexed.
LEMMA GuardKeeps == ASSUME BotInv, BondSpendGuard PROVE BotInv'
<1> DEFINE m == bot.market
<1>1. m \in Submitted \ OwnSubmission /\ verdict[m] = "disagrees"
  BY DEF BotInv, Established, BondSpendGuard, InStep
<1>2. /\ lagged' = (lagged \/ indexedBonds # challenged) /\ lagged' \in BOOLEAN
      /\ ~ lagged' => ~ lagged /\ indexedBonds = challenged
      /\ UNCHANGED <<ledger, verdict, enabled, challenged, indexedBonds, failedSends>>
  BY DEF BondSpendGuard, BotInv, BotTypeOK
<1>3. CASE ~ AssertBondSpend \/ ~ enabled
  <2>1. bot' = Looking(m) /\ UNCHANGED processed
    BY <1>3 DEF BondSpendGuard, Returned
  <2>2. ChallengesAreSound'
    BY <1>2, <2>1 DEF BotInv, ChallengesAreSound, NothingPutAside, OnlyDisagreementsChallenged,
           SpendWithinHourlyLimit
  <2> QED BY <1>1, <1>2, <2>1, <2>2, LookingOn DEF BotInv, BotTypeOK
<1>4. CASE AssertBondSpend /\ enabled
  <2>1. bot' = [bot EXCEPT !.step = "sending"] /\ UNCHANGED processed
    BY <1>4 DEF BondSpendGuard
  <2>2. bot' \in BotStates /\ bot'.step = "sending" /\ bot'.market = m
    BY <2>1, SameMarketNext DEF BotInv, BotTypeOK, InStep
  <2>3. ChallengesAreSound'
    BY <1>2, <2>1 DEF BotInv, ChallengesAreSound, NothingPutAside, OnlyDisagreementsChallenged,
           SpendWithinHourlyLimit
  <2>4. ~ lagged' => Bond * Cardinality(challenged') + Bond <= SpendLimit
    BY <1>2, <1>4 DEF AssertBondSpend, HourlySpend
  <2> QED BY <1>1, <1>2, <2>1, <2>2, <2>3, <2>4 DEF BotInv, BotTypeOK, Established
<1> QED BY <1>3, <1>4

\* One more challenge costs one more bond.
LEMMA OneMoreBond ==
    ASSUME NEW S \in SUBSET Submitted, NEW m \in Submitted \ S
    PROVE  Bond * Cardinality(S \cup {m}) = Bond * Cardinality(S) + Bond
<1>1. IsFiniteSet(S)
  BY BotConstants, FS_Subset
<1>2. Cardinality(S) \in Nat /\ Cardinality(S \cup {m}) = Cardinality(S) + 1
  BY <1>1, FS_CardinalityType, FS_AddElement
<1> QED BY <1>2, BotConstants

LEMMA SendKeeps == ASSUME BotInv, Send(bot.market, enabled) PROVE BotInv'
<1> DEFINE m == bot.market
           accepted == m \notin challenged /\ ledger <= ChallengeUntil[m]
<1>1. m \in Submitted \ OwnSubmission /\ verdict[m] = "disagrees" /\ bot.step = "sending"
  BY DEF BotInv, Established, Send, InStep
<1>2. /\ bot' = Looking(m) /\ processed' = IF enabled THEN processed \cup {m} ELSE processed
      /\ challenged' = IF enabled /\ accepted THEN challenged \cup {m} ELSE challenged
      /\ failedSends' = IF enabled /\ ~ accepted THEN failedSends \cup {m} ELSE failedSends
      /\ UNCHANGED <<ledger, verdict, enabled, indexedBonds, lagged>>
  BY DEF Send, Returned
<1>3. NothingPutAside'
  BY <1>2 DEF BotInv, ChallengesAreSound, NothingPutAside
<1>4. OnlyDisagreementsChallenged'
  BY <1>1, <1>2 DEF BotInv, ChallengesAreSound, OnlyDisagreementsChallenged
<1>5. SpendWithinHourlyLimit'
  <2>1. CASE enabled /\ accepted
    <3>1. Bond * Cardinality(challenged \cup {m}) = Bond * Cardinality(challenged) + Bond
      BY <1>1, <2>1, OneMoreBond DEF BotInv, BotTypeOK
    <3>2. ~ lagged => Bond * Cardinality(challenged) + Bond <= SpendLimit
      BY <1>1 DEF BotInv, Established
    <3> QED BY <1>2, <2>1, <3>1, <3>2 DEF SpendWithinHourlyLimit
  <2>2. CASE ~ (enabled /\ accepted)
    BY <1>2, <2>2 DEF BotInv, ChallengesAreSound, SpendWithinHourlyLimit
  <2> QED BY <2>1, <2>2
<1>6. /\ processed' \subseteq Submitted /\ challenged' \subseteq Submitted
      /\ indexedBonds' \subseteq challenged'
  BY <1>1, <1>2 DEF BotInv, BotTypeOK
<1> HIDE DEF m
<1> QED BY <1>1, <1>2, <1>3, <1>4, <1>5, <1>6, LookingOn DEF BotInv, BotTypeOK, ChallengesAreSound

LEMMA SendFailsKeeps == ASSUME BotInv, SendFails PROVE BotInv'
<1> DEFINE m == bot.market
<1>1. m \in Submitted
  BY DEF BotInv, Established, SendFails, InStep
<1>2. /\ bot' = Looking(m) /\ processed' = IF enabled THEN processed \cup {m} ELSE processed
      /\ failedSends' = failedSends \cup {m}
      /\ UNCHANGED <<ledger, verdict, enabled, challenged, indexedBonds, lagged>>
  BY DEF SendFails, Returned
<1>3. ChallengesAreSound'
  BY <1>2 DEF BotInv, ChallengesAreSound, NothingPutAside, OnlyDisagreementsChallenged,
         SpendWithinHourlyLimit
<1>4. processed' \subseteq Submitted
  BY <1>1, <1>2 DEF BotInv, BotTypeOK
<1> QED BY <1>1, <1>2, <1>3, <1>4, LookingOn DEF BotInv, BotTypeOK

LEMMA CycleKeeps == ASSUME BotInv, PollEvents \/ PollDone \/ CycleFails PROVE BotInv'
<1>1. bot' \in BotStates /\ bot'.step \in {"idle", "looking"}
  <2>1. Polling \in BotStates /\ Polling.step = "idle"
    BY DEF Polling, BotStates
  <2>2. CASE PollEvents
    <3> DEFINE events == {m \in Submitted : Appears[m] <= ledger /\ Appears[m] + Lookback >= ledger}
               p1 == [Polling EXCEPT !.step = "looking"]
               p2 == [p1 EXCEPT !.queue = events]
    <3>1. p1 \in BotStates /\ p1.step = "looking"
      BY <2>1 DEF BotStates
    <3>2. events \in SUBSET Submitted
      OBVIOUS
    <3>3. p2 \in BotStates /\ p2.step = "looking"
      <4> HIDE DEF p1, events
      <4> QED BY <3>1, <3>2 DEF BotStates
    <3>4. bot' = [Polling EXCEPT !.step = "looking", !.queue = events]
      BY <2>2 DEF PollEvents
    <3> HIDE DEF events
    <3>5. [Polling EXCEPT !.step = "looking", !.queue = events] = p2
      BY DEF Polling
    <3> HIDE DEF p2
    <3> QED BY <3>3, <3>4, <3>5
  <2> QED BY <2>1, <2>2 DEF PollDone, CycleFails
<1>2. /\ processed' \subseteq processed
      /\ UNCHANGED <<ledger, verdict, enabled, challenged, indexedBonds, failedSends, lagged>>
  BY DEF PollEvents, PollDone, CycleFails
<1>3. ChallengesAreSound'
  BY <1>2 DEF BotInv, ChallengesAreSound, NothingPutAside, OnlyDisagreementsChallenged,
         SpendWithinHourlyLimit
<1> QED BY <1>1, <1>2, <1>3 DEF BotInv, BotTypeOK, Established, InStep

LEMMA OutsideBotKeeps ==
    ASSUME BotInv, NextLedger \/ IndexDispute \/ SetEnabled \/ UNCHANGED botVars PROVE BotInv'
<1>1. CASE NextLedger
  <2>1. \A m \in Submitted : ChallengeUntil[m] \in Nat
    BY BotConstants
  <2> QED BY <1>1, <2>1 DEF NextLedger, BotInv, BotTypeOK, ChallengesAreSound, NothingPutAside,
             OnlyDisagreementsChallenged, SpendWithinHourlyLimit, Established
<1>2. CASE IndexDispute \/ SetEnabled \/ UNCHANGED botVars
  BY <1>2 DEF IndexDispute, SetEnabled, botVars, BotInv, BotTypeOK, ChallengesAreSound,
     NothingPutAside, OnlyDisagreementsChallenged, SpendWithinHourlyLimit, Established
<1> QED BY <1>1, <1>2

LEMMA BotStepKeeps == BotInv /\ [BotNext]_botVars => BotInv'
<1> QED BY OutsideBotKeeps, SkipKeeps, ProcessKeeps, EvaluateKeeps, GuardKeeps, SendKeeps,
           SendFailsKeeps, CycleKeeps DEF BotNext, SubmitChallengeOnChain

\* challenge-bot.ts: what the bot has in hand it has checked.
THEOREM BotInvariant == BotSpec => []BotInv
<1> QED BY BotInitially, BotStepKeeps, PTL DEF BotSpec

\* For any submissions, deadlines and limits, and however the bot is switched, fails
\* and restarts: a bond is spent only on a disagreement about another's submission
\* and within the hourly limit that the indexed disputes allow, and a market is put
\* aside only when nothing is left to do for it.
THEOREM ChallengesAlwaysSound == BotSpec => []ChallengesAreSound
<1>1. BotInv => ChallengesAreSound
  BY DEF BotInv
<1> QED BY <1>1, BotInvariant, PTL

\* Wherever in its cycle the bot is when the switch goes off, it sends no challenge.
THEOREM KillSwitchAlwaysHolds == BotSpec => KillSwitchHolds
<1>1. [BotNext]_botVars => [challenged' # challenged => enabled]_botVars
  <2> SUFFICES ASSUME BotNext, challenged' # challenged PROVE enabled
    OBVIOUS
  <2>1. Send(bot.market, enabled)
    BY DEF BotNext, NextLedger, IndexDispute, SetEnabled, PollEvents, PollDone, SkipEvent,
           ProcessSubmission, EvaluateSubmission, BondSpendGuard, SubmitChallengeOnChain,
           SendFails, CycleFails
  <2> QED BY <2>1 DEF Send
<1> QED BY <1>1, PTL DEF BotSpec, KillSwitchHolds

-----------------------------------------------------------------------------
(* The finalization guards: cancellation.ts and finalize-once.ts.          *)

InHand == {"reading", "outcome", "rereading", "submitting"}
GuardCalls == {NoCall} \cup [at : InHand, market : GuardedMarkets, kind : Kinds]

\* A claimed market belongs to one live call, and each live call's market is claimed.
ClaimsMatchCalls ==
    /\ \A c \in Callers : call[c] # NoCall => call[c].market \in claimedIds
    /\ \A m \in claimedIds : \E c \in Callers : call[c] # NoCall /\ call[c].market = m

\* GuardsHold is not inductive: that a call's market is claimed is what keeps a
\* second call from it, and that a claim belongs to a live call what releases it.
GuardInv ==
    /\ call \in [Callers -> GuardCalls]
    /\ marketState \in [GuardedMarkets -> {"open", "cancelled", "resolved"}]
    /\ OneCallPerMarket
    /\ \A m \in finalizedSeen : m \in GuardedMarkets /\ marketState[m] = "resolved"
    /\ ClaimsMatchCalls

\* A place in the code is one a call in hand is at, about a guarded market.
LEMMA CallInHand ==
    ASSUME GuardInv, NEW c \in Callers, call[c].at # "none"
    PROVE  /\ call[c] \in [at : InHand, market : GuardedMarkets, kind : Kinds]
           /\ call[c] # NoCall
  BY DEF GuardInv, GuardCalls, NoCall

\* Taking a market nobody has claimed.
LEMMA ClaimKeeps ==
    ASSUME GuardInv, NEW c \in Callers, NEW m \in GuardedMarkets, NEW kind \in Kinds,
           ClaimMarket(c, m, kind)
    PROVE  GuardInv'
<1> DEFINE taken == [at |-> "reading", market |-> m, kind |-> kind]
<1>1. taken \in [at : InHand, market : GuardedMarkets, kind : Kinds] /\ taken # NoCall
  BY DEF InHand, NoCall
<1>2. taken.market = m
  OBVIOUS
<1>3. /\ call[c] = NoCall /\ m \notin claimedIds
      /\ claimedIds' = claimedIds \cup {m}
      /\ call' = [call EXCEPT ![c] = taken]
      /\ UNCHANGED <<finalizedSeen, marketState>>
  BY DEF ClaimMarket
<1> HIDE DEF taken
<1>4. call' \in [Callers -> GuardCalls]
  BY <1>1, <1>3 DEF GuardInv, GuardCalls
<1>5. \A d \in Callers : call'[d] = IF d = c THEN taken ELSE call[d]
  BY <1>3 DEF GuardInv
<1>6. OneCallPerMarket'
  BY <1>2, <1>3, <1>5 DEF GuardInv, OneCallPerMarket, ClaimsMatchCalls
<1>7. ClaimsMatchCalls'
  BY <1>1, <1>2, <1>3, <1>5 DEF GuardInv, ClaimsMatchCalls
<1> QED BY <1>3, <1>4, <1>6, <1>7 DEF GuardInv

\* Going on with the market in hand.
LEMMA MovingKeeps ==
    ASSUME GuardInv, NEW c \in Callers, call[c].at # "none", NEW place \in InHand,
           MoveTo(c, place), UNCHANGED <<claimedIds, finalizedSeen, marketState>>
    PROVE  GuardInv'
<1> DEFINE moved == [call[c] EXCEPT !.at = place]
<1>1. call[c] \in [at : InHand, market : GuardedMarkets, kind : Kinds] /\ call[c] # NoCall
  BY CallInHand
<1>2. moved \in [at : InHand, market : GuardedMarkets, kind : Kinds] /\ moved # NoCall
  BY <1>1 DEF InHand, NoCall
<1>3. moved.market = call[c].market
  BY <1>1
<1>4. call' = [call EXCEPT ![c] = moved]
  BY DEF MoveTo
<1> HIDE DEF moved
<1>5. call' \in [Callers -> GuardCalls]
  BY <1>2, <1>4 DEF GuardInv, GuardCalls
<1>6. \A d \in Callers : call'[d] = IF d = c THEN moved ELSE call[d]
  BY <1>4 DEF GuardInv
<1>7. \A d \in Callers : call'[d].market = call[d].market /\ (call'[d] # NoCall <=> call[d] # NoCall)
  BY <1>1, <1>2, <1>3, <1>6
<1>8. OneCallPerMarket' /\ ClaimsMatchCalls'
  BY <1>7 DEF GuardInv, OneCallPerMarket, ClaimsMatchCalls
<1> QED BY <1>5, <1>8 DEF GuardInv

\* Letting the market in hand go, having learned at most that it is resolved.
LEMMA ReleaseKeeps ==
    ASSUME GuardInv, NEW c \in Callers, call[c].at # "none", Release(c),
           marketState' \in [GuardedMarkets -> {"open", "cancelled", "resolved"}],
           \A m \in GuardedMarkets : marketState[m] = "resolved" => marketState'[m] = "resolved",
           \A m \in finalizedSeen' :
              m \in finalizedSeen \/ (m = call[c].market /\ marketState'[m] = "resolved")
    PROVE  GuardInv'
<1>1. call[c] \in [at : InHand, market : GuardedMarkets, kind : Kinds] /\ call[c] # NoCall
  BY CallInHand
<1>2. call' \in [Callers -> GuardCalls]
  BY DEF Release, GuardInv, GuardCalls
<1>3. \A d \in Callers : call'[d] = IF d = c THEN NoCall ELSE call[d]
  BY DEF Release, GuardInv
<1>4. OneCallPerMarket'
  BY <1>3 DEF GuardInv, OneCallPerMarket
<1>5. claimedIds' = claimedIds \ {call[c].market}
  BY DEF Release
<1>6. ASSUME NEW d \in Callers, call'[d] # NoCall PROVE call'[d].market \in claimedIds'
  <2>1. d # c /\ call'[d] = call[d]
    BY <1>3, <1>6
  <2>2. call[d].market # call[c].market
    BY <1>1, <1>6, <2>1 DEF GuardInv, OneCallPerMarket
  <2> QED BY <1>5, <1>6, <2>1, <2>2 DEF GuardInv, ClaimsMatchCalls
<1>7. ASSUME NEW m \in claimedIds' PROVE \E d \in Callers : call'[d] # NoCall /\ call'[d].market = m
  <2>1. PICK d \in Callers : call[d] # NoCall /\ call[d].market = m
    BY <1>5, <1>7 DEF GuardInv, ClaimsMatchCalls
  <2>2. d # c
    BY <1>5, <1>7, <2>1
  <2> QED BY <1>3, <2>1, <2>2
<1>8. \A m \in finalizedSeen' : m \in GuardedMarkets /\ marketState'[m] = "resolved"
  BY <1>1 DEF GuardInv
<1> QED BY <1>2, <1>4, <1>6, <1>7, <1>8 DEF GuardInv, ClaimsMatchCalls

LEMMA GuardStepKeeps == GuardInv /\ [GuardNext]_guardVars => GuardInv'
<1> SUFFICES ASSUME GuardInv, [GuardNext]_guardVars PROVE GuardInv'
  OBVIOUS
<1>1. ASSUME NEW c \in Callers, ReadState(c) PROVE GuardInv'
  <2>1. call[c].at # "none" /\ UNCHANGED marketState
    BY <1>1 DEF ReadState
  <2>2. CASE Release(c)
    BY <1>1, <2>1, <2>2, ReleaseKeeps DEF ReadState, GuardInv
  <2>3. CASE \E place \in InHand : MoveTo(c, place) /\ UNCHANGED <<claimedIds, finalizedSeen>>
    BY <2>1, <2>3, MovingKeeps
  <2> QED BY <1>1, <2>2, <2>3 DEF ReadState, InHand
<1>2. ASSUME NEW c \in Callers, ReadAgain(c) PROVE GuardInv'
  <2>1. call[c].at # "none" /\ UNCHANGED marketState
    BY <1>2 DEF ReadAgain
  <2>2. CASE Release(c)
    BY <1>2, <2>1, <2>2, ReleaseKeeps DEF ReadAgain, GuardInv
  <2>3. CASE MoveTo(c, "submitting") /\ UNCHANGED <<claimedIds, finalizedSeen>>
    BY <2>1, <2>3, MovingKeeps DEF InHand
  <2> QED BY <1>2, <2>2, <2>3 DEF ReadAgain
<1>3. ASSUME NEW c \in Callers, NEW agreed \in BOOLEAN, FetchOutcome(c, agreed) PROVE GuardInv'
  <2>1. call[c].at # "none" /\ UNCHANGED <<finalizedSeen, marketState>>
    BY <1>3 DEF FetchOutcome
  <2>2. CASE Release(c)
    BY <2>1, <2>2, ReleaseKeeps DEF GuardInv
  <2>3. CASE MoveTo(c, "rereading") /\ UNCHANGED claimedIds
    BY <2>1, <2>3, MovingKeeps DEF InHand
  <2> QED BY <1>3, <2>2, <2>3 DEF FetchOutcome
<1>4. ASSUME NEW c \in Callers, SubmitReturns(c) PROVE GuardInv'
  <2>1. call[c].at # "none" /\ call[c].market \in GuardedMarkets
    BY <1>4, CallInHand DEF SubmitReturns
  <2>2. /\ marketState' = [marketState EXCEPT ![call[c].market] = "resolved"]
        /\ finalizedSeen' = finalizedSeen \cup {call[c].market}
        /\ Release(c)
    BY <1>4 DEF SubmitReturns
  <2>3. /\ marketState' \in [GuardedMarkets -> {"open", "cancelled", "resolved"}]
        /\ \A m \in GuardedMarkets : marketState[m] = "resolved" => marketState'[m] = "resolved"
        /\ marketState'[call[c].market] = "resolved"
    BY <2>1, <2>2 DEF GuardInv
  <2> QED BY <2>1, <2>2, <2>3, ReleaseKeeps
<1>5. ASSUME NEW c \in Callers, SubmitThrows(c) PROVE GuardInv'
  BY <1>5, ReleaseKeeps DEF SubmitThrows, GuardInv
<1>6. ASSUME NEW m \in GuardedMarkets, NEW to \in {"cancelled", "resolved"}, ChainMoves(m, to)
      PROVE GuardInv'
  BY <1>6 DEF ChainMoves, GuardInv, OneCallPerMarket, ClaimsMatchCalls
<1>7. CASE UNCHANGED guardVars
  BY <1>7 DEF guardVars, GuardInv, OneCallPerMarket, ClaimsMatchCalls
<1> QED BY <1>1, <1>2, <1>3, <1>4, <1>5, <1>6, <1>7, ClaimKeeps DEF GuardNext

\* cancellation.ts and finalize-once.ts: claims and calls in hand are the same.
THEOREM GuardInvariant == GuardSpec => []GuardInv
<1>1. GuardInit => GuardInv
  BY DEF GuardInit, GuardInv, GuardCalls, OneCallPerMarket, ClaimsMatchCalls
<1> QED BY <1>1, GuardStepKeeps, PTL DEF GuardSpec

\* However many calls about however many markets interleave at their awaits, two of
\* them never have the same market in hand, what is remembered as finalized is
\* finalized on chain, and no claim outlives its call.
THEOREM GuardsAlwaysHold == GuardSpec => []GuardsHold
<1>1. GuardInv => GuardsHold
  BY DEF GuardInv, GuardsHold, MemoryIsTrue, ClaimsMatchCalls
<1> QED BY <1>1, GuardInvariant, PTL

\* The outcome in hand, a call goes on to submit only a market it has just read as open.
THEOREM CancelledAlwaysNoticed == GuardSpec => CancelledIsNoticed
<1> DEFINE Noticed == \A c \in Callers :
             (call[c].at = "rereading" /\ call'[c].at = "submitting") => marketState[call[c].market] = "open"
<1>1. GuardInv /\ [GuardNext]_guardVars => [Noticed]_guardVars
  <2> SUFFICES ASSUME GuardInv, GuardNext, NEW c \in Callers,
                      call[c].at = "rereading", call'[c].at = "submitting"
               PROVE  marketState[call[c].market] = "open"
    OBVIOUS
  <2>1. call \in [Callers -> GuardCalls]
    BY DEF GuardInv
  <2>3. ASSUME NEW d \in Callers, NEW m \in GuardedMarkets, NEW kind \in Kinds, ClaimMarket(d, m, kind)
        PROVE FALSE
    BY <2>1, <2>3 DEF ClaimMarket, NoCall
  <2>4. ASSUME NEW d \in Callers, Release(d) PROVE FALSE
    BY <2>1, <2>4 DEF Release, NoCall
  <2>5. ASSUME NEW d \in Callers, NEW place, MoveTo(d, place) PROVE d = c
    BY <2>1, <2>5 DEF MoveTo
  <2>6. ASSUME NEW d \in Callers, ReadState(d) PROVE FALSE
    BY <2>4, <2>5, <2>6 DEF ReadState
  <2>7. ASSUME NEW d \in Callers, NEW agreed \in BOOLEAN, FetchOutcome(d, agreed) PROVE FALSE
    BY <2>4, <2>5, <2>7 DEF FetchOutcome
  <2>8. ASSUME NEW d \in Callers, ReadAgain(d) PROVE marketState[call[c].market] = "open"
    BY <2>4, <2>5, <2>8 DEF ReadAgain
  <2>9. ASSUME NEW m, NEW to, ChainMoves(m, to) PROVE FALSE
    BY <2>9 DEF ChainMoves
  <2> QED BY <2>3, <2>4, <2>6, <2>7, <2>8, <2>9 DEF GuardNext, SubmitReturns, SubmitThrows
<1> QED BY <1>1, GuardInvariant, PTL DEF GuardSpec, CancelledIsNoticed

-----------------------------------------------------------------------------
(* The bots together *)

\* No bond is spent but where it may be, and no market is in two hands, whatever
\* fails, restarts and moves on chain between their steps.
THEOREM BotsAlwaysSound == BotSpec /\ GuardSpec => []BotsAreSound
<1> QED BY ChallengesAlwaysSound, GuardsAlwaysHold, PTL DEF BotsAreSound

\* A switch thrown and a cancellation are noticed before anything is sent.
THEOREM LastLookAlwaysHolds == BotSpec /\ GuardSpec => LastLookHolds
<1> QED BY KillSwitchAlwaysHolds, CancelledAlwaysNoticed, PTL DEF LastLookHolds
=============================================================================
