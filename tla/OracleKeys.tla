----------------------------- MODULE OracleKeys -----------------------------
(***************************************************************************)
(* Rotation of the resolver signing key, key-rotation.ts: the key manager  *)
(* (one active key, the rotated-out keys still accepted) and the scheduler *)
(* that registers an incoming key on chain, promotes it, verifies it with  *)
(* a real operation, and retires the outgoing key after an overlap.        *)
(*                                                                         *)
(* The three hooks are calls to the chain: each may take effect and        *)
(* answer, fail without effect, or take effect and fail all the same.      *)
(***************************************************************************)
EXTENDS Naturals, FiniteSets, Integers, Sequences, SequencesExt

CONSTANTS Keys,          \* resolver addresses
          FirstKey,      \* the key the manager is constructed with
          SecretChanges, \* bound: times an operator replaces the mounted secret
          HookFaults     \* bound: hook calls that fail

VARIABLES secretKey,    \* what provider.getKey() answers
          activeKey,    \* ResolverKeyManager.activeKey
          pendingKeys,  \* ResolverKeyManager.pendingKeys
          registered,   \* the resolvers the contract accepts (external)
          rotation,     \* the runOnce() in progress
          unretired,    \* keys whose retirement hook failed
          secretWrites, hookFailures

rotationVars == <<secretKey, activeKey, pendingKeys, registered, rotation,
                  unretired, secretWrites, hookFailures>>

NoRotation == [stage |-> "idle", incoming |-> FirstKey, outgoing |-> FirstKey]

RotationInit ==
    /\ secretKey = FirstKey
    /\ activeKey = FirstKey
    /\ pendingKeys = {}
    /\ registered = {FirstKey}
    /\ rotation = NoRotation
    /\ unretired = {}
    /\ secretWrites = 0
    /\ hookFailures = 0

\* The secret manager delivers another key to the mounted file.
ReplaceSecret(key) ==
    /\ secretWrites < SecretChanges
    /\ key # secretKey
    /\ secretKey' = key
    /\ secretWrites' = secretWrites + 1
    /\ UNCHANGED <<activeKey, pendingKeys, registered, rotation, unretired, hookFailures>>

\* A slip of rotate(): a key rotated back to stays pending.
PendingAfter_KeepsNew(key) == pendingKeys \cup {activeKey}

\* rotate(): the old active key stays accepted, the new one is no longer pending.
PendingAfter(key) == IF key = activeKey THEN pendingKeys
                     ELSE (pendingKeys \cup {activeKey}) \ {key}

\* The interval fires, the provider answers a key that is not the active one.
StartRotation ==
    /\ rotation.stage = "idle"
    /\ secretKey # activeKey
    /\ rotation' = [stage |-> "registering", incoming |-> secretKey, outgoing |-> activeKey]
    /\ UNCHANGED <<secretKey, activeKey, pendingKeys, registered, unretired, secretWrites, hookFailures>>

MayFail == hookFailures < HookFaults

\* registerIncomingKey succeeded: promote the incoming key.
RegisterIncoming ==
    /\ rotation.stage = "registering"
    /\ registered' = registered \cup {rotation.incoming}
    /\ pendingKeys' = PendingAfter(rotation.incoming)
    /\ activeKey' = rotation.incoming
    /\ rotation' = [rotation EXCEPT !.stage = "verifying"]
    /\ UNCHANGED <<secretKey, unretired, secretWrites, hookFailures>>

\* A slip: `running` is not reset when the hook throws.
RegisterFails_NoFinally(landed) ==
    /\ rotation.stage = "registering"
    /\ MayFail
    /\ hookFailures' = hookFailures + 1
    /\ rotation' = [rotation EXCEPT !.stage = "running"]
    /\ UNCHANGED <<secretKey, activeKey, pendingKeys, registered, unretired, secretWrites>>

\* registerIncomingKey rejected: runOnce throws with nothing promoted, though
\* the registration may have reached the chain.
RegisterFails(landed) ==
    /\ rotation.stage = "registering"
    /\ MayFail
    /\ hookFailures' = hookFailures + 1
    /\ registered' = IF landed THEN registered \cup {rotation.incoming} ELSE registered
    /\ rotation' = NoRotation
    /\ UNCHANGED <<secretKey, activeKey, pendingKeys, unretired, secretWrites>>

VerifyIncoming ==
    /\ rotation.stage = "verifying"
    /\ rotation' = [rotation EXCEPT !.stage = "overlap"]
    /\ UNCHANGED <<secretKey, activeKey, pendingKeys, registered, unretired, secretWrites, hookFailures>>

\* Verification failed: rotate back, revoke the incoming key.
VerifyFails ==
    /\ rotation.stage = "verifying"
    /\ MayFail
    /\ hookFailures' = hookFailures + 1
    /\ pendingKeys' = PendingAfter(rotation.outgoing) \ {rotation.incoming}
    /\ activeKey' = rotation.outgoing
    /\ rotation' = NoRotation
    /\ UNCHANGED <<secretKey, registered, unretired, secretWrites>>

\* A slip: what is retired is the key active when the overlap ends.
RetireOutgoing_Active ==
    /\ rotation.stage = "overlap"
    /\ registered' = registered \ {activeKey}
    /\ pendingKeys' = pendingKeys \ {rotation.outgoing}
    /\ rotation' = NoRotation
    /\ UNCHANGED <<secretKey, activeKey, unretired, secretWrites, hookFailures>>

\* The overlap ended and the chain dropped the outgoing key.
RetireOutgoing ==
    /\ rotation.stage = "overlap"
    /\ registered' = registered \ {rotation.outgoing}
    /\ pendingKeys' = pendingKeys \ {rotation.outgoing}
    /\ unretired' = unretired \ {rotation.outgoing}
    /\ rotation' = NoRotation
    /\ UNCHANGED <<secretKey, activeKey, secretWrites, hookFailures>>

\* retireOutgoingKey rejected: the outgoing key stays pending and no later
\* run comes back to it, since the incoming key is now the active one.
RetireFails(landed) ==
    /\ rotation.stage = "overlap"
    /\ MayFail
    /\ hookFailures' = hookFailures + 1
    /\ registered' = IF landed THEN registered \ {rotation.outgoing} ELSE registered
    /\ unretired' = unretired \cup {rotation.outgoing}
    /\ rotation' = NoRotation
    /\ UNCHANGED <<secretKey, activeKey, pendingKeys, secretWrites>>

RotationStep ==
    \/ StartRotation \/ RegisterIncoming \/ VerifyIncoming \/ VerifyFails \/ RetireOutgoing
    \/ \E landed \in BOOLEAN : RegisterFails(landed) \/ RetireFails(landed)

RotationNext == RotationStep \/ \E key \in Keys : ReplaceSecret(key)

\* setInterval keeps calling runOnce, and every await of it settles.
RotationFairness == WF_rotationVars(RotationStep)

RotationSpec == RotationInit /\ [][RotationNext]_rotationVars /\ RotationFairness

-----------------------------------------------------------------------------
\* At no point of a rotation, failed or not, is the signing key one the
\* contract does not accept.
SignerIsRegistered == activeKey \in registered

\* Between rotations a rotated-out key is still pending only when the hook that
\* should have retired it failed: a rollback, or a rotation back to a former key,
\* leaves none of them behind.  (An incoming key whose verification failed stays
\* registered on the contract, and nobody takes it out.)
OnlyUnretiredLinger == rotation.stage = "idle" => pendingKeys \subseteq unretired \ {activeKey}

\* The key the secret manager holds ends up as the signing key.
RotationCatchesUp == <>[](activeKey = secretKey)

-----------------------------------------------------------------------------
(***************************************************************************)
(* backend/src/config/oracleApiKeys.ts: ORACLE_API_KEYS, the list of       *)
(* "<provider>:<credential>" entries, and the provider a presented key     *)
(* submits for.  A digest is modelled by the key it is of.  question is    *)
(* one configuration.                                                      *)
(***************************************************************************)

CONSTANTS Providers, \* Stellar public keys
          ApiKeys    \* keys a provider may hold

VARIABLE question

Wildcard == "*"
DevKey == "test-oracle-api-key"
NoConfig == [accepted |-> FALSE, credentials |-> {}]

-----------------------------------------------------------------------------
\* parseEntry: one entry is malformed in one of these ways, or names a provider
\* and a raw or hashed key.
Malformed == [provider |-> "", form |-> "malformed", key |-> ""]
Entries == {Malformed} \cup [provider : Providers \cup {Wildcard}, form : {"raw", "sha256"}, key : ApiKeys]
ReadsAs(entry, production) ==
    /\ entry.form # "malformed" /\ entry.provider # Wildcard
    /\ production => entry.form = "sha256"

Credential(entry) == [provider |-> entry.provider, key |-> entry.key, hashed |-> entry.form = "sha256"]

\* A slip: the digests of two entries are not compared.
Duplicates_ByProvider(entries) ==
    \E i, j \in DOMAIN entries : i # j /\ entries[i].provider = entries[j].provider

\* A provider has one key, and a key one provider, raw and hashed forms alike.
Duplicates(entries) ==
    \E i, j \in DOMAIN entries : i # j /\ ( \/ entries[i].provider = entries[j].provider
                                            \/ entries[i].key = entries[j].key)

\* A slip: production falls back to the published development key as well.
Unset_Dev(production) ==
    [accepted |-> TRUE,
     credentials |-> {[provider |-> Wildcard, key |-> DevKey, hashed |-> FALSE]}]

\* Nothing is configured; the legacy singular key only adds a warning or an error.
Unset(production) ==
    IF production THEN NoConfig
    ELSE [accepted |-> TRUE,
          credentials |-> {[provider |-> Wildcard, key |-> DevKey, hashed |-> FALSE]}]

\* parseOracleApiKeys
Parse(entries, production) ==
    IF entries = <<>> THEN Unset(production)
    ELSE IF Duplicates(entries) \/ \E i \in DOMAIN entries : ~ReadsAs(entries[i], production)
    THEN NoConfig
    ELSE [accepted |-> TRUE, credentials |-> {Credential(entries[i]) : i \in DOMAIN entries}]

\* resolveOracleCredential: the credentials a presented key is one of.
Resolved(key, credentials) == {c \in credentials : c.key = key}

\* credentialCanSubmitFor
CanSubmitFor(credential, provider) == credential.provider \in {Wildcard, provider}
MaySubmit(key, credentials, provider) == \E c \in Resolved(key, credentials) : CanSubmitFor(c, provider)

-----------------------------------------------------------------------------
KeyQuestions == [about : {"keys"}, entries : SeqOf(Entries, 2), production : BOOLEAN]

KeysInit == question = [about |-> "nothing"]
AskKeys == \E q \in KeyQuestions : question' = q
KeysNext == question.about = "nothing" /\ AskKeys
KeysSpec == KeysInit /\ [][KeysNext]_question

\* A configuration the service starts with attributes every submission: each
\* entry's key submits for its provider and for no other, and in production no
\* key is kept in the clear.
KeysAttribute ==
    question.about = "keys" =>
        LET config == Parse(question.entries, question.production) IN
        config.accepted => \A i \in DOMAIN question.entries, p \in Providers :
            /\ MaySubmit(question.entries[i].key, config.credentials, p)
                   <=> p = question.entries[i].provider
            /\ question.production => \A c \in config.credentials : c.hashed

\* Deleting a provider's entry in production revokes it, and it alone: nobody
\* submits for that provider any more, and the others' keys work as before.
RevocationIsExact ==
    (question.about = "keys" /\ question.production) =>
        \A i \in DOMAIN question.entries :
            LET before == Parse(question.entries, TRUE)
                after == Parse(RemoveAt(question.entries, i), TRUE) IN
            before.accepted => \A key \in ApiKeys \cup {DevKey}, p \in Providers :
                IF p = question.entries[i].provider
                THEN ~MaySubmit(key, after.credentials, p)
                ELSE MaySubmit(key, after.credentials, p) <=> MaySubmit(key, before.credentials, p)

\* Whom a presented key submits for is what the list of keys says, before and
\* after an entry is deleted.
KeysSayWhoSubmits == KeysAttribute /\ RevocationIsExact

\* Keys are in step with those who accept them: what signs is accepted by the
\* contract, what was rotated out is pending only where its retirement failed, and
\* a provider's key submits for that provider alone.
KeysAreSound == SignerIsRegistered /\ OnlyUnretiredLinger /\ KeysSayWhoSubmits
=============================================================================
