------------------------- MODULE OracleRunner_proofs -------------------------
(***************************************************************************)
(* For any number of aggregators, members and transactions, whatever the   *)
(* API and the indexer write into the same row: what the row says is the   *)
(* verdict of who finalized it, what is announced is the verdict of the    *)
(* contract, and while no two runners overlapped, none died between        *)
(* sending and recording and no hash was refused or deleted with its row,  *)
(* at most one resolution may still land.                                  *)
(***************************************************************************)
EXTENDS OracleRunner, FiniteSetTheorems, TLAPS

States == Verdicts \union {"open", "cancelled"}
Outcomes == Verdicts \union {Undecided}
Statuses == {"pending", "success", "failed", "dropped"}
Steps == {"idle", "tallying", "checking", "sending", "recording", "confirming", "notifying"}
Transaction == [outcome : Verdicts, status : Statuses]
Work == [step : Steps, outcome : Outcomes, tx : Nat, tries : Nat]
Submissions == [disputed : BOOLEAN, verdict : Outcomes, steps : Nat]
Rows == [status : {"none", "submitted", "challenged", "finalized"}, outcome : Outcomes,
         decision : Outcomes, tx : Nat, votes : BOOLEAN, nonce : BOOLEAN]
Indexed == [disputed : BOOLEAN, settled : BOOLEAN]

RunnerTypeOK ==
    /\ contract \in States
    /\ txs \in Seq(Transaction)
    /\ oracle \in Submissions /\ indexedAs \in Indexed
    /\ attempt \in Rows
    /\ hold \in {"none", "manual_review", "cleared"}
    /\ runner \in [Runners -> Work]
    /\ held \in [times : Nat, alerts : Nat]
    /\ notice \in [delivered : SUBSET Verdicts, stored : Outcomes]
    /\ unguarded \in BOOLEAN /\ hashLost \in BOOLEAN

\* Transaction n is one for outcome.
Sent(n, outcome) == n \in DOMAIN txs /\ txs[n].outcome = outcome
Settled == oracle.verdict # Undecided
SettlementSeen == Settled /\ indexedAs.settled

WithTransaction == {"recording", "confirming", "notifying"}

\* FinalizedMatchesChain, with what the hash of a row stands for: a transaction
\* for its outcome, or the settlement that the indexer saw.
RowIsTrue(row) ==
    /\ row.status = "none" => row = NoAttempt
    /\ row.votes => row.status = "finalized"
    /\ row.tx = Settlement => SettlementSeen /\ row.status = "finalized"
    /\ row.tx \notin {0, Settlement} => Sent(row.tx, row.outcome)
    /\ row.status = "finalized" =>
          IF row.votes
          THEN /\ row.decision = row.outcome
               /\ row.decision = contract \/ (contract = "cancelled" /\ row.tx = Settlement)
          ELSE row.decision = oracle.verdict /\ row.tx = Settlement

\* A runner acts on the word of a transaction that succeeded, so what it works on
\* must be what its transaction was sent for, or the settlement's.
WorkIsTrue(w) ==
    /\ w.step = "checking" =>
          w.outcome \in Verdicts /\ IF w.tx = Settlement THEN SettlementSeen ELSE Sent(w.tx, w.outcome)
    /\ w.step \in WithTransaction => Sent(w.tx, w.outcome)
    /\ w.step = "sending" => w.outcome \in Verdicts
    /\ w.step = "notifying" => w.outcome = contract

\* Who checks the settlement of a cancelled market read it from the final row, which
\* may be deleted meanwhile: all who check it work on one outcome, and no final row
\* has another.
OnSettlement(w) == w.step = "checking" /\ w.tx = Settlement
ReadFrom(w, row) ==
    OnSettlement(w) /\ contract = "cancelled" /\ row.status = "finalized" => row.outcome = w.outcome
Agrees(w) ==
    OnSettlement(w) /\ contract = "cancelled" =>
        \A s \in Runners : OnSettlement(runner[s]) => runner[s].outcome = w.outcome

MatchInv ==
    /\ Len(txs) <= TxBound
    /\ \A n \in DOMAIN txs : txs[n].status = "success" => txs[n].outcome = contract
    /\ Settled => contract # "open"
    /\ RowIsTrue(attempt)
    /\ \A r \in Runners : WorkIsTrue(runner[r]) /\ ReadFrom(runner[r], attempt) /\ Agrees(runner[r])
    /\ notice.delivered \subseteq {contract}
    /\ notice.stored \in {contract, Undecided}

RunnerInv == RunnerTypeOK /\ MatchInv

-----------------------------------------------------------------------------
LEMMA Names ==
  /\ "open" \notin Outcomes /\ "cancelled" \notin Outcomes /\ Undecided \notin Verdicts
  /\ Verdicts \subseteq Outcomes /\ Verdicts \subseteq States
  /\ Settlement \in Nat /\ Settlement # 0
BY RunnerConstants DEF Outcomes, Verdicts, Undecided, States, Settlement

\* The settlement is none of the runners' transactions.
LEMMA SettlementIsApart ==
  ASSUME RunnerInv
  PROVE  Settlement \notin DOMAIN txs /\ 0 \notin DOMAIN txs
<1>1. txs \in Seq(Transaction) /\ Len(txs) <= TxBound
  BY DEF RunnerInv, RunnerTypeOK, MatchInv
<1>2. DOMAIN txs = 1 .. Len(txs) /\ Len(txs) \in Nat
  BY <1>1
<1> QED BY <1>1, <1>2, RunnerConstants DEF Settlement

LEMMA RunnerInitially == RunnerInit => RunnerInv
<1> SUFFICES ASSUME RunnerInit PROVE RunnerInv
  OBVIOUS
<1>1. Resting \in Work /\ Resting.step = "idle"
  BY DEF Resting, Work, Steps, Outcomes, Undecided
<1>2. \A r \in Runners : runner[r] = Resting
  BY DEF RunnerInit
<1>3. txs \in Seq(Transaction) /\ DOMAIN txs = {} /\ Len(txs) = 0
  BY DEF RunnerInit
<1>4. runner \in [Runners -> Work]
  BY <1>1 DEF RunnerInit
<1>5. attempt \in Rows /\ attempt = NoAttempt /\ NoAttempt.tx = 0 /\ NoAttempt.status = "none"
      /\ NoAttempt.votes = FALSE
  BY DEF RunnerInit, NoAttempt, Rows, Outcomes
<1>6. oracle \in Submissions /\ oracle.verdict = Undecided
  BY DEF RunnerInit, Submissions, Outcomes
<1>7. RunnerTypeOK
  BY <1>3, <1>4, <1>5, <1>6 DEF RunnerInit, RunnerTypeOK, States, Outcomes, Indexed
<1>8. RowIsTrue(attempt)
  BY <1>5, Names DEF RowIsTrue
<1>9. MatchInv
  BY <1>1, <1>2, <1>3, <1>6, <1>8, RunnerConstants
  DEF RunnerInit, MatchInv, WorkIsTrue, ReadFrom, Agrees, OnSettlement, WithTransaction, Settled
<1> QED BY <1>7, <1>9 DEF RunnerInv

\* What the row may become: another true one, in which those who check a settlement
\* find what they read.
RowFollows ==
  \/ attempt' = attempt
  \/ /\ attempt' \in Rows /\ RowIsTrue(attempt)'
     /\ \A r \in Runners : ReadFrom(runner[r], attempt')

\* The votes, the API, the index and the operator change nothing that the runners'
\* work depends on, and the row only to a true one.
Aside ==
  /\ UNCHANGED <<contract, txs, runner, notice>>
  /\ oracle' \in Submissions /\ oracle'.verdict = oracle.verdict
  /\ indexedAs' \in Indexed /\ (indexedAs.settled => indexedAs'.settled)
  /\ hold' \in {"none", "manual_review", "cleared"}
  /\ held' \in [times : Nat, alerts : Nat]
  /\ unguarded' \in BOOLEAN /\ hashLost' \in BOOLEAN

\* What is in the row and the runners' hands stays true while the chain is left alone.
LEMMA TruthStays ==
  ASSUME UNCHANGED <<contract, txs>>, oracle'.verdict = oracle.verdict,
         indexedAs.settled => indexedAs'.settled
  PROVE  /\ \A w : WorkIsTrue(w) => WorkIsTrue(w)'
         /\ RowIsTrue(attempt') => RowIsTrue(attempt)'
         /\ \A r : ReadFrom(runner'[r], attempt') => ReadFrom(runner[r], attempt)'
<1>1. \A n, o : Sent(n, o) => Sent(n, o)'
  BY DEF Sent
<1>2. SettlementSeen => SettlementSeen'
  BY DEF SettlementSeen, Settled
<1> QED BY <1>1, <1>2 DEF WorkIsTrue, RowIsTrue, ReadFrom, OnSettlement

LEMMA RowFollowed ==
  ASSUME RunnerInv, RowFollows, UNCHANGED <<contract, txs>>, oracle'.verdict = oracle.verdict,
         indexedAs.settled => indexedAs'.settled
  PROVE  /\ attempt' \in Rows /\ RowIsTrue(attempt)'
         /\ \A r \in Runners : ReadFrom(runner[r], attempt')
<1>1. /\ attempt \in Rows /\ RowIsTrue(attempt)
      /\ \A r \in Runners : ReadFrom(runner[r], attempt)
  BY DEF RunnerInv, RunnerTypeOK, MatchInv
<1>2. CASE attempt' = attempt
  BY <1>1, <1>2, TruthStays
<1>3. CASE attempt' # attempt
  BY <1>3 DEF RowFollows
<1> QED BY <1>2, <1>3

LEMMA AsideKeeps ==
  ASSUME RunnerInv, Aside, RowFollows
  PROVE  RunnerInv'
<1>1. UNCHANGED <<contract, txs>> /\ oracle'.verdict = oracle.verdict
      /\ (indexedAs.settled => indexedAs'.settled)
  BY DEF Aside
<1>2. /\ attempt' \in Rows /\ RowIsTrue(attempt)'
      /\ \A r \in Runners : ReadFrom(runner[r], attempt')
  BY <1>1, RowFollowed
<1>3. RunnerTypeOK'
  BY <1>2 DEF RunnerInv, RunnerTypeOK, Aside
<1>4. ASSUME NEW r \in Runners
      PROVE  WorkIsTrue(runner[r])' /\ ReadFrom(runner[r], attempt)' /\ Agrees(runner[r])'
  <2>1. WorkIsTrue(runner[r]) /\ Agrees(runner[r]) /\ runner' = runner
    BY DEF RunnerInv, MatchInv, Aside
  <2>2. Agrees(runner[r])'
    BY <1>1, <2>1 DEF Agrees, OnSettlement
  <2> QED BY <1>1, <1>2, <2>1, <2>2, TruthStays
<1>5. MatchInv'
  BY <1>2, <1>4 DEF RunnerInv, MatchInv, Aside, Settled
<1> QED BY <1>3, <1>5 DEF RunnerInv

\* Runner r goes on to the work w, and may write the row and the notices.
LEMMA MoveKeeps ==
  ASSUME RunnerInv, NEW r \in Runners, NEW w \in Work,
         runner' = [runner EXCEPT ![r] = w],
         WorkIsTrue(w), ReadFrom(w, attempt'), Agrees(w),
         UNCHANGED <<contract, txs, oracle, indexedAs>>, RowFollows,
         notice' \in [delivered : SUBSET (Verdicts \intersect {contract}),
                      stored : Outcomes \intersect {contract, Undecided}],
         hold' \in {"none", "manual_review", "cleared"},
         held' \in [times : Nat, alerts : Nat],
         unguarded' \in BOOLEAN, hashLost' \in BOOLEAN
  PROVE  RunnerInv'
<1>1. /\ runner' \in [Runners -> Work] /\ runner'[r] = w
      /\ \A s \in Runners : s # r => runner'[s] = runner[s]
  BY DEF RunnerInv, RunnerTypeOK
<1>2. /\ attempt' \in Rows /\ RowIsTrue(attempt)'
      /\ \A s \in Runners : ReadFrom(runner[s], attempt')
  BY RowFollowed
<1>3. RunnerTypeOK'
  BY <1>1, <1>2 DEF RunnerInv, RunnerTypeOK
<1>4. ASSUME NEW s \in Runners
      PROVE  WorkIsTrue(runner[s])' /\ ReadFrom(runner[s], attempt)'
  <2>1. WorkIsTrue(runner'[s]) /\ ReadFrom(runner'[s], attempt')
    BY <1>1, <1>2 DEF RunnerInv, MatchInv
  <2>2. WorkIsTrue(runner[s])'
    BY <2>1 DEF WorkIsTrue, Sent, SettlementSeen, Settled
  <2> QED BY <2>1, <2>2, TruthStays
<1>5. ASSUME NEW s \in Runners PROVE Agrees(runner[s])'
  <2>1. \A u \in Runners : Agrees(runner[u])
    BY DEF RunnerInv, MatchInv
  <2>2. contract' = contract
    OBVIOUS
  <2> QED BY <1>1, <2>1, <2>2 DEF Agrees, OnSettlement
<1>6. notice'.delivered \subseteq {contract} /\ notice'.stored \in {contract, Undecided}
  OBVIOUS
<1> QED BY <1>2, <1>3, <1>4, <1>5, <1>6 DEF RunnerInv, MatchInv, Settled

LEMMA NoticeStands ==
  ASSUME RunnerInv
  PROVE  notice \in [delivered : SUBSET (Verdicts \intersect {contract}),
                     stored : Outcomes \intersect {contract, Undecided}]
BY DEF RunnerInv, RunnerTypeOK, MatchInv

LEMMA RestingIsWork ==
  /\ Resting \in Work
  /\ Resting.step = "idle"
  /\ WorkIsTrue(Resting) /\ ReadFrom(Resting, attempt') /\ Agrees(Resting)
<1>1. Resting \in Work /\ Resting.step = "idle"
  BY DEF Resting, Work, Steps, Outcomes, Undecided
<1> QED BY <1>1 DEF WithTransaction, WorkIsTrue, ReadFrom, Agrees, OnSettlement

\* Only a tally leads to a check.
LEMMA ElsewhereAgrees ==
  ASSUME NEW w, w.step # "checking"
  PROVE  ReadFrom(w, attempt') /\ Agrees(w)
BY DEF ReadFrom, Agrees, OnSettlement

LEMMA RowStands == UNCHANGED attempt => RowFollows
BY DEF RowFollows

\* A transaction is settled or the contract is decided by others: a verdict that
\* the contract has is not touched, and no transaction changes its outcome.
LEMMA ChainStepKeeps ==
  ASSUME RunnerInv,
         contract' \in States, txs' \in Seq(Transaction), oracle' \in Submissions,
         contract # "open" => contract' = contract,
         Settled => oracle'.verdict = oracle.verdict,
         oracle'.verdict # Undecided => contract' # "open",
         Len(txs') = Len(txs), DOMAIN txs' = DOMAIN txs,
         \A n \in DOMAIN txs : txs'[n].outcome = txs[n].outcome,
         \A n \in DOMAIN txs : txs'[n].status = "success" =>
                txs[n].status = "success" \/ txs[n].outcome = contract',
         UNCHANGED <<attempt, hold, runner, held, notice, unguarded, hashLost, indexedAs>>
  PROVE  RunnerInv'
<1>1. RunnerTypeOK'
  BY DEF RunnerInv, RunnerTypeOK
<1>2. ASSUME NEW n \in DOMAIN txs PROVE txs[n].outcome \in Verdicts
  <2>1. txs[n] \in Transaction
    BY DEF RunnerInv, RunnerTypeOK
  <2> QED BY <2>1 DEF Transaction
<1>3. \A n \in DOMAIN txs' : txs'[n].status = "success" => txs'[n].outcome = contract'
  BY <1>2, Names DEF RunnerInv, MatchInv
<1>4. \A n, o : Sent(n, o) => Sent(n, o)'
  BY DEF Sent
<1>5. Settled => Settled' /\ contract # "open" /\ contract' = contract
  BY DEF RunnerInv, MatchInv, Settled
<1>6. RowIsTrue(attempt)'
  <2>1. RowIsTrue(attempt) /\ attempt \in Rows
    BY DEF RunnerInv, RunnerTypeOK, MatchInv
  <2>2. attempt.decision # "open"
    BY <2>1, Names DEF Rows
  <2> QED BY <1>4, <1>5, <2>1, <2>2 DEF RowIsTrue, SettlementSeen, Settled
<1>7. ASSUME NEW r \in Runners
      PROVE  WorkIsTrue(runner[r])' /\ ReadFrom(runner[r], attempt)' /\ Agrees(runner[r])'
  <2>1. WorkIsTrue(runner[r]) /\ ReadFrom(runner[r], attempt) /\ Agrees(runner[r])
    BY DEF RunnerInv, MatchInv
  <2>2. runner[r].outcome # "open"
    BY Names DEF RunnerInv, RunnerTypeOK, Work
  <2>3. OnSettlement(runner[r]) => Settled
    BY <2>1 DEF OnSettlement, WorkIsTrue, SettlementSeen
  <2>4. WorkIsTrue(runner[r])'
    BY <1>4, <1>5, <2>1, <2>2 DEF WorkIsTrue, SettlementSeen
  <2> QED BY <1>5, <2>1, <2>3, <2>4 DEF ReadFrom, Agrees, OnSettlement
<1>8. notice.delivered \subseteq {contract'} /\ notice.stored \in {contract', Undecided}
  <2>1. notice.delivered \subseteq Verdicts /\ notice.stored \in Outcomes
    BY DEF RunnerInv, RunnerTypeOK
  <2> QED BY <2>1, Names DEF RunnerInv, MatchInv
<1> QED BY <1>1, <1>3, <1>6, <1>7, <1>8 DEF RunnerInv, MatchInv, Settled

-----------------------------------------------------------------------------
(* What the environment does *)

LEMMA TxLandsKeeps ==
  ASSUME RunnerInv, NEW n \in DOMAIN txs, TxLands(n)
  PROVE  RunnerInv'
<1> DEFINE status == IF contract = "open" THEN "success" ELSE "failed"
<1>1. txs' = [txs EXCEPT ![n] = [txs[n] EXCEPT !.status = status]]
  BY DEF TxLands
<1>2. txs[n] \in Transaction /\ txs \in Seq(Transaction) /\ contract \in States
  BY DEF RunnerInv, RunnerTypeOK
<1>3. [txs[n] EXCEPT !.status = status] \in Transaction
  BY <1>2 DEF Transaction, Statuses
<1>4. txs' \in Seq(Transaction) /\ DOMAIN txs' = DOMAIN txs /\ Len(txs') = Len(txs)
  BY <1>1, <1>2, <1>3
<1>5. \A m \in DOMAIN txs : txs'[m].outcome = txs[m].outcome
  BY <1>1, <1>2 DEF Transaction
<1>6. contract' \in States /\ (contract # "open" => contract' = contract) /\ contract' # "open"
  BY <1>2, Names DEF TxLands, States, Transaction
<1>7. \A m \in DOMAIN txs : txs'[m].status = "success" =>
          txs[m].status = "success" \/ txs[m].outcome = contract'
  BY <1>1, <1>2 DEF TxLands, Transaction
<1>8. UNCHANGED <<oracle, attempt, hold, runner, held, notice, unguarded, hashLost, indexedAs>>
  BY DEF TxLands, inside, history
<1>9. oracle' \in Submissions
  BY <1>8 DEF RunnerInv, RunnerTypeOK
<1> QED BY <1>4, <1>5, <1>6, <1>7, <1>8, <1>9, ChainStepKeeps

LEMMA TxLostKeeps ==
  ASSUME RunnerInv, NEW n \in DOMAIN txs, TxLost(n)
  PROVE  RunnerInv'
<1>1. PICK status \in {"failed", "dropped"} : txs' = [txs EXCEPT ![n] = [txs[n] EXCEPT !.status = status]]
  BY DEF TxLost
<1>2. txs[n] \in Transaction /\ txs \in Seq(Transaction) /\ contract \in States
  BY DEF RunnerInv, RunnerTypeOK
<1>3. [txs[n] EXCEPT !.status = status] \in Transaction
  BY <1>2 DEF Transaction, Statuses
<1>4. txs' \in Seq(Transaction) /\ DOMAIN txs' = DOMAIN txs /\ Len(txs') = Len(txs)
  BY <1>1, <1>2, <1>3
<1>5. \A m \in DOMAIN txs : txs'[m].outcome = txs[m].outcome
  BY <1>1, <1>2 DEF Transaction
<1>6. \A m \in DOMAIN txs : txs'[m].status = "success" => txs[m].status = "success"
  BY <1>1, <1>2 DEF Transaction
<1>7. UNCHANGED <<contract, oracle, attempt, hold, runner, held, notice, unguarded, hashLost, indexedAs>>
  BY DEF TxLost, outside, inside, history
<1>8. oracle' \in Submissions /\ (oracle'.verdict # Undecided => contract' # "open")
  BY <1>7 DEF RunnerInv, RunnerTypeOK, MatchInv, Settled
<1> QED BY <1>2, <1>4, <1>5, <1>6, <1>7, <1>8, ChainStepKeeps

LEMMA ByOthersCounts ==
  ASSUME RunnerInv, NEW changed \in Submissions, ByOthers(changed)
  PROVE  oracle' \in Submissions /\ oracle'.verdict = changed.verdict
<1>1. oracle.steps \in Nat
  BY DEF RunnerInv, RunnerTypeOK, Submissions
<1>2. oracle' = [changed EXCEPT !.steps = oracle.steps + 1]
  BY DEF ByOthers
<1> QED BY <1>1, <1>2 DEF Submissions

LEMMA AdminDecidesKeeps ==
  ASSUME RunnerInv, NEW state \in Verdicts \union {"cancelled"}, AdminDecides(state)
  PROVE  RunnerInv'
<1>1. oracle \in Submissions
  BY DEF RunnerInv, RunnerTypeOK
<1>2. oracle' \in Submissions /\ oracle'.verdict = oracle.verdict
  BY <1>1, ByOthersCounts DEF AdminDecides
<1>3. contract' \in States /\ contract' # "open"
  BY Names DEF AdminDecides, States
<1>4. /\ UNCHANGED <<txs, attempt, hold, runner, held, notice, unguarded, hashLost, indexedAs>>
      /\ contract = "open" /\ txs \in Seq(Transaction)
  BY DEF AdminDecides, inside, history, RunnerInv, RunnerTypeOK
<1> QED BY <1>2, <1>3, <1>4, ChainStepKeeps

LEMMA OracleSettlesKeeps ==
  ASSUME RunnerInv, NEW outcome \in Verdicts, OracleSettles(outcome)
  PROVE  RunnerInv'
<1> DEFINE changed == [oracle EXCEPT !.verdict = outcome]
<1>1. changed \in Submissions
  BY Names DEF RunnerInv, RunnerTypeOK, Submissions
<1>2. oracle' \in Submissions
  <2>1. ByOthers(changed)
    BY DEF OracleSettles
  <2> HIDE DEF changed
  <2> QED BY <1>1, <2>1, ByOthersCounts
<1>3. /\ contract' \in States /\ contract' # "open" /\ (contract # "open" => contract' = contract)
      /\ ~Settled
  BY Names DEF OracleSettles, RunnerInv, RunnerTypeOK, Settled
<1>4. /\ UNCHANGED <<txs, attempt, hold, runner, held, notice, unguarded, hashLost, indexedAs>>
      /\ txs \in Seq(Transaction)
  BY DEF OracleSettles, inside, history, RunnerInv, RunnerTypeOK
<1>5. \A n \in DOMAIN txs : txs'[n].outcome = txs[n].outcome /\ txs'[n].status = txs[n].status
  BY <1>4
<1> QED BY <1>2, <1>3, <1>4, <1>5, ChainStepKeeps

\* The operator, the voters and a challenge on the chain.
LEMMA ChallengeKeeps == ASSUME RunnerInv, Challenge PROVE RunnerInv'
<1> DEFINE changed == [oracle EXCEPT !.disputed = TRUE]
<1>1. changed \in Submissions /\ changed.verdict = oracle.verdict
  BY DEF RunnerInv, RunnerTypeOK, Submissions
<1>2. oracle' \in Submissions /\ oracle'.verdict = oracle.verdict
  <2>1. ByOthers(changed)
    BY DEF Challenge
  <2> HIDE DEF changed
  <2> QED BY <1>1, <2>1, ByOthersCounts
<1>3. Aside /\ UNCHANGED attempt
  BY <1>2 DEF Challenge, Aside, inside, history, RunnerInv, RunnerTypeOK
<1> QED BY <1>3, AsideKeeps, RowStands

\* The row may always be a true one that is not final.
LEMMA PlainRow ==
  ASSUME NEW row, attempt' = row, row \in Rows, row.status # "finalized", RowIsTrue(row),
         UNCHANGED <<contract, txs>>, oracle'.verdict = oracle.verdict,
         indexedAs.settled => indexedAs'.settled
  PROVE  RowFollows
BY TruthStays DEF RowFollows, ReadFrom

LEMMA SubmitOutcomeKeeps ==
  ASSUME RunnerInv, NEW outcome \in Verdicts, NEW nonce \in BOOLEAN, SubmitOutcome(outcome, nonce)
  PROVE  RunnerInv'
<1> DEFINE row == [status |-> "submitted", outcome |-> outcome, decision |-> Undecided, tx |-> 0,
                   votes |-> FALSE, nonce |-> nonce]
<1>1. attempt' = row
  BY DEF SubmitOutcome, NoAttempt
<1>2. row \in Rows /\ row.status = "submitted" /\ RowIsTrue(row)
  BY Names DEF Rows, RowIsTrue, Outcomes
<1> HIDE DEF row
<1>3. oracle \in Submissions
  BY DEF RunnerInv, RunnerTypeOK
<1>4. oracle' \in Submissions /\ oracle'.verdict = oracle.verdict
  BY <1>3, ByOthersCounts DEF SubmitOutcome
<1>5. Aside /\ UNCHANGED indexedAs
  BY <1>4 DEF SubmitOutcome, Aside, inside, history, RunnerInv, RunnerTypeOK
<1>6. RowFollows
  BY <1>1, <1>2, <1>5, PlainRow DEF Aside
<1> QED BY <1>5, <1>6, AsideKeeps

LEMMA EmptyRow ==
  NoAttempt \in Rows /\ RowIsTrue(NoAttempt) /\ NoAttempt.status = "none" /\ NoAttempt.tx = 0
BY Names DEF NoAttempt, Rows, RowIsTrue, Outcomes

LEMMA CleanupKeeps == ASSUME RunnerInv, CleanupExpiredNonces PROVE RunnerInv'
<1>1. RowFollows
  BY EmptyRow, PlainRow DEF CleanupExpiredNonces, outside
<1>2. hashLost' \in BOOLEAN
  BY DEF CleanupExpiredNonces, RunnerInv, RunnerTypeOK
<1>3. Aside
  BY <1>2 DEF CleanupExpiredNonces, Aside, outside, RunnerInv, RunnerTypeOK
<1> QED BY <1>1, <1>3, AsideKeeps

LEMMA IndexChallengeKeeps == ASSUME RunnerInv, IndexChallenge PROVE RunnerInv'
<1>1. attempt \in Rows /\ RowIsTrue(attempt)
  BY DEF RunnerInv, RunnerTypeOK, MatchInv
<1>2. CASE attempt.status = "submitted"
  <2> DEFINE row == [attempt EXCEPT !.status = "challenged"]
  <2>1. attempt' = row
    BY <1>2 DEF IndexChallenge
  <2>2. /\ row \in Rows /\ row.status = "challenged" /\ row.outcome = attempt.outcome
        /\ row.tx = attempt.tx /\ row.votes = attempt.votes
    BY <1>1 DEF Rows
  <2> HIDE DEF row
  <2>3. RowIsTrue(row)
    BY <1>1, <1>2, <2>2 DEF RowIsTrue
  <2>4. Aside
    BY DEF IndexChallenge, Aside, inside, history, RunnerInv, RunnerTypeOK, Indexed
  <2>5. RowFollows
    BY <2>1, <2>2, <2>3, <2>4, PlainRow DEF Aside
  <2> QED BY <2>4, <2>5, AsideKeeps
<1>3. CASE attempt.status # "submitted"
  <2>1. Aside /\ UNCHANGED attempt
    BY <1>3 DEF IndexChallenge, Aside, inside, history, RunnerInv, RunnerTypeOK, Indexed
  <2> QED BY <2>1, AsideKeeps, RowStands
<1> QED BY <1>2, <1>3

\* A row that is not final has no votes: the indexer's is the settlement's.
LEMMA IndexVerdictRow ==
  ASSUME RunnerInv, IndexVerdict, attempt.status \in {"submitted", "challenged"}
  PROVE  /\ attempt' \in Rows /\ attempt'.status = "finalized" /\ attempt'.tx = Settlement
         /\ attempt'.decision = oracle.verdict /\ attempt'.votes = FALSE
<1> DEFINE a == [attempt EXCEPT !.status = "finalized"]
           b == [a EXCEPT !.decision = oracle.verdict]
           c == [b EXCEPT !.tx = Settlement]
<1>1. attempt \in Rows /\ attempt.votes = FALSE /\ oracle.verdict \in Outcomes
  BY DEF RunnerInv, RunnerTypeOK, MatchInv, RowIsTrue, Rows, Submissions
<1>2. attempt' = c
  BY DEF IndexVerdict
<1>3. a \in Rows /\ a.status = "finalized" /\ a.votes = FALSE
  BY <1>1 DEF Rows
<1> HIDE DEF a
<1>4. b \in Rows /\ b.status = "finalized" /\ b.votes = FALSE /\ b.decision = oracle.verdict
  BY <1>1, <1>3 DEF Rows
<1> HIDE DEF b
<1>5. /\ c \in Rows /\ c.status = "finalized" /\ c.votes = FALSE
      /\ c.decision = oracle.verdict /\ c.tx = Settlement
  BY <1>4, Names DEF Rows
<1> QED BY <1>2, <1>5

LEMMA IndexVerdictKeeps == ASSUME RunnerInv, IndexVerdict PROVE RunnerInv'
<1>1. Aside /\ ~indexedAs.settled
  BY DEF IndexVerdict, Aside, inside, history, RunnerInv, RunnerTypeOK, Indexed
<1>2. CASE attempt.status \in {"submitted", "challenged"}
  <2>1. SettlementSeen'
    BY DEF IndexVerdict, SettlementSeen, Settled, RunnerInv, RunnerTypeOK, Indexed
  <2>2. RowIsTrue(attempt)'
    <3>1. oracle' = oracle
      BY DEF IndexVerdict
    <3> QED BY <1>2, <2>1, <3>1, IndexVerdictRow, Names DEF RowIsTrue
  <2>3. \A r \in Runners : ~OnSettlement(runner[r])
    BY <1>1 DEF RunnerInv, MatchInv, WorkIsTrue, OnSettlement, SettlementSeen
  <2>4. RowFollows
    BY <1>2, <2>2, <2>3, IndexVerdictRow DEF RowFollows, ReadFrom
  <2> QED BY <1>1, <2>4, AsideKeeps
<1>3. CASE attempt.status \notin {"submitted", "challenged"}
  <2>1. UNCHANGED attempt
    BY <1>3 DEF IndexVerdict
  <2> QED BY <1>1, <2>1, AsideKeeps, RowStands
<1> QED BY <1>2, <1>3

-----------------------------------------------------------------------------
(* What one runner does *)

LEMMA StartMarketKeeps ==
  ASSUME RunnerInv, NEW r \in Runners, StartMarket(r)
  PROVE  RunnerInv'
<1> DEFINE w == [runner[r] EXCEPT !.step = "tallying"]
<1>1. w \in Work /\ w.step = "tallying"
  BY DEF RunnerInv, RunnerTypeOK, Work, Steps
<1>2. runner' = [runner EXCEPT ![r] = w]
  BY DEF StartMarket, Goto
<1>3. unguarded' \in BOOLEAN
  BY DEF StartMarket, RunnerInv, RunnerTypeOK
<1>4. /\ UNCHANGED <<contract, txs, oracle, indexedAs, attempt, notice>> /\ hashLost' \in BOOLEAN
      /\ hold' \in {"none", "manual_review", "cleared"} /\ held' \in [times : Nat, alerts : Nat]
  BY DEF StartMarket, outside, RunnerInv, RunnerTypeOK
<1> HIDE DEF w
<1>5. WorkIsTrue(w) /\ ReadFrom(w, attempt') /\ Agrees(w)
  BY <1>1, ElsewhereAgrees DEF WorkIsTrue, WithTransaction
<1> QED BY <1>1, <1>2, <1>3, <1>4, <1>5, MoveKeeps, NoticeStands, RowStands

\* A tally that is decided is for an outcome that someone voted for.
LEMMA TallyIsVerdict ==
  ASSUME SelectThresholdOutcome # Undecided
  PROVE  SelectThresholdOutcome \in Verdicts
<1> DEFINE reached == {outcome \in Verdicts : Count(outcome) >= VotesNeeded}
<1>1. /\ Cardinality(reached) = 1
      /\ SelectThresholdOutcome = CHOOSE outcome \in reached : TRUE
  BY DEF SelectThresholdOutcome
<1>2. reached # {}
  BY <1>1, FS_EmptySet
<1>3. (CHOOSE outcome \in reached : TRUE) \in reached
  BY <1>2
<1> QED BY <1>1, <1>3

\* The work that a tally leads to.
Tallied(r) == [runner[r] EXCEPT !.outcome = SelectThresholdOutcome, !.tx = attempt.tx,
                  !.step = IF attempt.tx = 0 THEN "sending" ELSE "checking"]

LEMMA TalliedIsWork ==
  ASSUME RunnerInv, NEW r \in Runners, SelectThresholdOutcome # Undecided
  PROVE  /\ Tallied(r) \in Work /\ Tallied(r).tx = attempt.tx
         /\ Tallied(r).outcome = SelectThresholdOutcome
         /\ Tallied(r).step = IF attempt.tx = 0 THEN "sending" ELSE "checking"
<1> DEFINE a == [runner[r] EXCEPT !.outcome = SelectThresholdOutcome]
           b == [a EXCEPT !.tx = attempt.tx]
<1>1. runner[r] \in Work /\ attempt.tx \in Nat /\ SelectThresholdOutcome \in Outcomes
  BY TallyIsVerdict, Names DEF RunnerInv, RunnerTypeOK, Rows
<1>2. Tallied(r) = [b EXCEPT !.step = IF attempt.tx = 0 THEN "sending" ELSE "checking"]
  BY DEF Tallied
<1>3. a \in Work /\ a.outcome = SelectThresholdOutcome
  BY <1>1 DEF Work
<1> HIDE DEF a
<1>4. b \in Work /\ b.outcome = SelectThresholdOutcome /\ b.tx = attempt.tx
  BY <1>1, <1>3 DEF Work
<1> HIDE DEF b
<1> QED BY <1>2, <1>4 DEF Work, Steps

LEMMA TallyVotesKeeps ==
  ASSUME RunnerInv, NEW r \in Runners, TallyVotes(r)
  PROVE  RunnerInv'
<1> DEFINE outcome == SelectThresholdOutcome
<1>1. outcome # Undecided /\ outcome \in Verdicts
  BY TallyIsVerdict DEF TallyVotes
<1>2. /\ UNCHANGED <<contract, txs, oracle, indexedAs, attempt, notice>>
      /\ unguarded' \in BOOLEAN /\ hashLost' \in BOOLEAN
      /\ hold' \in {"none", "manual_review", "cleared"} /\ held' \in [times : Nat, alerts : Nat]
  BY DEF TallyVotes, outside, history, RunnerInv, RunnerTypeOK
<1>3. CASE attempt.tx # 0 /\ attempt.outcome # outcome
  <2>1. runner' = [runner EXCEPT ![r] = Resting]
    BY <1>3 DEF TallyVotes, Rest
  <2> QED BY <1>2, <2>1, RestingIsWork, MoveKeeps, NoticeStands, RowStands
<1>4. CASE ~(attempt.tx # 0 /\ attempt.outcome # outcome)
  <2> DEFINE w == Tallied(r)
  <2>1. runner' = [runner EXCEPT ![r] = w]
    BY <1>4 DEF TallyVotes, Tallied
  <2>2. /\ w \in Work /\ w.outcome = outcome /\ w.tx = attempt.tx
        /\ w.step = IF attempt.tx = 0 THEN "sending" ELSE "checking"
    BY <1>1, TalliedIsWork
  <2>3. RowIsTrue(attempt) /\ attempt \in Rows
    BY DEF RunnerInv, RunnerTypeOK, MatchInv
  <2> HIDE DEF w, outcome
  <2>4. WorkIsTrue(w)
    BY <1>1, <1>4, <2>2, <2>3 DEF WorkIsTrue, RowIsTrue, WithTransaction
  <2>5. ReadFrom(w, attempt') /\ Agrees(w)
    <3>1. w.tx = Settlement => attempt.outcome = w.outcome /\ attempt.status = "finalized"
      BY <1>4, <2>2, <2>3, Names DEF RowIsTrue
    <3>2. \A s \in Runners : ReadFrom(runner[s], attempt)
      BY DEF RunnerInv, MatchInv
    <3> QED BY <1>2, <3>1, <3>2 DEF ReadFrom, Agrees, OnSettlement
  <2> QED BY <1>2, <2>1, <2>2, <2>4, <2>5, MoveKeeps, NoticeStands, RowStands
<1> QED BY <1>3, <1>4

LEMMA HoldForReviewKeeps ==
  ASSUME RunnerInv, NEW r \in Runners, HoldForReview(r)
  PROVE  RunnerInv'
<1>1. held' \in [times : Nat, alerts : Nat]
  BY DEF HoldForReview, RunnerInv, RunnerTypeOK
<1>2. runner' = [runner EXCEPT ![r] = Resting]
  BY DEF HoldForReview, Rest
<1>3. /\ UNCHANGED <<contract, txs, oracle, indexedAs, attempt, notice>>
      /\ unguarded' \in BOOLEAN /\ hashLost' \in BOOLEAN
      /\ hold' \in {"none", "manual_review", "cleared"}
  BY DEF HoldForReview, outside, history, RunnerInv, RunnerTypeOK
<1> QED BY <1>1, <1>2, <1>3, RestingIsWork, MoveKeeps, NoticeStands, RowStands

\* A runner that writes the row writes what it holds.
LEMMA FinalizedRow ==
  ASSUME RunnerInv, NEW r \in Runners, runner[r].step \in WithTransaction \union {"checking"}
  PROVE  /\ Finalized(r) \in Rows /\ Finalized(r).status = "finalized" /\ Finalized(r).votes = TRUE
         /\ Finalized(r).outcome = runner[r].outcome /\ Finalized(r).decision = runner[r].outcome
         /\ Finalized(r).tx = runner[r].tx
         /\ runner[r] \in Work /\ WorkIsTrue(runner[r])
         /\ ReadFrom(runner[r], attempt) /\ Agrees(runner[r])
         /\ runner[r].outcome \in Verdicts
         /\ runner[r].tx # Settlement => Sent(runner[r].tx, runner[r].outcome)
         /\ runner[r].step \in WithTransaction => runner[r].tx # Settlement
<1>1. /\ runner[r] \in Work /\ WorkIsTrue(runner[r]) /\ attempt.nonce \in BOOLEAN
      /\ ReadFrom(runner[r], attempt) /\ Agrees(runner[r])
  BY DEF RunnerInv, RunnerTypeOK, MatchInv, Rows
<1>2. runner[r].tx # Settlement => Sent(runner[r].tx, runner[r].outcome)
  BY <1>1 DEF WorkIsTrue
<1>3. runner[r].step \in WithTransaction => Sent(runner[r].tx, runner[r].outcome)
  BY <1>1 DEF WorkIsTrue
<1>4. runner[r].step \in WithTransaction => runner[r].tx # Settlement
  BY <1>3, SettlementIsApart DEF Sent
<1>5. runner[r].outcome \in Verdicts
  <2>1. CASE runner[r].step = "checking"
    BY <1>1, <2>1 DEF WorkIsTrue
  <2>2. CASE runner[r].step \in WithTransaction
    <3>1. txs[runner[r].tx] \in Transaction
      BY <1>3, <2>2 DEF Sent, RunnerInv, RunnerTypeOK
    <3> QED BY <1>3, <2>2, <3>1 DEF Sent, Transaction
  <2> QED BY <2>1, <2>2
<1> QED BY <1>1, <1>2, <1>4, <1>5, Names DEF Work, Finalized, Rows

\* A final row that a runner writes of the contract's verdict, or of the settlement
\* of a cancelled market, is true, and is what the others read.
LEMMA FinalizedIsTrue ==
  ASSUME RunnerInv, NEW r \in Runners, runner[r].step \in WithTransaction \union {"checking"},
         \/ runner[r].outcome = contract
         \/ runner[r].step = "checking" /\ runner[r].tx = Settlement /\ contract = "cancelled",
         MarkFinalDecision(r), UNCHANGED <<contract, txs, oracle, indexedAs>>
  PROVE  RowFollows
<1>1. runner[r].outcome \in Verdicts /\ Agrees(runner[r]) /\ Finalized(r) \in Rows
  BY FinalizedRow
<1>2. Finalized(r).tx = Settlement => SettlementSeen
  BY FinalizedRow DEF WorkIsTrue
<1>3. RowIsTrue(Finalized(r))
  <2> DEFINE row == Finalized(r)
  <2>1. /\ row.status = "finalized" /\ row.votes = TRUE /\ row.decision = row.outcome
        /\ row.outcome = runner[r].outcome /\ row.tx = runner[r].tx
        /\ row.tx # Settlement => Sent(row.tx, row.outcome)
        /\ row.tx = Settlement => SettlementSeen
    BY <1>2, FinalizedRow
  <2> HIDE DEF row
  <2>2. RowIsTrue(row)
    BY <2>1 DEF RowIsTrue
  <2> QED BY <2>2 DEF row
<1>4. ASSUME NEW s \in Runners PROVE ReadFrom(runner[s], Finalized(r))
  <2>1. contract = "cancelled" => OnSettlement(runner[r])
    BY <1>1 DEF Verdicts, OnSettlement
  <2> QED BY <1>1, <2>1, FinalizedRow DEF ReadFrom, Agrees
<1>5. CASE attempt = NoAttempt
  BY <1>5, RowStands DEF MarkFinalDecision
<1>6. CASE attempt # NoAttempt
  <2>1. attempt' = Finalized(r)
    BY <1>6 DEF MarkFinalDecision
  <2>2. RowIsTrue(attempt)'
    BY <1>3, <2>1, TruthStays
  <2> QED BY <1>1, <1>4, <2>1, <2>2 DEF RowFollows
<1> QED BY <1>5, <1>6

\* Where check_attempt finalizes, the verdict is the contract's, or the market is
\* cancelled and its submission settled.
LEMMA CheckedIsDecided ==
  ASSUME RunnerInv, NEW r \in Runners, runner[r].step = "checking",
         \/ contract = runner[r].outcome
         \/ contract \notin Verdicts /\ TxStatus(runner[r].tx) = "success"
  PROVE  \/ runner[r].outcome = contract
         \/ runner[r].tx = Settlement /\ contract = "cancelled"
<1>1. WorkIsTrue(runner[r]) /\ runner[r].outcome \in Verdicts
  BY FinalizedRow
<1>2. CASE contract # runner[r].outcome /\ runner[r].tx # Settlement
  <2>1. Sent(runner[r].tx, runner[r].outcome) /\ txs[runner[r].tx].status = "success"
    BY <1>1, <1>2 DEF WorkIsTrue, TxStatus
  <2> QED BY <1>2, <2>1 DEF RunnerInv, MatchInv, Sent
<1>3. CASE contract # runner[r].outcome /\ runner[r].tx = Settlement
  <2>1. Settled /\ contract \notin Verdicts /\ contract \in States
    BY <1>1, <1>3 DEF WorkIsTrue, SettlementSeen, RunnerInv, RunnerTypeOK
  <2>2. contract # "open"
    BY <2>1 DEF RunnerInv, MatchInv
  <2> QED BY <1>3, <2>1, <2>2 DEF States
<1> QED BY <1>2, <1>3

LEMMA CheckAttemptKeeps ==
  ASSUME RunnerInv, NEW r \in Runners, CheckAttempt(r)
  PROVE  RunnerInv'
<1> DEFINE decided == \/ contract = runner[r].outcome
                      \/ contract \notin Verdicts /\ TxStatus(runner[r].tx) = "success"
<1>1. runner[r].step = "checking"
  BY DEF CheckAttempt
<1>2. /\ UNCHANGED <<contract, txs, oracle, indexedAs, notice>>
      /\ unguarded' \in BOOLEAN /\ hashLost' \in BOOLEAN
      /\ hold' \in {"none", "manual_review", "cleared"} /\ held' \in [times : Nat, alerts : Nat]
  BY DEF CheckAttempt, outside, RunnerInv, RunnerTypeOK
<1>3. CASE decided
  <2>1. MarkFinalDecision(r) /\ runner' = [runner EXCEPT ![r] = Resting]
    BY <1>3 DEF CheckAttempt, Rest
  <2>2. RowFollows
    BY <1>1, <1>2, <1>3, <2>1, CheckedIsDecided, FinalizedIsTrue
  <2> QED BY <1>2, <2>1, <2>2, RestingIsWork, MoveKeeps, NoticeStands
<1>4. CASE ~decided
  <2> DEFINE w == [runner[r] EXCEPT !.step = "sending"]
  <2>1. attempt' = attempt
    BY <1>4 DEF CheckAttempt
  <2>2. runner' = [runner EXCEPT ![r] = w] \/ runner' = [runner EXCEPT ![r] = Resting]
    BY <1>4 DEF CheckAttempt, Goto, Rest
  <2>3. w \in Work /\ w.step = "sending" /\ w.outcome \in Verdicts
    BY <1>1, FinalizedRow DEF Work, Steps
  <2> HIDE DEF w
  <2>4. WorkIsTrue(w) /\ ReadFrom(w, attempt') /\ Agrees(w)
    BY <2>3, ElsewhereAgrees DEF WorkIsTrue, WithTransaction
  <2> QED BY <1>2, <2>1, <2>2, <2>3, <2>4, RestingIsWork, MoveKeeps, NoticeStands, RowStands
<1> QED BY <1>3, <1>4

LEMMA SubmitKeeps ==
  ASSUME RunnerInv, NEW r \in Runners, SubmitResolutionTransaction(r)
  PROVE  RunnerInv'
<1> DEFINE t == [outcome |-> runner[r].outcome, status |-> "pending"]
           v == [runner[r] EXCEPT !.step = "recording"]
           w == [v EXCEPT !.tx = Len(txs) + 1]
<1>1. txs' = Append(txs, t) /\ runner' = [runner EXCEPT ![r] = w]
  BY DEF SubmitResolutionTransaction
<1>2. UNCHANGED <<contract, oracle, indexedAs, attempt, hold, held, notice, unguarded, hashLost>>
  BY DEF SubmitResolutionTransaction, outside, history
<1>3. runner[r].outcome \in Verdicts /\ runner[r] \in Work
  BY DEF SubmitResolutionTransaction, RunnerInv, MatchInv, RunnerTypeOK, WorkIsTrue
<1>4. txs \in Seq(Transaction) /\ t \in Transaction /\ Len(txs) \in Nat /\ Len(txs) < TxBound
  BY <1>3 DEF RunnerInv, RunnerTypeOK, Transaction, Statuses, SubmitResolutionTransaction
<1>5. w \in Work /\ w.step = "recording" /\ w.tx = Len(txs) + 1 /\ w.outcome = t.outcome
  <2>1. v \in Work /\ v.step = "recording" /\ v.outcome = t.outcome
    BY <1>3 DEF Work, Steps
  <2>2. Len(txs) + 1 \in Nat
    BY <1>4
  <2> HIDE DEF v
  <2> QED BY <2>1, <2>2 DEF Work
<1>6. t.status = "pending"
  OBVIOUS
<1> HIDE DEF t, v, w
<1>7. /\ txs' \in Seq(Transaction) /\ DOMAIN txs' = 1 .. (Len(txs) + 1)
      /\ txs'[Len(txs) + 1] = t /\ \A n \in DOMAIN txs : n \in DOMAIN txs' /\ txs'[n] = txs[n]
      /\ \A n \in DOMAIN txs' : n \in DOMAIN txs \/ n = Len(txs) + 1
      /\ Len(txs') = Len(txs) + 1 /\ Len(txs) + 1 \in DOMAIN txs'
  BY <1>1, <1>4
<1>8. RunnerTypeOK'
  BY <1>1, <1>2, <1>5, <1>7 DEF RunnerInv, RunnerTypeOK
<1>9. \A n, o : Sent(n, o) => Sent(n, o)'
  BY <1>7 DEF Sent
<1>10. \A n \in DOMAIN txs' : txs'[n].status = "success" => txs'[n].outcome = contract'
  BY <1>2, <1>6, <1>7 DEF RunnerInv, MatchInv
<1>11. ASSUME NEW s \in Runners
       PROVE  WorkIsTrue(runner[s])' /\ ReadFrom(runner[s], attempt)' /\ Agrees(runner[s])'
  <2>1. CASE s = r
    <3>1. runner'[s] = w
      BY <1>1, <2>1 DEF RunnerInv, RunnerTypeOK
    <3>2. Sent(runner[s].tx, runner[s].outcome)'
      BY <1>5, <1>7, <3>1 DEF Sent
    <3> QED BY <1>5, <3>1, <3>2 DEF WorkIsTrue, ReadFrom, Agrees, OnSettlement
  <2>2. CASE s # r
    <3>1. runner'[s] = runner[s]
      BY <1>1, <2>2 DEF RunnerInv, RunnerTypeOK
    <3>2. WorkIsTrue(runner[s]) /\ ReadFrom(runner[s], attempt) /\ Agrees(runner[s])
      BY DEF RunnerInv, MatchInv
    <3>3. \A u \in Runners : OnSettlement(runner'[u]) => runner'[u] = runner[u]
      BY <1>1, <1>5 DEF OnSettlement, RunnerInv, RunnerTypeOK
    <3>4. Agrees(runner[s])'
      BY <1>2, <3>1, <3>2, <3>3 DEF Agrees, OnSettlement
    <3> QED BY <1>2, <1>9, <3>1, <3>2, <3>4
            DEF WorkIsTrue, ReadFrom, OnSettlement, SettlementSeen, Settled
  <2> QED BY <2>1, <2>2
<1>12. RowIsTrue(attempt)'
  <2>1. RowIsTrue(attempt)
    BY DEF RunnerInv, MatchInv
  <2> QED BY <1>2, <1>9, <2>1 DEF RowIsTrue, SettlementSeen, Settled
<1>13. Len(txs') <= TxBound
  BY <1>4, <1>7, RunnerConstants
<1> QED BY <1>2, <1>8, <1>10, <1>11, <1>12, <1>13 DEF RunnerInv, MatchInv, Settled

\* The row of a transaction that was just sent.
LEMMA AttemptedRow ==
  ASSUME RunnerInv, NEW r \in Runners, runner[r].step = "recording", attempt.status # "finalized"
  PROVE  /\ Attempted(r) \in Rows /\ RowIsTrue(Attempted(r)) /\ Attempted(r).status = "submitted"
         /\ Attempted(r).tx = runner[r].tx /\ Attempted(r).votes = FALSE
<1> DEFINE a == [Finalized(r) EXCEPT !.status = "submitted"]
           row == [a EXCEPT !.votes = attempt.votes]
<1>1. /\ Finalized(r) \in Rows /\ Finalized(r).outcome = runner[r].outcome
      /\ Finalized(r).tx = runner[r].tx /\ runner[r].tx # Settlement
      /\ Sent(runner[r].tx, runner[r].outcome)
  BY FinalizedRow DEF WithTransaction
<1>2. attempt.votes = FALSE
  BY DEF RunnerInv, RunnerTypeOK, MatchInv, RowIsTrue, Rows
<1>3. Attempted(r) = row
  BY DEF Attempted
<1>4. /\ a \in Rows /\ a.status = "submitted" /\ a.outcome = runner[r].outcome
      /\ a.tx = runner[r].tx
  BY <1>1 DEF Rows
<1> HIDE DEF a
<1>5. /\ row \in Rows /\ row.status = "submitted" /\ row.outcome = runner[r].outcome
      /\ row.tx = runner[r].tx /\ row.votes = FALSE
  BY <1>2, <1>4 DEF Rows
<1> HIDE DEF row
<1>6. RowIsTrue(row)
  BY <1>1, <1>5 DEF RowIsTrue
<1> QED BY <1>3, <1>5, <1>6

LEMMA RecordKeeps ==
  ASSUME RunnerInv, NEW r \in Runners, RecordFinalizationAttempt(r)
  PROVE  RunnerInv'
<1> DEFINE w == [runner[r] EXCEPT !.step = "confirming"]
<1>1. runner[r].step = "recording" /\ runner[r].step \in WithTransaction
  BY DEF RecordFinalizationAttempt, WithTransaction
<1>2. /\ UNCHANGED <<contract, txs, oracle, indexedAs, notice>>
      /\ unguarded' \in BOOLEAN /\ hashLost' \in BOOLEAN
      /\ hold' \in {"none", "manual_review", "cleared"} /\ held' \in [times : Nat, alerts : Nat]
  BY DEF RecordFinalizationAttempt, outside, RunnerInv, RunnerTypeOK
<1>3. CASE attempt.status = "challenged"
  <2>1. runner' = [runner EXCEPT ![r] = Resting] /\ UNCHANGED attempt
    BY <1>3 DEF RecordFinalizationAttempt, Rest
  <2> QED BY <1>2, <2>1, RestingIsWork, MoveKeeps, NoticeStands, RowStands
<1>4. CASE attempt.status # "challenged"
  <2>1. /\ runner' = [runner EXCEPT ![r] = w]
        /\ attempt' = IF attempt.status = "finalized" THEN attempt ELSE Attempted(r)
    BY <1>4 DEF RecordFinalizationAttempt, Goto
  <2>2. /\ w \in Work /\ w.step = "confirming" /\ w.tx = runner[r].tx
        /\ w.outcome = runner[r].outcome
    BY <1>1, FinalizedRow DEF Work, Steps
  <2> HIDE DEF w
  <2>3. WorkIsTrue(w) /\ ReadFrom(w, attempt') /\ Agrees(w)
    BY <1>1, <2>2, FinalizedRow, ElsewhereAgrees DEF WorkIsTrue
  <2>4. RowFollows
    BY <1>1, <1>2, <2>1, AttemptedRow, PlainRow, RowStands
  <2> QED BY <1>2, <2>1, <2>2, <2>3, <2>4, MoveKeeps, NoticeStands
<1> QED BY <1>3, <1>4

LEMMA WaitKeeps ==
  ASSUME RunnerInv, NEW r \in Runners, WaitForConfirmation(r)
  PROVE  RunnerInv'
<1> DEFINE w == [runner[r] EXCEPT !.step = "notifying"]
<1>1. runner[r].step = "confirming" /\ runner[r].step \in WithTransaction
  BY DEF WaitForConfirmation, WithTransaction
<1>2. /\ UNCHANGED <<contract, txs, oracle, indexedAs, notice>>
      /\ unguarded' \in BOOLEAN /\ hashLost' \in BOOLEAN
      /\ hold' \in {"none", "manual_review", "cleared"} /\ held' \in [times : Nat, alerts : Nat]
  BY DEF WaitForConfirmation, outside, history, RunnerInv, RunnerTypeOK
<1>3. CASE txs[runner[r].tx].status = "success"
  <2>1. MarkFinalDecision(r) /\ runner' = [runner EXCEPT ![r] = w]
    BY <1>3 DEF WaitForConfirmation, Goto
  <2>2. runner[r].outcome = contract
    BY <1>1, <1>3, FinalizedRow DEF RunnerInv, MatchInv, Sent
  <2>3. /\ w \in Work /\ w.step = "notifying" /\ w.tx = runner[r].tx
        /\ w.outcome = runner[r].outcome
    BY <1>1, FinalizedRow DEF Work, Steps
  <2> HIDE DEF w
  <2>4. WorkIsTrue(w) /\ ReadFrom(w, attempt') /\ Agrees(w)
    BY <1>1, <2>2, <2>3, FinalizedRow, ElsewhereAgrees DEF WorkIsTrue
  <2>5. RowFollows
    BY <1>1, <1>2, <2>1, <2>2, FinalizedIsTrue
  <2> QED BY <1>2, <2>1, <2>3, <2>4, <2>5, MoveKeeps, NoticeStands
<1>4. CASE txs[runner[r].tx].status # "success"
  <2>1. attempt' = attempt /\ runner' = [runner EXCEPT ![r] = Resting]
    BY <1>4 DEF WaitForConfirmation, Rest
  <2> QED BY <1>2, <2>1, RestingIsWork, MoveKeeps, NoticeStands, RowStands
<1> QED BY <1>3, <1>4

LEMMA NotifyKeeps ==
  ASSUME RunnerInv, NEW r \in Runners, NEW received, NEW answered,
         NotifyFinalized(r, received, answered)
  PROVE  RunnerInv'
<1> DEFINE w == [runner[r] EXCEPT !.tries = @ + 1]
<1>1. runner[r].step = "notifying" /\ runner[r].step \in WithTransaction
  BY DEF NotifyFinalized, WithTransaction
<1>2. /\ UNCHANGED <<contract, txs, oracle, indexedAs, attempt>>
      /\ unguarded' \in BOOLEAN /\ hashLost' \in BOOLEAN
      /\ hold' \in {"none", "manual_review", "cleared"} /\ held' \in [times : Nat, alerts : Nat]
  BY DEF NotifyFinalized, outside, history, RunnerInv, RunnerTypeOK
<1>3. runner[r].outcome = contract
  BY <1>1, FinalizedRow DEF WorkIsTrue
<1>4. notice' \in [delivered : SUBSET (Verdicts \intersect {contract}),
                   stored : Outcomes \intersect {contract, Undecided}]
  <2>1. runner[r].outcome \in Verdicts /\ runner[r].outcome \in Outcomes
    BY <1>1, FinalizedRow DEF Outcomes
  <2> QED BY <1>3, <2>1, NoticeStands DEF NotifyFinalized
<1>5. runner' = [runner EXCEPT ![r] = w] \/ runner' = [runner EXCEPT ![r] = Resting]
  BY DEF NotifyFinalized, Rest
<1>6. /\ w \in Work /\ w.step = "notifying" /\ w.tx = runner[r].tx
      /\ w.outcome = runner[r].outcome
  <2>1. runner[r] \in Work /\ runner[r].tries \in Nat
    BY <1>1, FinalizedRow DEF Work
  <2>2. PICK more \in Nat : more = runner[r].tries + 1
    BY <2>1
  <2>3. w = [runner[r] EXCEPT !.tries = more]
    BY <2>2
  <2> HIDE DEF w
  <2> QED BY <1>1, <2>1, <2>3 DEF Work
<1> HIDE DEF w
<1>7. WorkIsTrue(w) /\ ReadFrom(w, attempt') /\ Agrees(w)
  BY <1>1, <1>6, FinalizedRow, ElsewhereAgrees DEF WorkIsTrue
<1> QED BY <1>2, <1>4, <1>5, <1>6, <1>7, RestingIsWork, MoveKeeps, RowStands

LEMMA FailsKeeps ==
  ASSUME RunnerInv, NEW r \in Runners, RunnerFails(r)
  PROVE  RunnerInv'
<1>1. runner' = [runner EXCEPT ![r] = Resting]
  BY DEF RunnerFails, Rest
<1>2. unguarded' = (unguarded \/ runner[r].step = "recording") /\ unguarded \in BOOLEAN
  BY DEF RunnerFails, RunnerInv, RunnerTypeOK
<1>3. unguarded' \in BOOLEAN
  BY <1>2
<1>4. /\ UNCHANGED <<contract, txs, oracle, indexedAs, attempt, notice>> /\ hashLost' \in BOOLEAN
      /\ hold' \in {"none", "manual_review", "cleared"} /\ held' \in [times : Nat, alerts : Nat]
  BY DEF RunnerFails, outside, RunnerInv, RunnerTypeOK
<1> QED BY <1>1, <1>3, <1>4, RestingIsWork, MoveKeeps, NoticeStands, RowStands

LEMMA RunnerStep == RunnerInv /\ [RunnerNext]_runVars => RunnerInv'
<1> SUFFICES ASSUME RunnerInv, [RunnerNext]_runVars PROVE RunnerInv'
  OBVIOUS
<1>1. CASE UNCHANGED runVars
  <2>1. Aside /\ UNCHANGED attempt
    BY <1>1 DEF runVars, Aside, RunnerInv, RunnerTypeOK
  <2> QED BY <2>1, AsideKeeps, RowStands
<1>2. ASSUME NEW member \in Council, NEW outcome \in Verdicts, RecordSubmission(member, outcome)
      PROVE  RunnerInv'
  <2>1. Aside /\ UNCHANGED attempt
    BY <1>2 DEF RecordSubmission, Aside, inside, history, RunnerInv, RunnerTypeOK
  <2> QED BY <2>1, AsideKeeps, RowStands
<1>3. CASE ClearHold
  <2>1. Aside /\ UNCHANGED attempt
    BY <1>3 DEF ClearHold, Aside, outside, inside, history, RunnerInv, RunnerTypeOK
  <2> QED BY <2>1, AsideKeeps, RowStands
<1>4. ASSUME NEW r \in Runners, ProcessMarket(r)
      PROVE  RunnerInv'
  BY <1>4, StartMarketKeeps, TallyVotesKeeps, HoldForReviewKeeps, CheckAttemptKeeps, SubmitKeeps,
     RecordKeeps, WaitKeeps, NotifyKeeps DEF ProcessMarket
<1> QED BY <1>1, <1>2, <1>3, <1>4, TxLandsKeeps, TxLostKeeps, AdminDecidesKeeps, OracleSettlesKeeps,
           ChallengeKeeps, SubmitOutcomeKeeps, CleanupKeeps, IndexChallengeKeeps, IndexVerdictKeeps, FailsKeeps
        DEF RunnerNext

-----------------------------------------------------------------------------
(* Records and notices tell the truth *)

\* Everything that the finalizer, the API and the indexer keep agrees with the
\* transactions, the settlement and the contract: the inductive invariant of
\* record_finalization_attempt, wait_for_confirmation and the webhook's deliveries.
THEOREM RunnerInvariant == RunnerSpec => []RunnerInv
<1> QED BY RunnerInitially, RunnerStep, PTL DEF RunnerSpec

\* A row that says finalized names the verdict of the contract where the council's
\* votes decided it, and that of the settlement where the indexer did.
THEOREM FinalizedAlwaysMatches == RunnerSpec => []FinalizedMatchesChain
<1>1. RunnerInv => FinalizedMatchesChain
  BY DEF RunnerInv, MatchInv, RowIsTrue, FinalizedMatchesChain
<1> QED BY <1>1, RunnerInvariant, PTL

\* The webhook is told, and the operator is left, only verdicts of the contract.
THEOREM NoticesAlwaysTrue == RunnerSpec => []NoticesAreTrue
<1>1. RunnerInv => NoticesAreTrue
  BY DEF RunnerInv, MatchInv, NoticesAreTrue
<1> QED BY <1>1, RunnerInvariant, PTL

\* No late runner takes a finalized row back, and none turns its decision but from
\* the settlement's to the verdict of the contract; the row goes only whole, with
\* its nonce.
THEOREM FinalizedRowStays == RunnerSpec => FinalizedRowIsKept
<1> DEFINE Keeps == attempt.status = "finalized" =>
                      \/ attempt.nonce /\ attempt' = NoAttempt
                      \/ /\ attempt'.status = "finalized"
                         /\ attempt.votes => attempt'.votes /\ attempt'.decision = attempt.decision
                         /\ \/ attempt'.decision = attempt.decision
                            \/ attempt'.decision = contract \/ contract = "cancelled"
<1>1. RunnerInv /\ [RunnerNext]_runVars => [Keeps]_runVars
  <2> SUFFICES ASSUME RunnerInv, RunnerNext, attempt.status = "finalized" PROVE Keeps
    OBVIOUS
  <2>1. CASE UNCHANGED attempt
    BY <2>1
  <2>2. ASSUME NEW r \in Runners, runner[r].step \in WithTransaction \union {"checking"},
               \/ runner[r].outcome = contract
               \/ runner[r].step = "checking" /\ runner[r].tx = Settlement /\ contract = "cancelled",
               MarkFinalDecision(r)
        PROVE  Keeps
    <3>1. attempt' = Finalized(r)
      BY <2>2, EmptyRow DEF MarkFinalDecision
    <3>2. /\ attempt'.status = "finalized" /\ attempt'.votes = TRUE
          /\ attempt'.decision = runner[r].outcome /\ runner[r].outcome \in Verdicts
          /\ ReadFrom(runner[r], attempt)
      BY <2>2, <3>1, FinalizedRow
    <3>3. contract = "cancelled" => OnSettlement(runner[r])
      BY <2>2, <3>2 DEF OnSettlement, Verdicts
    <3>4. contract = "cancelled" => attempt.outcome = runner[r].outcome
      BY <3>2, <3>3 DEF ReadFrom
    <3>5. attempt.votes => /\ attempt.decision = attempt.outcome
                           /\ attempt.decision = contract \/ contract = "cancelled"
      BY DEF RunnerInv, MatchInv, RowIsTrue
    <3> QED BY <2>2, <3>2, <3>4, <3>5
  <2>3. ASSUME NEW r \in Runners, CheckAttempt(r) PROVE Keeps
    <3>1. runner[r].step = "checking"
      BY <2>3 DEF CheckAttempt
    <3>2. CASE \/ contract = runner[r].outcome
               \/ contract \notin Verdicts /\ TxStatus(runner[r].tx) = "success"
      <4>1. MarkFinalDecision(r)
        BY <2>3, <3>2 DEF CheckAttempt
      <4> HIDE DEF Keeps
      <4> QED BY <2>2, <3>1, <3>2, <4>1, CheckedIsDecided
    <3>3. CASE ~(\/ contract = runner[r].outcome
                 \/ contract \notin Verdicts /\ TxStatus(runner[r].tx) = "success")
      <4>1. UNCHANGED attempt
        BY <2>3, <3>3 DEF CheckAttempt
      <4> QED BY <2>1, <4>1
    <3> QED BY <3>2, <3>3
  <2>4. ASSUME NEW r \in Runners, WaitForConfirmation(r) PROVE Keeps
    <3>1. runner[r].step \in WithTransaction
      BY <2>4 DEF WaitForConfirmation, WithTransaction
    <3>2. CASE txs[runner[r].tx].status = "success"
      <4>1. MarkFinalDecision(r) /\ runner[r].outcome = contract
        BY <2>4, <3>1, <3>2, FinalizedRow DEF WaitForConfirmation, RunnerInv, MatchInv, Sent
      <4> HIDE DEF Keeps
      <4> QED BY <2>2, <3>1, <4>1
    <3>3. CASE txs[runner[r].tx].status # "success"
      BY <2>1, <2>4, <3>3 DEF WaitForConfirmation
    <3> QED BY <3>2, <3>3
  <2>5. ASSUME NEW r \in Runners, ProcessMarket(r), ~CheckAttempt(r), ~WaitForConfirmation(r)
        PROVE  UNCHANGED attempt
    BY <2>5 DEF ProcessMarket, StartMarket, TallyVotes, HoldForReview, SubmitResolutionTransaction,
       RecordFinalizationAttempt, NotifyFinalized
  <2>6. ASSUME NEW outcome \in Verdicts, NEW nonce \in BOOLEAN, SubmitOutcome(outcome, nonce)
        PROVE  FALSE
    BY <2>6, EmptyRow DEF SubmitOutcome
  <2>7. ASSUME IndexChallenge \/ IndexVerdict PROVE UNCHANGED attempt
    BY <2>7 DEF IndexChallenge, IndexVerdict
  <2>8. CASE CleanupExpiredNonces
    BY <2>8 DEF CleanupExpiredNonces
  <2> HIDE DEF Keeps
  <2> QED BY <2>1, <2>3, <2>4, <2>5, <2>6, <2>7, <2>8
          DEF RunnerNext, RecordSubmission, TxLands, TxLost, AdminDecides, Challenge, OracleSettles,
              ClearHold, RunnerFails, Verdicts
<1> QED BY <1>1, RunnerInvariant, PTL DEF FinalizedRowIsKept, RunnerSpec

-----------------------------------------------------------------------------
(* At most one resolution may still land *)

\* What may still land is what the row names, or the row names the settlement, after
\* which no runner starts.
KnownFrom(may, row) ==
    may \subseteq {row.tx} \/ (row.tx = Settlement /\ \E n : may \subseteq {n})

\* The runner that works knows what may still land, and sends where nothing may.
KnownTo(may, w) ==
    /\ w.step = "checking" => may \subseteq {w.tx} \/ w.tx = Settlement
    /\ w.step = "sending" => may = {}
    /\ w.step \in {"recording", "confirming"} => may \subseteq {w.tx}

\* OneLiveTransaction is not inductive: what may land must be known to the one
\* runner that works, or to the row that the next one reads.
OneAtATime ==
    /\ \A r, s \in Runners : Busy(r) /\ Busy(s) => r = s
    /\ \A r \in Runners : Busy(r) /\ runner[r].step # "notifying" => ~attempt.votes
    /\ \A r \in Runners : KnownTo(MayLand, runner[r])
    /\ (\A r \in Runners : runner[r].step # "recording") => KnownFrom(MayLand, attempt)

AloneInv == ~unguarded /\ ~hashLost => OneAtATime

\* The runner that works goes on to w, alone as it was.
LEMMA AloneMoves ==
  ASSUME RunnerInv, OneAtATime, NEW r \in Runners, Busy(r), NEW w \in Work,
         runner' = [runner EXCEPT ![r] = w], MayLand' = MayLand,
         w.step \notin {"idle", "notifying"} => ~attempt'.votes,
         KnownTo(MayLand, w),
         w.step # "recording" => KnownFrom(MayLand, attempt')
  PROVE  OneAtATime'
<1>1. \A s \in Runners : runner'[s] = IF s = r THEN w ELSE runner[s]
  BY DEF RunnerInv, RunnerTypeOK
<1>2. \A s \in Runners : s # r => runner[s].step = "idle"
  BY DEF OneAtATime, Busy
<1>3. \A s, z \in Runners : runner'[s].step # "idle" /\ runner'[z].step # "idle" => s = z
  BY <1>1, <1>2
<1>4. \A s \in Runners : runner'[s].step \notin {"idle", "notifying"} => ~attempt'.votes
  BY <1>1, <1>2
<1>5. \A s \in Runners : KnownTo(MayLand, runner'[s])
  BY <1>1 DEF OneAtATime
<1>6. (\A s \in Runners : runner'[s].step # "recording") => KnownFrom(MayLand, attempt')
  BY <1>1
<1>7. \A may, s : KnownTo(may, runner[s])' <=> KnownTo(may', runner'[s])
  BY DEF KnownTo
<1>8. KnownFrom(MayLand, attempt)' <=> KnownFrom(MayLand', attempt')
  BY DEF KnownFrom
<1> QED BY <1>3, <1>4, <1>5, <1>6, <1>7, <1>8 DEF OneAtATime, Busy

\* The others start no runner and send nothing; the row is left to the runner, but
\* for the settlement's hash.
LEMMA AloneAside ==
  ASSUME AloneInv, UNCHANGED <<runner, unguarded, hashLost>>, MayLand' \subseteq MayLand,
         attempt'.votes => attempt.votes, attempt'.tx \in {attempt.tx, Settlement}
  PROVE  AloneInv'
<1> SUFFICES ASSUME OneAtATime PROVE OneAtATime'
  BY DEF AloneInv
<1>1. \A s : KnownTo(MayLand, runner[s]) => KnownTo(MayLand, runner[s])'
  BY DEF KnownTo
<1>2. KnownFrom(MayLand, attempt) => KnownFrom(MayLand, attempt)'
  <2> SUFFICES ASSUME KnownFrom(MayLand, attempt) PROVE KnownFrom(MayLand, attempt)'
    OBVIOUS
  <2>1. \E n : MayLand \subseteq {n}
    BY DEF KnownFrom
  <2> QED BY <2>1 DEF KnownFrom
<1> QED BY <1>1, <1>2 DEF OneAtATime, Busy

LEMMA MayLandKept == ASSUME txs' = txs PROVE MayLand' = MayLand
BY DEF MayLand

LEMMA AloneTxs ==
  ASSUME RunnerInv, AloneInv, NEW n \in DOMAIN txs, TxLands(n) \/ TxLost(n)
  PROVE  AloneInv'
<1>1. PICK status \in {"success", "failed", "dropped"} :
          txs' = [txs EXCEPT ![n] = [txs[n] EXCEPT !.status = status]]
  BY DEF TxLands, TxLost
<1>2. txs \in Seq(Transaction) /\ txs[n].status = "pending"
  BY DEF TxLands, TxLost, RunnerInv, RunnerTypeOK
<1>3. DOMAIN txs' = DOMAIN txs /\ \A m \in DOMAIN txs : m # n => txs'[m] = txs[m]
  BY <1>1, <1>2
<1>4. MayLand' \subseteq MayLand
  BY <1>2, <1>3 DEF MayLand
<1>5. UNCHANGED <<attempt, runner, unguarded, hashLost>>
  BY DEF TxLands, TxLost, inside, history
<1> QED BY <1>4, <1>5, AloneAside

\* The settlement's hash takes the place of the row's, whose transaction can only fail.
LEMMA AloneIndexed ==
  ASSUME RunnerInv, AloneInv, IndexChallenge \/ IndexVerdict
  PROVE  AloneInv'
<1>1. UNCHANGED <<txs, runner, unguarded, hashLost>>
  BY DEF IndexChallenge, IndexVerdict, inside, history
<1>2. (attempt'.votes => attempt.votes) /\ attempt'.tx \in {attempt.tx, Settlement}
  <2>1. attempt \in Rows
    BY DEF RunnerInv, RunnerTypeOK
  <2>2. CASE IndexChallenge
    BY <2>1, <2>2 DEF IndexChallenge, Rows
  <2>3. CASE IndexVerdict /\ attempt.status \in {"submitted", "challenged"}
    BY <2>3, IndexVerdictRow
  <2>4. CASE IndexVerdict /\ attempt.status \notin {"submitted", "challenged"}
    BY <2>4 DEF IndexVerdict
  <2> QED BY <2>2, <2>3, <2>4
<1> QED BY <1>1, <1>2, AloneAside, MayLandKept

LEMMA AloneSubmitted ==
  ASSUME RunnerInv, AloneInv, NEW outcome \in Verdicts, NEW nonce \in BOOLEAN,
         SubmitOutcome(outcome, nonce)
  PROVE  AloneInv'
<1>1. attempt'.votes = attempt.votes /\ attempt'.tx = attempt.tx
  BY DEF SubmitOutcome, NoAttempt
<1>2. UNCHANGED <<txs, runner, unguarded, hashLost>>
  BY DEF SubmitOutcome, inside, history
<1> QED BY <1>1, <1>2, AloneAside, MayLandKept

\* A row that held a hash is missed; one that held none said nothing of what may land.
LEMMA AloneCleaned ==
  ASSUME RunnerInv, AloneInv, CleanupExpiredNonces
  PROVE  AloneInv'
<1>1. CASE hashLost'
  BY <1>1 DEF AloneInv
<1>2. CASE ~hashLost'
  <2>1. attempt.tx = 0 /\ attempt'.tx = 0 /\ attempt'.votes = FALSE
    BY <1>2 DEF CleanupExpiredNonces, NoAttempt
  <2>2. UNCHANGED <<txs, runner, unguarded, hashLost>>
    BY <1>2 DEF CleanupExpiredNonces, RunnerInv, RunnerTypeOK
  <2> QED BY <2>1, <2>2, AloneAside, MayLandKept
<1> QED BY <1>1, <1>2

\* A runner that starts alone read a market that was open: the council's votes have
\* not decided it.
LEMMA AloneStarts ==
  ASSUME RunnerInv, AloneInv, NEW r \in Runners, StartMarket(r)
  PROVE  AloneInv'
<1> SUFFICES ASSUME ~unguarded', ~hashLost' PROVE OneAtATime'
  BY DEF AloneInv
<1>1. OneAtATime /\ \A s \in Runners : runner[s].step = "idle"
  BY DEF AloneInv, StartMarket, Busy
<1>2. KnownFrom(MayLand, attempt) /\ MayLand' = MayLand /\ attempt' = attempt
  BY <1>1, MayLandKept DEF OneAtATime, StartMarket
<1>3. \A s \in Runners : runner'[s].step = IF s = r THEN "tallying" ELSE "idle"
  BY <1>1 DEF StartMarket, Goto, RunnerInv, RunnerTypeOK, Work
<1>4. ~attempt.votes
  <2>1. contract = "open" /\ attempt.decision # "open"
    BY Names DEF StartMarket, RunnerInv, RunnerTypeOK, Rows
  <2> QED BY <2>1 DEF RunnerInv, MatchInv, RowIsTrue
<1>5. \A s \in Runners : KnownTo(MayLand, runner'[s])
  BY <1>3 DEF KnownTo
<1>6. \A s : KnownTo(MayLand, runner[s])' <=> KnownTo(MayLand', runner'[s])
  BY DEF KnownTo
<1>7. KnownFrom(MayLand, attempt)'
  BY <1>2 DEF KnownFrom
<1>8. \A s, z \in Runners : runner'[s].step # "idle" /\ runner'[z].step # "idle" => s = z
  BY <1>3
<1> QED BY <1>2, <1>4, <1>5, <1>6, <1>7, <1>8 DEF OneAtATime, Busy

LEMMA RestingIsKnown == \A may : KnownTo(may, Resting)
BY RestingIsWork DEF KnownTo

\* Where the work of one runner goes on, the guards say that it was alone.
LEMMA AloneTallies ==
  ASSUME RunnerInv, AloneInv, NEW r \in Runners, TallyVotes(r)
  PROVE  AloneInv'
<1> SUFFICES ASSUME ~unguarded', ~hashLost' PROVE OneAtATime'
  BY DEF AloneInv
<1> DEFINE outcome == SelectThresholdOutcome
<1>1. OneAtATime /\ Busy(r) /\ runner[r].step = "tallying" /\ attempt' = attempt /\ txs' = txs
  BY DEF AloneInv, TallyVotes, Busy, history, outside
<1>2. MayLand' = MayLand /\ ~attempt.votes /\ KnownFrom(MayLand, attempt)
  BY <1>1, MayLandKept DEF OneAtATime, Busy
<1>3. CASE attempt.tx # 0 /\ attempt.outcome # outcome
  <2>1. runner' = [runner EXCEPT ![r] = Resting]
    BY <1>3 DEF TallyVotes, Rest
  <2> QED BY <1>1, <1>2, <2>1, RestingIsWork, RestingIsKnown, AloneMoves
<1>4. CASE ~(attempt.tx # 0 /\ attempt.outcome # outcome)
  <2>1. runner' = [runner EXCEPT ![r] = Tallied(r)]
    BY <1>4 DEF TallyVotes, Tallied
  <2>2. /\ Tallied(r) \in Work /\ Tallied(r).tx = attempt.tx
        /\ Tallied(r).step = IF attempt.tx = 0 THEN "sending" ELSE "checking"
    BY TalliedIsWork DEF TallyVotes
  <2>3. attempt.tx = 0 => MayLand = {}
    BY <1>2, SettlementIsApart, Names DEF MayLand, KnownFrom
  <2>4. KnownTo(MayLand, Tallied(r))
    BY <1>2, <2>2, <2>3 DEF KnownTo, KnownFrom
  <2>5. Tallied(r).step # "recording"
    BY <2>2
  <2> QED BY <1>1, <1>2, <2>1, <2>2, <2>4, <2>5, AloneMoves
<1> QED BY <1>3, <1>4

LEMMA AloneHolds ==
  ASSUME RunnerInv, AloneInv, NEW r \in Runners, HoldForReview(r)
  PROVE  AloneInv'
<1> SUFFICES ASSUME ~unguarded', ~hashLost' PROVE OneAtATime'
  BY DEF AloneInv
<1>1. OneAtATime /\ Busy(r) /\ runner[r].step = "tallying" /\ attempt' = attempt /\ txs' = txs
  BY DEF AloneInv, HoldForReview, Busy, history, outside
<1>2. MayLand' = MayLand /\ KnownFrom(MayLand, attempt)
  BY <1>1, MayLandKept DEF OneAtATime, Busy
<1>3. runner' = [runner EXCEPT ![r] = Resting]
  BY DEF HoldForReview, Rest
<1> QED BY <1>1, <1>2, <1>3, RestingIsWork, RestingIsKnown, AloneMoves

\* Only a failed transaction is replaced, and it was the only one; a settlement has
\* not failed.
LEMMA AloneChecks ==
  ASSUME RunnerInv, AloneInv, NEW r \in Runners, CheckAttempt(r)
  PROVE  AloneInv'
<1> SUFFICES ASSUME ~unguarded', ~hashLost' PROVE OneAtATime'
  BY DEF AloneInv
<1> DEFINE decided == \/ contract = runner[r].outcome
                      \/ contract \notin Verdicts /\ TxStatus(runner[r].tx) = "success"
           w == [runner[r] EXCEPT !.step = "sending"]
<1>1. OneAtATime /\ Busy(r) /\ runner[r].step = "checking" /\ txs' = txs
  BY DEF AloneInv, CheckAttempt, Busy, outside
<1>2. /\ MayLand' = MayLand /\ KnownFrom(MayLand, attempt) /\ ~attempt.votes
      /\ KnownTo(MayLand, runner[r])
  BY <1>1, MayLandKept DEF OneAtATime, Busy
<1>3. CASE decided
  <2>1. MarkFinalDecision(r) /\ runner' = [runner EXCEPT ![r] = Resting]
    BY <1>3 DEF CheckAttempt, Rest
  <2>2. attempt' = attempt \/ attempt'.tx = runner[r].tx
    BY <1>1, <2>1, FinalizedRow DEF MarkFinalDecision
  <2>3. KnownFrom(MayLand, attempt')
    BY <1>1, <1>2, <2>2 DEF KnownFrom, KnownTo
  <2> QED BY <1>1, <1>2, <2>1, <2>3, RestingIsWork, RestingIsKnown, AloneMoves
<1>4. CASE ~decided /\ contract \notin Verdicts /\ TxStatus(runner[r].tx) = "failed"
  <2>1. attempt' = attempt /\ runner' = [runner EXCEPT ![r] = w]
    BY <1>4 DEF CheckAttempt, Goto
  <2>2. w \in Work /\ w.step = "sending"
    BY <1>1, FinalizedRow DEF Work, Steps
  <2>3. runner[r].tx # Settlement /\ txs[runner[r].tx].status = "failed"
    BY <1>4 DEF TxStatus
  <2>4. MayLand = {}
    BY <1>1, <1>2, <2>3 DEF MayLand, KnownTo
  <2> HIDE DEF w
  <2>5. KnownTo(MayLand, w)
    BY <2>2, <2>4 DEF KnownTo
  <2> QED BY <1>1, <1>2, <2>1, <2>2, <2>5, AloneMoves
<1>5. CASE ~decided /\ ~(contract \notin Verdicts /\ TxStatus(runner[r].tx) = "failed")
  <2>1. attempt' = attempt /\ runner' = [runner EXCEPT ![r] = Resting]
    BY <1>5 DEF CheckAttempt, Rest
  <2> QED BY <1>1, <1>2, <2>1, RestingIsWork, RestingIsKnown, AloneMoves
<1> QED BY <1>3, <1>4, <1>5

LEMMA AloneSubmits ==
  ASSUME RunnerInv, AloneInv, NEW r \in Runners, SubmitResolutionTransaction(r)
  PROVE  AloneInv'
<1> SUFFICES ASSUME ~unguarded', ~hashLost' PROVE OneAtATime'
  BY DEF AloneInv
<1> DEFINE t == [outcome |-> runner[r].outcome, status |-> "pending"]
<1>1. OneAtATime /\ Busy(r) /\ runner[r].step = "sending" /\ attempt' = attempt
  BY DEF AloneInv, SubmitResolutionTransaction, Busy, history
<1>2. txs' = Append(txs, t) /\ txs \in Seq(Transaction)
  BY DEF SubmitResolutionTransaction, RunnerInv, RunnerTypeOK
<1>3. MayLand = {} /\ ~attempt.votes
  BY <1>1 DEF OneAtATime, Busy, KnownTo
<1> HIDE DEF t
<1>4. /\ \A n \in DOMAIN txs' : n \in DOMAIN txs \/ n = Len(txs) + 1
      /\ \A n \in DOMAIN txs : txs'[n] = txs[n]
  BY <1>2
<1>5. MayLand' \subseteq {Len(txs) + 1}
  BY <1>3, <1>4 DEF MayLand
<1>6. \A s \in Runners : s # r => runner[s].step = "idle" /\ runner'[s] = runner[s]
  BY <1>1 DEF OneAtATime, Busy, SubmitResolutionTransaction, RunnerInv, RunnerTypeOK
<1>7. runner'[r].step = "recording" /\ runner'[r].tx = Len(txs) + 1
  <2>1. runner[r] \in Work
    BY DEF RunnerInv, RunnerTypeOK
  <2> QED BY <2>1 DEF SubmitResolutionTransaction, RunnerInv, RunnerTypeOK, Work
<1>8. \A s \in Runners : KnownTo(MayLand', runner'[s])
  BY <1>5, <1>6, <1>7 DEF KnownTo
<1>9. \A s : KnownTo(MayLand, runner[s])' <=> KnownTo(MayLand', runner'[s])
  BY DEF KnownTo
<1>10. \A s, z \in Runners : runner'[s].step # "idle" /\ runner'[z].step # "idle" => s = z
  BY <1>6
<1> QED BY <1>1, <1>3, <1>7, <1>8, <1>9, <1>10 DEF OneAtATime, Busy

\* A final row that was not decided by the votes is the settlement's, and no hash is
\* written over it.
LEMMA AloneRecords ==
  ASSUME RunnerInv, AloneInv, NEW r \in Runners, RecordFinalizationAttempt(r)
  PROVE  AloneInv'
<1> SUFFICES ASSUME ~unguarded', ~hashLost' PROVE OneAtATime'
  BY DEF AloneInv, RecordFinalizationAttempt
<1> DEFINE w == [runner[r] EXCEPT !.step = "confirming"]
<1>1. /\ ~unguarded /\ ~hashLost /\ Busy(r) /\ runner[r].step = "recording" /\ txs' = txs
      /\ runner[r].step \in WithTransaction /\ attempt.status # "challenged"
  BY DEF RecordFinalizationAttempt, Busy, outside, WithTransaction
<1>2. /\ OneAtATime /\ MayLand' = MayLand /\ ~attempt.votes /\ MayLand \subseteq {runner[r].tx}
  BY <1>1, MayLandKept DEF AloneInv, OneAtATime, Busy, KnownTo
<1>3. /\ attempt' = IF attempt.status = "finalized" THEN attempt ELSE Attempted(r)
      /\ runner' = [runner EXCEPT ![r] = w]
  BY <1>1 DEF RecordFinalizationAttempt, Goto
<1>4. w \in Work /\ w.step = "confirming" /\ w.tx = runner[r].tx
  BY <1>1, FinalizedRow DEF Work, Steps
<1> HIDE DEF w
<1>5. KnownTo(MayLand, w)
  BY <1>2, <1>4 DEF KnownTo
<1>6. ~attempt'.votes /\ KnownFrom(MayLand, attempt')
  <2>1. CASE attempt.status = "finalized"
    <3>1. attempt' = attempt /\ attempt.tx = Settlement
      BY <1>2, <1>3, <2>1 DEF RunnerInv, MatchInv, RowIsTrue
    <3> QED BY <1>2, <3>1 DEF KnownFrom
  <2>2. CASE attempt.status # "finalized"
    <3>1. attempt' = Attempted(r)
      BY <1>3, <2>2
    <3>2. attempt'.votes = attempt.votes /\ attempt'.tx = runner[r].tx
      BY <3>1 DEF Attempted, Finalized
    <3> QED BY <1>2, <3>2 DEF KnownFrom
  <2> QED BY <2>1, <2>2
<1> QED BY <1>1, <1>2, <1>3, <1>4, <1>5, <1>6, AloneMoves

LEMMA AloneWaits ==
  ASSUME RunnerInv, AloneInv, NEW r \in Runners, WaitForConfirmation(r)
  PROVE  AloneInv'
<1> SUFFICES ASSUME ~unguarded', ~hashLost' PROVE OneAtATime'
  BY DEF AloneInv
<1> DEFINE w == [runner[r] EXCEPT !.step = "notifying"]
<1>1. /\ OneAtATime /\ Busy(r) /\ runner[r].step = "confirming" /\ txs' = txs
      /\ runner[r].step \in WithTransaction
  BY DEF AloneInv, WaitForConfirmation, Busy, history, outside, WithTransaction
<1>2. /\ MayLand' = MayLand /\ MayLand \subseteq {runner[r].tx}
      /\ KnownFrom(MayLand, attempt)
  BY <1>1, MayLandKept DEF OneAtATime, Busy, KnownTo
<1>3. CASE txs[runner[r].tx].status = "success"
  <2>1. MarkFinalDecision(r) /\ runner' = [runner EXCEPT ![r] = w]
    BY <1>3 DEF WaitForConfirmation, Goto
  <2>2. w \in Work /\ w.step = "notifying"
    BY <1>1, FinalizedRow DEF Work, Steps
  <2>3. attempt' = attempt \/ attempt'.tx = runner[r].tx
    BY <1>1, <2>1, FinalizedRow DEF MarkFinalDecision
  <2>4. KnownFrom(MayLand, attempt')
    BY <1>2, <2>3 DEF KnownFrom
  <2> HIDE DEF w
  <2>5. KnownTo(MayLand, w)
    BY <2>2 DEF KnownTo
  <2> QED BY <1>1, <1>2, <2>1, <2>2, <2>4, <2>5, AloneMoves
<1>4. CASE txs[runner[r].tx].status # "success"
  <2>1. attempt' = attempt /\ runner' = [runner EXCEPT ![r] = Resting]
    BY <1>4 DEF WaitForConfirmation, Rest
  <2> QED BY <1>1, <1>2, <2>1, RestingIsWork, RestingIsKnown, AloneMoves
<1> QED BY <1>3, <1>4

LEMMA AloneNotifies ==
  ASSUME RunnerInv, AloneInv, NEW r \in Runners, NEW received, NEW answered,
         NotifyFinalized(r, received, answered)
  PROVE  AloneInv'
<1> SUFFICES ASSUME ~unguarded', ~hashLost' PROVE OneAtATime'
  BY DEF AloneInv
<1> DEFINE w == [runner[r] EXCEPT !.tries = @ + 1]
<1>1. /\ OneAtATime /\ Busy(r) /\ runner[r].step = "notifying" /\ txs' = txs
      /\ attempt' = attempt /\ runner[r].step \in WithTransaction
  BY DEF AloneInv, NotifyFinalized, Busy, history, outside, WithTransaction
<1>2. MayLand' = MayLand /\ KnownFrom(MayLand, attempt)
  BY <1>1, MayLandKept DEF OneAtATime, Busy
<1>3. runner' = [runner EXCEPT ![r] = w] \/ runner' = [runner EXCEPT ![r] = Resting]
  BY DEF NotifyFinalized, Rest
<1>4. w \in Work /\ w.step = "notifying"
  <2>1. runner[r] \in Work /\ runner[r].tries \in Nat
    BY <1>1, FinalizedRow DEF Work
  <2>2. PICK more \in Nat : more = runner[r].tries + 1
    BY <2>1
  <2>3. w = [runner[r] EXCEPT !.tries = more]
    BY <2>2
  <2> HIDE DEF w
  <2> QED BY <1>1, <2>1, <2>3 DEF Work
<1> HIDE DEF w
<1>5. KnownTo(MayLand, w)
  BY <1>4 DEF KnownTo
<1> QED BY <1>1, <1>2, <1>3, <1>4, <1>5, RestingIsWork, RestingIsKnown, AloneMoves

\* A runner that dies with an unrecorded transaction sets unguarded.
LEMMA AloneFails ==
  ASSUME RunnerInv, AloneInv, NEW r \in Runners, RunnerFails(r)
  PROVE  AloneInv'
<1> SUFFICES ASSUME ~unguarded', ~hashLost' PROVE OneAtATime'
  BY DEF AloneInv
<1>1. /\ OneAtATime /\ Busy(r) /\ runner[r].step # "recording" /\ txs' = txs
      /\ attempt' = attempt /\ runner' = [runner EXCEPT ![r] = Resting]
  BY DEF AloneInv, RunnerFails, Rest, outside
<1>2. MayLand' = MayLand /\ KnownFrom(MayLand, attempt)
  BY <1>1, MayLandKept DEF OneAtATime, Busy
<1> QED BY <1>1, <1>2, RestingIsWork, RestingIsKnown, AloneMoves

LEMMA AloneStep == RunnerInv /\ AloneInv /\ [RunnerNext]_runVars => AloneInv'
<1> SUFFICES ASSUME RunnerInv, AloneInv, [RunnerNext]_runVars PROVE AloneInv'
  OBVIOUS
<1>1. CASE UNCHANGED <<txs, attempt, runner, unguarded, hashLost>>
  BY <1>1, AloneAside, MayLandKept
<1>2. ASSUME NEW member \in Council, NEW outcome \in Verdicts, RecordSubmission(member, outcome)
      PROVE  AloneInv'
  BY <1>1, <1>2 DEF RecordSubmission, inside, history
<1>3. ASSUME NEW state \in Verdicts \union {"cancelled"}, AdminDecides(state) PROVE AloneInv'
  BY <1>1, <1>3 DEF AdminDecides, inside, history
<1>4. ASSUME NEW outcome \in Verdicts, OracleSettles(outcome) PROVE AloneInv'
  BY <1>1, <1>4 DEF OracleSettles, inside, history
<1>5. CASE UNCHANGED runVars \/ Challenge \/ ClearHold
  BY <1>1, <1>5 DEF runVars, Challenge, ClearHold, inside, history
<1>6. ASSUME NEW r \in Runners, ProcessMarket(r) PROVE AloneInv'
  BY <1>6, AloneStarts, AloneTallies, AloneHolds, AloneChecks, AloneSubmits, AloneRecords,
     AloneWaits, AloneNotifies DEF ProcessMarket
<1> QED BY <1>2, <1>3, <1>4, <1>5, <1>6, AloneTxs, AloneFails, AloneIndexed, AloneSubmitted,
           AloneCleaned DEF RunnerNext

\* With one runner at a time, none lost between sending and recording and no hash
\* refused or deleted with its row, at most one transaction of the market is pending or unaccounted for,
\* whatever the API and the indexer write into the row.
THEOREM OneAlwaysLive == RunnerSpec => []OneLiveTransaction
<1>1. RunnerInit => AloneInv
  <2> SUFFICES ASSUME RunnerInit PROVE OneAtATime
    BY DEF AloneInv
  <2>1. \A r \in Runners : runner[r] = Resting /\ runner[r].step = "idle"
    BY RestingIsWork DEF RunnerInit
  <2>2. MayLand = {}
    BY DEF RunnerInit, MayLand
  <2>3. \A r \in Runners : KnownTo(MayLand, runner[r])
    BY <2>1, RestingIsKnown
  <2> QED BY <2>1, <2>2, <2>3 DEF OneAtATime, Busy, KnownFrom
<1>2. RunnerInv /\ AloneInv => OneLiveTransaction
  <2> SUFFICES ASSUME RunnerInv, OneAtATime PROVE Cardinality(MayLand) <= 1
    BY DEF OneLiveTransaction, AloneInv
  <2>1. \E n : MayLand \subseteq {n}
    BY DEF OneAtATime, KnownTo, KnownFrom
  <2>2. PICK n : MayLand \subseteq {n}
    BY <2>1
  <2>3. IsFiniteSet({n}) /\ Cardinality({n}) = 1
    BY FS_Singleton
  <2>4. Cardinality(MayLand) <= Cardinality({n})
    BY <2>2, <2>3, FS_Subset
  <2> QED BY <2>3, <2>4
<1> QED BY <1>1, <1>2, AloneStep, RunnerInvariant, PTL DEF RunnerSpec

-----------------------------------------------------------------------------
(* Alerts and announcements *)

\* A hold raises one alert, however many runners find the tally undecided.
THEOREM OneAlertForAHold == RunnerSpec => []OneAlertPerHold
<1>1. RunnerInit => OneAlertPerHold
  BY DEF RunnerInit, OneAlertPerHold
<1>2. RunnerInv /\ OneAlertPerHold /\ [RunnerNext]_runVars => OneAlertPerHold'
  <2> SUFFICES ASSUME RunnerInv, OneAlertPerHold, [RunnerNext]_runVars PROVE OneAlertPerHold'
    OBVIOUS
  <2>1. held.times \in Nat /\ held.alerts \in Nat
    BY DEF RunnerInv, RunnerTypeOK
  <2>2. ASSUME NEW r \in Runners, HoldForReview(r) PROVE OneAlertPerHold'
    BY <2>1, <2>2 DEF HoldForReview, OneAlertPerHold
  <2>3. ASSUME NEW r \in Runners, ProcessMarket(r), ~HoldForReview(r) PROVE held' = held
    BY <2>3 DEF ProcessMarket, StartMarket, TallyVotes, CheckAttempt, SubmitResolutionTransaction,
       RecordFinalizationAttempt, WaitForConfirmation, NotifyFinalized
  <2>4. CASE held' = held
    BY <2>4 DEF OneAlertPerHold
  <2> QED BY <2>2, <2>3, <2>4 DEF RunnerNext, RecordSubmission, TxLands, TxLost, AdminDecides,
          Challenge, OracleSettles, SubmitOutcome, CleanupExpiredNonces, IndexChallenge,
          IndexVerdict, ClearHold, RunnerFails, inside, runVars
<1> QED BY <1>1, <1>2, RunnerInvariant, PTL DEF RunnerSpec

\* A runner that does not write a final row changes nothing about announcements.
LEMMA AnnouncedMoves ==
  ASSUME RunnerInv, FinalizationsAnnounced, NEW r \in Runners, NEW w,
         runner' = [runner EXCEPT ![r] = w], runner[r].step # "notifying",
         notice' = notice, cutOff => cutOff',
         attempt'.votes => attempt' = attempt
  PROVE  FinalizationsAnnounced'
<1>1. \A s \in Runners : runner[s].step = "notifying" => s # r /\ runner'[s].step = "notifying"
  BY DEF RunnerInv, RunnerTypeOK
<1> QED BY <1>1 DEF FinalizationsAnnounced

\* What the API and the indexer write is no finalization by the votes.
LEMMA AnnouncedAside ==
  ASSUME RunnerInv, FinalizationsAnnounced, UNCHANGED <<notice, cutOff, runner>>,
         attempt'.votes => attempt' = attempt
  PROVE  FinalizationsAnnounced'
BY DEF FinalizationsAnnounced

\* A finalization by the council's votes that was not cut off is delivered or kept
\* for an operator.
THEOREM FinalizationsAlwaysAnnounced == RunnerSpec => []FinalizationsAnnounced
<1>1. RunnerInit => FinalizationsAnnounced
  BY DEF RunnerInit, FinalizationsAnnounced, NoAttempt
<1>2. RunnerInv /\ FinalizationsAnnounced /\ [RunnerNext]_runVars => FinalizationsAnnounced'
  <2> SUFFICES ASSUME RunnerInv, FinalizationsAnnounced, [RunnerNext]_runVars
               PROVE  FinalizationsAnnounced'
    OBVIOUS
  <2>1. CASE UNCHANGED <<attempt, notice, cutOff, runner>>
    BY <2>1, AnnouncedAside
  <2>2. CASE IndexChallenge \/ IndexVerdict
    <3>1. UNCHANGED <<notice, cutOff, runner>>
      BY <2>2 DEF IndexChallenge, IndexVerdict, inside, history
    <3>2. attempt \in Rows /\ (attempt.votes => attempt.status = "finalized")
      BY DEF RunnerInv, RunnerTypeOK, MatchInv, RowIsTrue
    <3>3. CASE attempt.status \in {"submitted", "challenged"}
      <4>1. ~attempt.votes
        BY <3>2, <3>3
      <4>2. IndexVerdict => ~attempt'.votes
        BY <3>3, IndexVerdictRow
      <4>3. IndexChallenge => ~attempt'.votes
        BY <3>2, <4>1 DEF IndexChallenge, Rows
      <4> QED BY <2>2, <3>1, <4>2, <4>3, AnnouncedAside
    <3>4. CASE attempt.status \notin {"submitted", "challenged"}
      <4>1. attempt' = attempt
        BY <2>2, <3>4 DEF IndexChallenge, IndexVerdict
      <4> QED BY <3>1, <4>1, AnnouncedAside
    <3> QED BY <3>3, <3>4
  <2>3. ASSUME \/ CleanupExpiredNonces
               \/ \E outcome \in Verdicts, nonce \in BOOLEAN : SubmitOutcome(outcome, nonce)
        PROVE  FinalizationsAnnounced'
    <3>1. UNCHANGED <<notice, cutOff, runner>>
      BY <2>3 DEF SubmitOutcome, CleanupExpiredNonces, inside, history
    <3>2. ASSUME NEW outcome \in Verdicts, NEW nonce \in BOOLEAN, SubmitOutcome(outcome, nonce)
          PROVE  ~attempt'.votes
      BY <3>2 DEF SubmitOutcome, NoAttempt
    <3>3. CleanupExpiredNonces => ~attempt'.votes
      BY DEF CleanupExpiredNonces, NoAttempt
    <3> QED BY <2>3, <3>1, <3>2, <3>3, AnnouncedAside
  <2>4. ASSUME NEW r \in Runners, StartMarket(r) \/ TallyVotes(r) \/ HoldForReview(r)
                                  \/ SubmitResolutionTransaction(r)
        PROVE  FinalizationsAnnounced'
    <3>1. /\ runner[r].step # "notifying" /\ UNCHANGED <<notice, attempt, cutOff>>
          /\ \E w : runner' = [runner EXCEPT ![r] = w]
      BY <2>4 DEF StartMarket, TallyVotes, HoldForReview, SubmitResolutionTransaction, Goto, Rest,
         Busy, history
    <3> QED BY <3>1, AnnouncedMoves
  <2>5. ASSUME NEW r \in Runners, CheckAttempt(r) PROVE FinalizationsAnnounced'
    <3>1. CASE cutOff'
      BY <3>1 DEF FinalizationsAnnounced
    <3>2. CASE ~cutOff'
      <4>1. /\ runner[r].step # "notifying" /\ UNCHANGED <<notice, attempt, cutOff>>
            /\ \E w : runner' = [runner EXCEPT ![r] = w]
        BY <2>5, <3>2 DEF CheckAttempt, Goto, Rest
      <4> QED BY <4>1, AnnouncedMoves
    <3> QED BY <3>1, <3>2
  <2>6. ASSUME NEW r \in Runners, RecordFinalizationAttempt(r) PROVE FinalizationsAnnounced'
    <3>1. /\ runner[r].step # "notifying" /\ UNCHANGED <<notice, cutOff>>
          /\ \E w : runner' = [runner EXCEPT ![r] = w]
      BY <2>6 DEF RecordFinalizationAttempt, Goto, Rest
    <3>2. attempt' = attempt \/ (attempt.status # "finalized" /\ attempt' = Attempted(r))
      BY <2>6 DEF RecordFinalizationAttempt
    <3>3. attempt.status # "finalized" /\ attempt' = Attempted(r) => ~attempt'.votes
      BY DEF RunnerInv, MatchInv, RowIsTrue, Attempted, Finalized
    <3> QED BY <3>1, <3>2, <3>3, AnnouncedMoves
  <2>7. ASSUME NEW r \in Runners, WaitForConfirmation(r) PROVE FinalizationsAnnounced'
    <3>1. CASE txs[runner[r].tx].status = "success"
      <4>1. runner[r] \in Work /\ r \in DOMAIN runner
        BY DEF RunnerInv, RunnerTypeOK
      <4>2. runner'[r].step = "notifying"
        BY <2>7, <3>1, <4>1 DEF WaitForConfirmation, Goto, Work
      <4> QED BY <4>2 DEF FinalizationsAnnounced
    <3>2. CASE txs[runner[r].tx].status # "success"
      <4>1. /\ runner[r].step # "notifying" /\ UNCHANGED <<notice, cutOff, attempt>>
            /\ \E w : runner' = [runner EXCEPT ![r] = w]
        BY <2>7, <3>2 DEF WaitForConfirmation, Rest, history
      <4> QED BY <4>1, AnnouncedMoves
    <3> QED BY <3>1, <3>2
  <2>8. ASSUME NEW r \in Runners, NEW received, NEW answered, NotifyFinalized(r, received, answered)
        PROVE  FinalizationsAnnounced'
    <3>1. runner[r].outcome \in Verdicts /\ runner[r].outcome # Undecided
      BY <2>8, FinalizedRow DEF NotifyFinalized, WithTransaction, Verdicts, Undecided
    <3>2. CASE answered \/ runner[r].tries + 1 = MaxDeliveries
      BY <2>8, <3>1, <3>2 DEF NotifyFinalized, FinalizationsAnnounced
    <3>3. CASE ~(answered \/ runner[r].tries + 1 = MaxDeliveries)
      <4>1. runner[r] \in Work /\ r \in DOMAIN runner
        BY DEF RunnerInv, RunnerTypeOK
      <4>2. runner'[r].step = "notifying"
        BY <2>8, <3>3, <4>1 DEF NotifyFinalized, Work
      <4> QED BY <4>2 DEF FinalizationsAnnounced
    <3> QED BY <3>2, <3>3
  <2>9. ASSUME NEW r \in Runners, RunnerFails(r) PROVE FinalizationsAnnounced'
    <3>1. CASE cutOff'
      BY <3>1 DEF FinalizationsAnnounced
    <3>2. CASE ~cutOff'
      <4>1. /\ runner[r].step # "notifying" /\ UNCHANGED <<notice, attempt>> /\ ~cutOff
            /\ \E w : runner' = [runner EXCEPT ![r] = w]
        BY <2>9, <3>2 DEF RunnerFails, Rest
      <4> QED BY <3>2, <4>1, AnnouncedMoves
    <3> QED BY <3>1, <3>2
  <2>10. ASSUME NEW r \in Runners, ProcessMarket(r) PROVE FinalizationsAnnounced'
    BY <2>4, <2>5, <2>6, <2>7, <2>8, <2>10 DEF ProcessMarket
  <2> QED BY <2>1, <2>2, <2>3, <2>9, <2>10 DEF RunnerNext, RecordSubmission, TxLands, TxLost,
          AdminDecides, Challenge, OracleSettles, ClearHold, runVars, inside, history
<1> QED BY <1>1, <1>2, RunnerInvariant, PTL DEF RunnerSpec

\* All of them together: what a reader of the row, of the chain and of the webhook
\* is told of a resolution is one story.
THEOREM ResolutionsAlwaysSound == RunnerSpec => []ResolutionsAreSound
<1> QED BY FinalizedAlwaysMatches, OneAlwaysLive, NoticesAlwaysTrue,
           FinalizationsAlwaysAnnounced, OneAlertForAHold, PTL DEF ResolutionsAreSound
===========================================================================
