--------------------------- MODULE ReleaseWorkflow ---------------------------
(***************************************************************************)
(* The local release workflow of one collection run: the commands of       *)
(* scripts/release_candidate.py over app/release_workflow.py, the review   *)
(* rules of app/publication/review.py and the append-only tables of        *)
(* app/database.py with the triggers of app/migrations.py.                 *)
(*                                                                         *)
(* Each command is a process of its own.  It reads its artifacts, runs one *)
(* or more transactions and then replaces artifacts, and may end between   *)
(* any two of these.  The reads of a command are one step with the first   *)
(* transaction that follows, except in approve.  A database row never      *)
(* changes, so a table is a set, or a sequence where rows have an order.   *)
(*                                                                         *)
(* Left out: prediction_evaluations.json, the Markdown card, the manifest  *)
(* and the archive, which no command reads; prices and probabilities, on   *)
(* which a verdict of the policy depends: it is nondeterministic.          *)
(***************************************************************************)
EXTENDS Integers, Sequences

CONSTANTS
  Shells,          \* where an operator types commands, one at a time
  Reviewers,
  EventCount,      \* games of the run, in the order of a draft's items
  Evidence,        \* contents of an analyst's evidence bundle
  MaxAssemblies, MaxEvaluations, MaxDrafts, MaxApprovals, MaxSettlements

ASSUME ReleaseAssumption ==
  /\ EventCount \in Nat
  /\ {MaxAssemblies, MaxEvaluations, MaxDrafts, MaxApprovals, MaxSettlements} \subseteq Nat

Events == 1 .. EventCount

VARIABLES
  assemblies,   \* runs of assemble; each stamps its artifacts differently
  canonical,    \* canonical_games.json: its assembly, 0 if there is none
  features,     \* analysis_features.json: likewise
  sealed,       \* reviewed_predictions with their evidence
  sealedFile,   \* sealed_predictions.json
  evaluation,   \* market_evaluations, in the order of evaluated_at
  policy,       \* policy_evaluations, as indices of evaluation
  results,      \* candidate_policy_results.json, as indices of evaluation
  draft,        \* card_drafts
  card,         \* daily_card.json
  approvals,    \* reviews that got as far as recording decisions
  decision,     \* review_decisions
  batch,        \* publication_batches with their publication_plays
  settlement,   \* settlement_events
  ledger,       \* results_ledger.json
  shell,        \* shell[s]: the command at work and its local variables
  interrupted   \* history: drafts whose review ended with an error or a crash

sourceFiles == <<assemblies, canonical, features>>
predictions == <<sealed, sealedFile>>
evaluations == <<evaluation, policy, results>>
reviews == <<approvals, decision, batch, interrupted>>
settlements == <<settlement, ledger>>
vars == <<sourceFiles, predictions, evaluations, draft, card, reviews, settlements, shell>>

-----------------------------------------------------------------------------
Prediction == [event : Events, evidence : Evidence, features : 1 .. MaxAssemblies]

Evaluation == [prediction : Prediction, canonical : 1 .. MaxAssemblies,
               candidate : BOOLEAN]

EvaluationId == 1 .. MaxEvaluations
DraftId == 1 .. MaxDrafts
ApprovalId == 1 .. MaxApprovals

\* item[e]: the evaluation of event e; its domain is the evaluated events.
Draft == [canonical : 1 .. MaxAssemblies, features : 1 .. MaxAssemblies,
          item : UNION {[es -> EvaluationId] : es \in SUBSET Events}]

Verdict == {"approved", "rejected_to_pass"}

Decision == [draft : DraftId, event : Events, verdict : Verdict,
             approval : ApprovalId, reviewer : Reviewers]

Batch == [draft : DraftId, approval : ApprovalId, reviewer : Reviewers,
          plays : SUBSET EvaluationId]

\* corrects: 0 for the original settlement of the play.
Settlement == [play : EvaluationId, corrects : 0 .. MaxSettlements]

Card == [kind : {"none"}] \cup [kind : {"draft"}, id : DraftId]
          \cup [kind : {"package"}, id : DraftId]

Ledger == [draft : 0 .. MaxDrafts, events : SUBSET (1 .. MaxSettlements)]

Idle == [at |-> "idle"]

FeaturesShell == [at : {"features"}, version : 1 .. MaxAssemblies]
SealReadShell == [at : {"seal_read"}, prediction : Prediction]
SealWriteShell == [at : {"seal_write"}, prediction : Prediction, seen : SUBSET Prediction]
EvaluateShell == [at : {"policy", "results_read"}, id : EvaluationId]
ResultsShell == [at : {"results_write"}, id : EvaluationId, seen : SUBSET EvaluationId]
DraftShell ==
  [at : {"draft_card", "package_card", "package_ledger", "settle_read"}, id : DraftId]
DecideShell ==
  [at : {"decide"}, id : ApprovalId, draft : DraftId, reviewer : Reviewers,
   verdict : UNION {[es -> Verdict] : es \in SUBSET Events}, left : SUBSET Events]
SettleShell == [at : {"settle_write"}, id : DraftId, seen : SUBSET (1 .. MaxSettlements)]

Shell ==
  {Idle} \cup FeaturesShell \cup SealReadShell \cup SealWriteShell \cup EvaluateShell
    \cup ResultsShell \cup DraftShell \cup DecideShell \cup SettleShell

ReleaseTypeOK ==
  /\ assemblies \in 0 .. MaxAssemblies
  /\ {canonical, features} \subseteq 0 .. assemblies
  /\ sealed \subseteq Prediction /\ sealedFile \subseteq Prediction
  /\ evaluation \in Seq(Evaluation) /\ Len(evaluation) <= MaxEvaluations
  /\ policy \subseteq DOMAIN evaluation /\ results \subseteq DOMAIN evaluation
  /\ draft \in Seq(Draft) /\ Len(draft) <= MaxDrafts
  /\ card \in Card
  /\ approvals \in 0 .. MaxApprovals
  /\ decision \subseteq Decision
  /\ batch \subseteq Batch
  /\ settlement \in Seq(Settlement) /\ Len(settlement) <= MaxSettlements
  /\ ledger \in Ledger
  /\ shell \in [Shells -> Shell]
  /\ interrupted \subseteq DraftId

Init ==
  /\ assemblies = 0 /\ canonical = 0 /\ features = 0
  /\ sealed = {} /\ sealedFile = {}
  /\ evaluation = << >> /\ policy = {} /\ results = {}
  /\ draft = << >>
  /\ card = [kind |-> "none"]
  /\ approvals = 0 /\ decision = {} /\ batch = {}
  /\ settlement = << >>
  /\ ledger = [draft |-> 0, events |-> {}]
  /\ shell = [s \in Shells |-> Idle]
  /\ interrupted = {}

At(s, where) == shell[s].at = where
Enter(s, local) == shell' = [shell EXCEPT ![s] = local]
Free(s) == At(s, "idle")
-----------------------------------------------------------------------------
\* assemble

AssembleGames(s) ==
  /\ Free(s)
  /\ assemblies < MaxAssemblies
  /\ assemblies' = assemblies + 1
  /\ canonical' = assemblies'
  /\ Enter(s, [at |-> "features", version |-> assemblies'])
  /\ UNCHANGED <<features, predictions, evaluations, draft, card, reviews, settlements>>

AssembleFeatures(s) ==
  /\ At(s, "features")
  /\ features' = shell[s].version
  /\ Enter(s, Idle)
  /\ UNCHANGED <<assemblies, canonical, predictions, evaluations, draft, card, reviews,
                 settlements>>

-----------------------------------------------------------------------------
\* seal-prediction

\* evidence_checksum is unique: the same evidence is sealed once per event,
\* whatever features and probabilities go with it.
EvidenceUsed(e, content) == \E p \in sealed : p.event = e /\ p.evidence = content

\* Mistake: the artifact is written before the transaction.
SealFileFirst(s, e, content) ==
  /\ Free(s)
  /\ features # 0
  /\ ~EvidenceUsed(e, content)
  /\ LET p == [event |-> e, evidence |-> content, features |-> features]
     IN /\ sealedFile' = sealedFile \cup {p}
        /\ Enter(s, [at |-> "seal_read", prediction |-> p])
  /\ UNCHANGED <<sourceFiles, sealed, evaluations, draft, card, reviews, settlements>>

Seal(s, e, content) ==
  /\ Free(s)
  /\ features # 0
  /\ ~EvidenceUsed(e, content)
  /\ LET p == [event |-> e, evidence |-> content, features |-> features]
     IN /\ sealed' = sealed \cup {p}
        /\ Enter(s, [at |-> "seal_read", prediction |-> p])
  /\ UNCHANGED <<sourceFiles, sealedFile, evaluations, draft, card, reviews, settlements>>

\* The other records are read, and written back with the new one.
SealRead(s) ==
  /\ At(s, "seal_read")
  /\ shell[s].prediction \notin sealedFile
  /\ Enter(s, [at |-> "seal_write", prediction |-> shell[s].prediction,
               seen |-> sealedFile])
  /\ UNCHANGED <<sourceFiles, predictions, evaluations, draft, card, reviews, settlements>>

SealWrite(s) ==
  /\ At(s, "seal_write")
  /\ sealedFile' = shell[s].seen \cup {shell[s].prediction}
  /\ Enter(s, Idle)
  /\ UNCHANGED <<sourceFiles, sealed, evaluations, draft, card, reviews, settlements>>

-----------------------------------------------------------------------------
\* evaluate

\* The market evaluation and the policy evaluation are two transactions.
EvaluateMarket(s, p) ==
  /\ Free(s)
  /\ canonical # 0
  /\ p \in sealedFile
  /\ Len(evaluation) < MaxEvaluations
  /\ \E candidate \in BOOLEAN :
       evaluation' = Append(evaluation, [prediction |-> p, canonical |-> canonical,
                                         candidate |-> candidate])
  /\ Enter(s, [at |-> "policy", id |-> Len(evaluation) + 1])
  /\ UNCHANGED <<sourceFiles, predictions, policy, results, draft, card, reviews,
                 settlements>>

EvaluatePolicy(s) ==
  /\ At(s, "policy")
  /\ policy' = policy \cup {shell[s].id}
  /\ Enter(s, [shell[s] EXCEPT !.at = "results_read"])
  /\ UNCHANGED <<sourceFiles, predictions, evaluation, results, draft, card, reviews,
                 settlements>>

EvaluateRead(s) ==
  /\ At(s, "results_read")
  /\ Enter(s, [at |-> "results_write", id |-> shell[s].id, seen |-> results])
  /\ UNCHANGED <<sourceFiles, predictions, evaluations, draft, card, reviews, settlements>>

EvaluateWrite(s) ==
  /\ At(s, "results_write")
  /\ results' = shell[s].seen \cup {shell[s].id}
  /\ Enter(s, Idle)
  /\ UNCHANGED <<sourceFiles, predictions, evaluation, policy, draft, card, reviews,
                 settlements>>

-----------------------------------------------------------------------------
\* draft

EvaluatedEvents == {evaluation[n].prediction.event : n \in results}

\* The latest evaluation of an event in the artifact, not in the database.
IsLatest(n, e) ==
  /\ evaluation[n].prediction.event = e
  /\ \A m \in results : evaluation[m].prediction.event = e => m <= n

\* Mistake: the prediction may be one about earlier features.
DraftableAnyFeatures(n) == evaluation[n].prediction \in sealedFile

\* create_daily_card_draft refuses the whole draft for one item that is not.
Draftable(n) ==
  /\ evaluation[n].prediction \in sealedFile
  /\ evaluation[n].prediction.features = features

CreateDraft(s) ==
  /\ Free(s)
  /\ canonical # 0 /\ features # 0 /\ results # {}
  /\ Len(draft) < MaxDrafts
  /\ \E item \in [EvaluatedEvents -> results] :
       /\ \A e \in EvaluatedEvents : IsLatest(item[e], e) /\ Draftable(item[e])
       /\ draft' = Append(draft, [canonical |-> canonical, features |-> features,
                                  item |-> item])
  /\ Enter(s, [at |-> "draft_card", id |-> Len(draft) + 1])
  /\ UNCHANGED <<sourceFiles, predictions, evaluations, card, reviews, settlements>>

DraftCard(s) ==
  /\ At(s, "draft_card")
  /\ card' = [kind |-> "draft", id |-> shell[s].id]
  /\ Enter(s, Idle)
  /\ UNCHANGED <<sourceFiles, predictions, evaluations, draft, reviews, settlements>>

Candidates(d) ==
  {e \in DOMAIN draft[d].item : evaluation[draft[d].item[e]].candidate}

-----------------------------------------------------------------------------
\* approve

\* What approve_draft and approve_daily_card compare for every candidate; that
\* it is still a candidate at the same price is a matter of time.
StillCurrent(d) ==
  /\ canonical # 0 /\ features # 0
  /\ Candidates(d) # {} => canonical = draft[d].canonical /\ features = draft[d].features
  /\ \A e \in Candidates(d) : evaluation[draft[d].item[e]].prediction \in sealedFile

\* Only a draft passes the check of its own checksum: after an approval the
\* card is a package and cannot be approved.
Approve(s, reviewer) ==
  /\ Free(s)
  /\ card.kind = "draft"
  /\ StillCurrent(card.id)
  /\ approvals < MaxApprovals
  /\ approvals' = approvals + 1
  /\ \E verdict \in [Candidates(card.id) -> Verdict] :
       Enter(s, [at |-> "decide", id |-> approvals', draft |-> card.id,
                 reviewer |-> reviewer, verdict |-> verdict,
                 left |-> Candidates(card.id)])
  /\ UNCHANGED <<sourceFiles, predictions, evaluations, draft, card, decision, batch,
                 interrupted, settlements>>

Decided(d) == {x \in decision : x.draft = d}

\* review_decisions is unique in draft and evaluation.
Undecided(d, e) == \A x \in Decided(d) : x.event # e

DecideEvent(s, e) ==
  LET my == shell[s]
  IN /\ Undecided(my.draft, e)
     /\ decision' = decision \cup
          {[draft |-> my.draft, event |-> e, verdict |-> my.verdict[e],
            approval |-> my.id, reviewer |-> my.reviewer]}
     /\ Enter(s, [my EXCEPT !.left = @ \ {e}])
     /\ UNCHANGED <<sourceFiles, predictions, evaluations, draft, card, approvals, batch,
                    interrupted, settlements>>

\* Mistake: the decisions are recorded in the order the reviewer gave them.
DecideAnyOrder(s) ==
  /\ At(s, "decide")
  /\ \E e \in shell[s].left : DecideEvent(s, e)

\* Mistake: a decision that is already recorded is skipped.
DecideSkips(s) ==
  /\ At(s, "decide")
  /\ \E e \in shell[s].left :
       /\ \A f \in shell[s].left : e <= f
       /\ \/ DecideEvent(s, e)
          \/ /\ ~Undecided(shell[s].draft, e)
             /\ Enter(s, [shell[s] EXCEPT !.left = @ \ {e}])
             /\ UNCHANGED <<sourceFiles, predictions, evaluations, draft, card, reviews,
                            settlements>>

\* One transaction per decision, in the order of the draft's items.
Decide(s) ==
  /\ At(s, "decide")
  /\ \E e \in shell[s].left :
       /\ \A f \in shell[s].left : e <= f
       /\ DecideEvent(s, e)

Published(n) == \E b \in batch : n \in b.plays

PlaysOf(s) ==
  LET my == shell[s]
  IN {draft[my.draft].item[e] : e \in {f \in DOMAIN my.verdict : my.verdict[f] = "approved"}}

\* publication_batches is unique in draft, publication_plays in evaluation;
\* publication_plays_require_approval wants the decision of the same reviewer.
Publishable(s) ==
  /\ \A b \in batch : b.draft # shell[s].draft
  /\ \A e \in DOMAIN shell[s].verdict :
       shell[s].verdict[e] = "approved" =>
         \E x \in Decided(shell[s].draft) :
           /\ x.event = e /\ x.verdict = "approved"
           /\ x.reviewer = shell[s].reviewer
  /\ \A n \in PlaysOf(s) : ~Published(n)

Publish(s) ==
  /\ At(s, "decide")
  /\ shell[s].left = {}
  /\ Publishable(s)
  /\ batch' = batch \cup
       {[draft |-> shell[s].draft, approval |-> shell[s].id,
         reviewer |-> shell[s].reviewer, plays |-> PlaysOf(s)]}
  /\ Enter(s, [at |-> "package_card", id |-> shell[s].draft])
  /\ UNCHANGED <<sourceFiles, predictions, evaluations, draft, card, approvals, decision,
                 interrupted, settlements>>

\* A constraint refuses the next decision or the batch: the exception ends the
\* command, and the decisions it recorded stay.
ApproveRefused(s) ==
  /\ At(s, "decide")
  /\ \/ /\ shell[s].left # {}
        /\ \E e \in shell[s].left :
             (\A f \in shell[s].left : e <= f) /\ ~Undecided(shell[s].draft, e)
     \/ shell[s].left = {} /\ ~Publishable(s)
  /\ Enter(s, Idle)
  /\ UNCHANGED <<sourceFiles, predictions, evaluations, draft, card, reviews, settlements>>

PackageCard(s) ==
  /\ At(s, "package_card")
  /\ card' = [kind |-> "package", id |-> shell[s].id]
  /\ Enter(s, [shell[s] EXCEPT !.at = "package_ledger"])
  /\ UNCHANGED <<sourceFiles, predictions, evaluations, draft, reviews, settlements>>

\* The ledger of the run is replaced by one of this batch alone.
PackageLedger(s) ==
  /\ At(s, "package_ledger")
  /\ ledger' = [draft |-> shell[s].id, events |-> {}]
  /\ Enter(s, Idle)
  /\ UNCHANGED <<sourceFiles, predictions, evaluations, draft, card, reviews, settlement>>

-----------------------------------------------------------------------------
\* settle

PlayEvents(n) == {k \in DOMAIN settlement : settlement[k].play = n}

\* Mistake: a correction may refer to an event of another play.
AdmissibleAnyPlay(n, corrects) ==
  IF corrects = 0 THEN \A k \in PlayEvents(n) : settlement[k].corrects # 0
                  ELSE corrects \in DOMAIN settlement

\* idx_settlement_one_original_per_play and settlement_correction_same_play.
Admissible(n, corrects) ==
  IF corrects = 0 THEN \A k \in PlayEvents(n) : settlement[k].corrects # 0
                  ELSE corrects \in PlayEvents(n)

Settle(s, b, n, corrects) ==
  /\ Free(s)
  /\ b \in batch /\ n \in b.plays
  /\ Admissible(n, corrects)
  /\ Len(settlement) < MaxSettlements
  /\ settlement' = Append(settlement, [play |-> n, corrects |-> corrects])
  /\ Enter(s, [at |-> "settle_read", id |-> b.draft])
  /\ UNCHANGED <<sourceFiles, predictions, evaluations, draft, card, reviews, ledger>>

\* list_settlement_ledger.
BatchEvents(d) ==
  {k \in DOMAIN settlement : \E b \in batch : b.draft = d /\ settlement[k].play \in b.plays}

SettleRead(s) ==
  /\ At(s, "settle_read")
  /\ Enter(s, [at |-> "settle_write", id |-> shell[s].id, seen |-> BatchEvents(shell[s].id)])
  /\ UNCHANGED <<sourceFiles, predictions, evaluations, draft, card, reviews, settlements>>

SettleWrite(s) ==
  /\ At(s, "settle_write")
  /\ ledger' = [draft |-> shell[s].id, events |-> shell[s].seen]
  /\ Enter(s, Idle)
  /\ UNCHANGED <<sourceFiles, predictions, evaluations, draft, card, reviews, settlement>>

-----------------------------------------------------------------------------
\* The command is killed, or a transaction or a file write raises.
Breaks(s) ==
  /\ ~Free(s)
  /\ interrupted' = IF At(s, "decide") THEN interrupted \cup {shell[s].draft}
                                       ELSE interrupted
  /\ Enter(s, Idle)
  /\ UNCHANGED <<sourceFiles, predictions, evaluations, draft, card, approvals, decision,
                 batch, settlements>>

Command(s) ==
  \/ AssembleGames(s) \/ AssembleFeatures(s)
  \/ \E e \in Events, content \in Evidence : Seal(s, e, content)
  \/ SealRead(s) \/ SealWrite(s)
  \/ \E p \in sealedFile : EvaluateMarket(s, p)
  \/ EvaluatePolicy(s) \/ EvaluateRead(s) \/ EvaluateWrite(s)
  \/ CreateDraft(s) \/ DraftCard(s)
  \/ \E reviewer \in Reviewers : Approve(s, reviewer)
  \/ Decide(s) \/ Publish(s) \/ ApproveRefused(s)
  \/ PackageCard(s) \/ PackageLedger(s)
  \/ \E b \in batch : \E n \in b.plays, c \in 0 .. MaxSettlements : Settle(s, b, n, c)
  \/ SettleRead(s) \/ SettleWrite(s)
  \/ Breaks(s)

Next == \E s \in Shells : Command(s)

Spec == Init /\ [][Next]_vars
=============================================================================
