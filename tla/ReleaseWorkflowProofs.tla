------------------------ MODULE ReleaseWorkflowProofs ------------------------
(***************************************************************************)
(* Proofs of the safety properties of ReleaseWorkflowProps, for any number *)
(* of shells, reviewers, games, drafts, reviews and settlements: the state *)
(* keeps its type and a review is whole (from IInv), and, from StoredInv   *)
(* on top of it, files are never ahead of the rows, published plays are    *)
(* sound and a half reviewed draft is explained.                           *)
(***************************************************************************)
EXTENDS ReleaseWorkflowProps, TLAPS

-----------------------------------------------------------------------------
\* What a shell's place says of its local variables.

LEMMA ShellPlaces ==
  /\ Idle.at = "idle"
  /\ \A x \in FeaturesShell : x.at = "features"
  /\ \A x \in SealReadShell : x.at = "seal_read"
  /\ \A x \in SealWriteShell : x.at = "seal_write"
  /\ \A x \in EvaluateShell : x.at \in {"policy", "results_read"}
  /\ \A x \in ResultsShell : x.at = "results_write"
  /\ \A x \in DraftShell :
       x.at \in {"draft_card", "package_card", "package_ledger", "settle_read"}
  /\ \A x \in DecideShell : x.at = "decide"
  /\ \A x \in SettleShell : x.at = "settle_write"
BY DEF Idle, FeaturesShell, SealReadShell, SealWriteShell, EvaluateShell, ResultsShell,
       DraftShell, DecideShell, SettleShell

LEMMA ShellCases ==
  ASSUME NEW x \in Shell
  PROVE  /\ x.at = "features" => x \in FeaturesShell
         /\ x.at = "seal_read" => x \in SealReadShell
         /\ x.at = "seal_write" => x \in SealWriteShell
         /\ x.at \in {"policy", "results_read"} => x \in EvaluateShell
         /\ x.at = "results_write" => x \in ResultsShell
         /\ x.at \in {"draft_card", "package_card", "package_ledger", "settle_read"}
              => x \in DraftShell
         /\ x.at = "decide" => x \in DecideShell
         /\ x.at = "settle_write" => x \in SettleShell
BY ShellPlaces DEF Shell

-----------------------------------------------------------------------------
\* Rows are only added.

Grows ==
  /\ assemblies <= assemblies'
  /\ \A n \in DOMAIN evaluation : n \in DOMAIN evaluation' /\ evaluation'[n] = evaluation[n]
  /\ \A d \in DOMAIN draft : d \in DOMAIN draft' /\ draft'[d] = draft[d]

LEMMA CandidatesStable ==
  ASSUME References, Grows, NEW d \in DOMAIN draft
  PROVE  Candidates(d)' = Candidates(d)
BY DEF References, Grows, Candidates

(***************************************************************************)
(* A step that decides and publishes nothing keeps the invariant if it     *)
(* only adds rows, refers to rows that exist and is well typed.            *)
(***************************************************************************)
LEMMA QuietStep ==
  ASSUME IInv, NEW s \in Shells, NEW local \in Shell,
         Enter(s, local), local.at # "decide", ReleaseTypeOK', Grows,
         ShellRefers(s)',
         UNCHANGED <<approvals, decision, batch>>,
         \A d \in DOMAIN draft' \ DOMAIN draft : \A e \in DOMAIN draft'[d].item :
           draft'[d].item[e] \in DOMAIN evaluation',
         card' = card \/ (card'.kind = "draft" => card'.id \in DOMAIN draft')
  PROVE  IInv'
<1>1. shell'[s] = local /\ \A t \in Shells \ {s} : shell'[t] = shell[t]
  BY DEF IInv, ReleaseTypeOK, Enter
<1>2. \A d \in DOMAIN draft : Candidates(d)' = Candidates(d)
  BY CandidatesStable DEF IInv
<1>3. \A d : Decided(d)' = Decided(d)
  BY DEF Decided
<1>4. References'
  <2>1. ASSUME NEW t \in Shells \ {s} PROVE ShellRefers(t)'
    <3>1. ShellRefers(t)
      BY DEF IInv, References
    <3>2. assemblies \in Int /\ assemblies' \in Int
      BY ReleaseAssumption DEF IInv, ReleaseTypeOK
    <3>3. shell[t].version \in Int \/ ~At(t, "features")
      BY SMTT(30), ReleaseAssumption, ShellCases DEF IInv, ReleaseTypeOK, At, FeaturesShell
    <3>4. QED
      BY <1>1, <3>1, <3>2, <3>3 DEF ShellRefers, Grows, At
  <2>2. \A d \in DOMAIN draft' : \A e \in DOMAIN draft'[d].item :
          draft'[d].item[e] \in DOMAIN evaluation'
    BY DEF IInv, References, Grows
  <2>3. card'.kind = "draft" => card'.id \in DOMAIN draft'
    BY DEF IInv, References, Grows
  <2>4. ASSUME NEW x \in decision
        PROVE  x.draft \in DOMAIN draft' /\ x.event \in Candidates(x.draft)' /\ x.approval <= approvals
    BY <1>2 DEF IInv, References, Grows
  <2>5. \A b \in batch : b.draft \in DOMAIN draft'
    BY DEF IInv, References, Grows
  <2>6. QED
    BY <2>1, <2>2, <2>3, <2>4, <2>5 DEF References
<1>5. ASSUME NEW t \in Shells PROVE ReviewAtWork(t)'
  <2>1. CASE t = s
    BY <1>1, <2>1 DEF ReviewAtWork, At
  <2>2. CASE t # s /\ At(t, "decide")
    <3>1. shell'[t] = shell[t] /\ ReviewAtWork(t)
      BY <1>1, <2>2 DEF IInv, ReviewInv
    <3>2. shell[t].draft \in DOMAIN draft /\ shell[t].draft \in DOMAIN draft'
      BY <2>2, <3>1 DEF ReviewAtWork, Grows
    <3>3. Candidates(shell[t].draft)' = Candidates(shell[t].draft)
      BY <1>2, <3>1, <3>2
    <3>4. \A e : DecidedBy(shell[t].id, shell[t].draft, e)' = DecidedBy(shell[t].id, shell[t].draft, e)
      BY <1>3, <3>1 DEF DecidedBy
    <3>5. QED
      BY <2>2, <3>1, <3>2, <3>3, <3>4 DEF ReviewAtWork
  <2>3. CASE t # s /\ ~At(t, "decide")
    BY <1>1, <2>3 DEF ReviewAtWork, At
  <2>4. QED
    BY <2>1, <2>2, <2>3
<1>6. ReviewsApart'
  BY <1>1 DEF IInv, ReviewInv, ReviewsApart, At
<1>7. DecidedInOrder'
  BY <1>2, <1>3 DEF IInv, ReviewInv, DecidedInOrder, References
<1>8. OneReview'
  BY DEF IInv, ReviewInv, ReviewIsWhole, OneReview
<1>9. BatchIsReview'
  <2>1. ASSUME NEW b \in batch
        PROVE  b.draft \in DOMAIN draft /\ draft'[b.draft] = draft[b.draft]
               /\ Candidates(b.draft)' = Candidates(b.draft) /\ Decided(b.draft)' = Decided(b.draft)
    BY <1>2, <1>3 DEF IInv, References, Grows
  <2>2. QED
    BY <2>1 DEF IInv, ReviewInv, ReviewIsWhole, BatchIsReview
<1>10. QED
  BY <1>4, <1>5, <1>6, <1>7, <1>8, <1>9 DEF IInv, ReviewInv, ReviewIsWhole

-----------------------------------------------------------------------------
\* Assembling and sealing.

LEMMA IdleIsShell == Idle \in Shell /\ Idle.at = "idle"
BY ShellPlaces DEF Shell

LEMMA AssembleKeeps ==
  ASSUME IInv, NEW s \in Shells, AssembleGames(s) \/ AssembleFeatures(s)
  PROVE  IInv'
<1>1. CASE AssembleGames(s)
  <2> DEFINE local == [at |-> "features", version |-> assemblies']
  <2>1. assemblies \in Nat /\ assemblies' = assemblies + 1 /\ assemblies' \in 1 .. MaxAssemblies
    BY <1>1, ReleaseAssumption DEF AssembleGames, IInv, ReleaseTypeOK
  <2>2. local \in Shell
    BY <2>1 DEF Shell, FeaturesShell
  <2>3. Enter(s, local) /\ local.at = "features" /\ local.version = assemblies'
    BY <1>1 DEF AssembleGames
  <2>4. ReleaseTypeOK'
    <3>1. shell' \in [Shells -> Shell]
      BY <2>2, <2>3 DEF Enter, IInv, ReleaseTypeOK
    <3>2. assemblies' \in 0 .. MaxAssemblies /\ {canonical', features'} \subseteq 0 .. assemblies'
      BY <1>1, <2>1 DEF AssembleGames, IInv, ReleaseTypeOK
    <3>3. QED
      BY <1>1, <3>1, <3>2
      DEF AssembleGames, IInv, ReleaseTypeOK, predictions, evaluations, reviews, settlements
  <2>5. shell'[s] = local
    BY <2>3 DEF Enter, IInv, ReleaseTypeOK
  <2>6. ShellRefers(s)'
    BY <2>1, <2>3, <2>5 DEF ShellRefers, At
  <2>7. Grows
    BY <1>1, <2>1 DEF AssembleGames, Grows, evaluations
  <2> HIDE DEF local
  <2>8. QED
    BY <1>1, <2>2, <2>3, <2>4, <2>6, <2>7, QuietStep DEF AssembleGames, reviews
<1>2. CASE AssembleFeatures(s)
  <2>1. shell[s] \in FeaturesShell /\ shell[s].version <= assemblies
    BY <1>2, ShellCases DEF AssembleFeatures, At, IInv, ReleaseTypeOK, References, ShellRefers
  <2>2. assemblies \in 0 .. MaxAssemblies /\ features' \in 0 .. assemblies
    BY <1>2, <2>1, ReleaseAssumption DEF AssembleFeatures, FeaturesShell, IInv, ReleaseTypeOK
  <2>3. ReleaseTypeOK'
    <3>1. shell' \in [Shells -> Shell]
      BY <1>2, IdleIsShell DEF AssembleFeatures, Enter, IInv, ReleaseTypeOK
    <3>2. QED
      BY <1>2, <2>2, <3>1
      DEF AssembleFeatures, IInv, ReleaseTypeOK, predictions, evaluations, reviews, settlements
  <2>4. ShellRefers(s)' /\ Grows
    BY <1>2, <2>2, IdleIsShell
    DEF AssembleFeatures, Enter, IInv, ReleaseTypeOK, ShellRefers, At, Grows, evaluations
  <2>5. QED
    BY <1>2, <2>3, <2>4, IdleIsShell, QuietStep DEF AssembleFeatures, reviews
<1>3. QED
  BY <1>1, <1>2

LEMMA SealKeeps ==
  ASSUME IInv, NEW s \in Shells,
         \/ \E e \in Events, content \in Evidence : Seal(s, e, content)
         \/ SealRead(s) \/ SealWrite(s)
  PROVE  IInv'
<1>1. ASSUME NEW e \in Events, NEW content \in Evidence, Seal(s, e, content)
      PROVE  IInv'
  <2> DEFINE p == [event |-> e, evidence |-> content, features |-> features]
             local == [at |-> "seal_read", prediction |-> p]
  <2>1. features \in 1 .. MaxAssemblies /\ assemblies \in Nat
    BY <1>1, ReleaseAssumption DEF Seal, IInv, ReleaseTypeOK
  <2>2. p \in Prediction
    BY <2>1 DEF Prediction
  <2>3. local \in Shell /\ local.at = "seal_read"
    BY <2>2 DEF Shell, SealReadShell
  <2>4. Enter(s, local) /\ sealed' = sealed \cup {p}
    BY <1>1 DEF Seal
  <2> HIDE DEF p, local
  <2>5. shell' \in [Shells -> Shell] /\ shell'[s] = local
    BY <2>3, <2>4 DEF Enter, IInv, ReleaseTypeOK
  <2>6. ReleaseTypeOK'
    BY <1>1, <2>2, <2>4, <2>5
    DEF Seal, IInv, ReleaseTypeOK, sourceFiles, evaluations, reviews, settlements
  <2>7. ShellRefers(s)' /\ Grows
    BY <1>1, <2>1, <2>3, <2>5 DEF Seal, ShellRefers, At, Grows, sourceFiles, evaluations
  <2>8. QED
    BY <1>1, <2>3, <2>4, <2>6, <2>7, QuietStep DEF Seal, reviews
<1>2. CASE SealRead(s)
  <2> DEFINE local == [at |-> "seal_write", prediction |-> shell[s].prediction,
                       seen |-> sealedFile]
  <2>1. shell[s] \in SealReadShell /\ assemblies \in Nat
    BY <1>2, ShellCases, ReleaseAssumption DEF SealRead, At, IInv, ReleaseTypeOK
  <2>2. local \in Shell /\ local.at = "seal_write"
    BY <2>1 DEF Shell, SealReadShell, SealWriteShell, IInv, ReleaseTypeOK
  <2>3. Enter(s, local)
    BY <1>2 DEF SealRead
  <2> HIDE DEF local
  <2>4. shell' \in [Shells -> Shell] /\ shell'[s] = local
    BY <2>2, <2>3 DEF Enter, IInv, ReleaseTypeOK
  <2>5. ReleaseTypeOK'
    BY <1>2, <2>4
    DEF SealRead, IInv, ReleaseTypeOK, sourceFiles, predictions, evaluations, reviews,
        settlements
  <2>6. ShellRefers(s)' /\ Grows
    BY <1>2, <2>1, <2>2, <2>4 DEF SealRead, ShellRefers, At, Grows, sourceFiles, evaluations
  <2>7. QED
    BY <1>2, <2>2, <2>3, <2>5, <2>6, QuietStep DEF SealRead, reviews
<1>3. CASE SealWrite(s)
  <2>1. shell[s] \in SealWriteShell /\ assemblies \in Nat
    BY <1>3, ShellCases, ReleaseAssumption DEF SealWrite, At, IInv, ReleaseTypeOK
  <2>2. sealedFile' \subseteq Prediction
    BY <1>3, <2>1 DEF SealWrite, SealWriteShell
  <2>3. shell' \in [Shells -> Shell] /\ shell'[s] = Idle
    BY <1>3, IdleIsShell DEF SealWrite, Enter, IInv, ReleaseTypeOK
  <2>4. ReleaseTypeOK'
    BY <1>3, <2>2, <2>3
    DEF SealWrite, IInv, ReleaseTypeOK, sourceFiles, evaluations, reviews, settlements
  <2>5. ShellRefers(s)' /\ Grows
    BY <1>3, <2>1, <2>3, IdleIsShell
    DEF SealWrite, ShellRefers, At, Grows, sourceFiles, evaluations
  <2>6. QED
    BY <1>3, <2>4, <2>5, IdleIsShell, QuietStep DEF SealWrite, reviews
<1>4. QED
  BY <1>1, <1>2, <1>3

-----------------------------------------------------------------------------
\* Evaluating and drafting.

LEMMA EvaluateMarketKeeps ==
  ASSUME IInv, NEW s \in Shells, NEW p \in sealedFile, EvaluateMarket(s, p)
  PROVE  IInv'
<1> DEFINE n == Len(evaluation) + 1
           local == [at |-> "policy", id |-> n]
<1>1. PICK candidate \in BOOLEAN :
        evaluation' = Append(evaluation, [prediction |-> p, canonical |-> canonical,
                                          candidate |-> candidate])
  BY DEF EvaluateMarket
<1> DEFINE row == [prediction |-> p, canonical |-> canonical, candidate |-> candidate]
<1>2. assemblies \in Nat /\ canonical \in 1 .. MaxAssemblies /\ p \in Prediction
  BY ReleaseAssumption DEF EvaluateMarket, IInv, ReleaseTypeOK
<1>3. row \in Evaluation
  BY <1>2 DEF Evaluation
<1>4. n \in EvaluationId
  BY ReleaseAssumption DEF EvaluateMarket, IInv, ReleaseTypeOK, EvaluationId
<1>5. local \in Shell /\ local.at = "policy" /\ local.id = n
  BY <1>4 DEF Shell, EvaluateShell
<1>6. Enter(s, local)
  BY DEF EvaluateMarket
<1>7. evaluation \in Seq(Evaluation) /\ evaluation' = Append(evaluation, row)
  BY <1>1 DEF IInv, ReleaseTypeOK
<1> HIDE DEF row, local
<1>8. /\ evaluation' \in Seq(Evaluation) /\ Len(evaluation') = n
      /\ DOMAIN evaluation' = 1 .. n /\ n \in DOMAIN evaluation'
      /\ \A k \in DOMAIN evaluation : k \in DOMAIN evaluation' /\ evaluation'[k] = evaluation[k]
  BY <1>3, <1>7
<1>9. shell' \in [Shells -> Shell] /\ shell'[s] = local
  BY <1>5, <1>6 DEF Enter, IInv, ReleaseTypeOK
<1>10. ReleaseTypeOK'
  <2>1. Len(evaluation') <= MaxEvaluations
    BY <1>4, <1>8, ReleaseAssumption DEF EvaluationId
  <2>2. policy' \subseteq DOMAIN evaluation' /\ results' \subseteq DOMAIN evaluation'
    BY <1>8 DEF EvaluateMarket, IInv, ReleaseTypeOK
  <2>3. QED
    BY <1>8, <1>9, <2>1, <2>2
    DEF EvaluateMarket, IInv, ReleaseTypeOK, sourceFiles, predictions, reviews, settlements
<1>11. Grows
  BY <1>2, <1>8 DEF EvaluateMarket, Grows, sourceFiles
<1>12. ShellRefers(s)'
  BY <1>5, <1>8, <1>9 DEF ShellRefers, At
<1> HIDE DEF n
<1>13. QED
  BY <1>5, <1>6, <1>10, <1>11, <1>12, QuietStep DEF EvaluateMarket, reviews

LEMMA EvaluateKeeps ==
  ASSUME IInv, NEW s \in Shells, EvaluatePolicy(s) \/ EvaluateRead(s) \/ EvaluateWrite(s)
  PROVE  IInv'
<1> USE DEF At
<1>0. assemblies \in Nat /\ ShellRefers(s) /\ shell[s] \in Shell
  BY ReleaseAssumption DEF IInv, ReleaseTypeOK, References
<1>1. CASE EvaluatePolicy(s)
  <2> DEFINE local == [shell[s] EXCEPT !.at = "results_read"]
  <2>1. shell[s] \in EvaluateShell /\ shell[s].id \in DOMAIN evaluation
    BY <1>0, <1>1, ShellCases DEF EvaluatePolicy, ShellRefers
  <2>2. local \in Shell /\ local.at = "results_read" /\ local.id = shell[s].id
    BY <2>1 DEF Shell, EvaluateShell
  <2>3. Enter(s, local) /\ policy' \subseteq DOMAIN evaluation
    BY <1>1, <2>1 DEF EvaluatePolicy, IInv, ReleaseTypeOK
  <2> HIDE DEF local
  <2>4. shell' \in [Shells -> Shell] /\ shell'[s] = local
    BY <2>2, <2>3 DEF Enter, IInv, ReleaseTypeOK
  <2>5. ReleaseTypeOK'
    BY <1>1, <2>3, <2>4
    DEF EvaluatePolicy, IInv, ReleaseTypeOK, sourceFiles, predictions, reviews, settlements
  <2>6. ShellRefers(s)' /\ Grows
    BY <1>0, <1>1, <2>1, <2>2, <2>4 DEF EvaluatePolicy, ShellRefers, Grows, sourceFiles
  <2>7. QED
    BY <1>1, <2>2, <2>3, <2>5, <2>6, QuietStep DEF EvaluatePolicy, reviews
<1>2. CASE EvaluateRead(s)
  <2> DEFINE local == [at |-> "results_write", id |-> shell[s].id, seen |-> results]
  <2>1. shell[s] \in EvaluateShell /\ shell[s].id \in DOMAIN evaluation
    BY <1>0, <1>2, ShellCases DEF EvaluateRead, ShellRefers
  <2>2. results \subseteq DOMAIN evaluation /\ DOMAIN evaluation \subseteq EvaluationId
    BY ReleaseAssumption DEF IInv, ReleaseTypeOK, EvaluationId
  <2>3. local \in Shell /\ local.at = "results_write" /\ local.id = shell[s].id
        /\ local.seen = results
    BY <2>1, <2>2 DEF Shell, EvaluateShell, ResultsShell
  <2>4. Enter(s, local)
    BY <1>2 DEF EvaluateRead
  <2> HIDE DEF local
  <2>5. shell' \in [Shells -> Shell] /\ shell'[s] = local
    BY <2>3, <2>4 DEF Enter, IInv, ReleaseTypeOK
  <2>6. ReleaseTypeOK'
    BY <1>2, <2>5
    DEF EvaluateRead, IInv, ReleaseTypeOK, sourceFiles, predictions, evaluations, reviews,
        settlements
  <2>7. ShellRefers(s)' /\ Grows
    BY <1>0, <1>2, <2>1, <2>2, <2>3, <2>5
    DEF EvaluateRead, ShellRefers, Grows, sourceFiles, evaluations
  <2>8. QED
    BY <1>2, <2>3, <2>4, <2>6, <2>7, QuietStep DEF EvaluateRead, reviews
<1>3. CASE EvaluateWrite(s)
  <2>1. results' \subseteq DOMAIN evaluation
    BY <1>0, <1>3 DEF EvaluateWrite, ShellRefers
  <2>2. shell' \in [Shells -> Shell] /\ shell'[s] = Idle
    BY <1>3, IdleIsShell DEF EvaluateWrite, Enter, IInv, ReleaseTypeOK
  <2>3. ReleaseTypeOK'
    BY <1>3, <2>1, <2>2
    DEF EvaluateWrite, IInv, ReleaseTypeOK, sourceFiles, predictions, reviews, settlements
  <2>4. ShellRefers(s)' /\ Grows
    BY <1>0, <1>3, <2>2, IdleIsShell DEF EvaluateWrite, ShellRefers, Grows, sourceFiles
  <2>5. QED
    BY <1>3, <2>3, <2>4, IdleIsShell, QuietStep DEF EvaluateWrite, reviews
<1>4. QED
  BY <1>1, <1>2, <1>3

LEMMA CreateDraftKeeps ==
  ASSUME IInv, NEW s \in Shells, CreateDraft(s)
  PROVE  IInv'
<1> DEFINE d == Len(draft) + 1
           local == [at |-> "draft_card", id |-> d]
<1>1. PICK item \in [EvaluatedEvents -> results] :
        draft' = Append(draft, [canonical |-> canonical, features |-> features, item |-> item])
  BY DEF CreateDraft
<1> DEFINE row == [canonical |-> canonical, features |-> features, item |-> item]
<1>2. /\ assemblies \in Nat
      /\ canonical \in 1 .. MaxAssemblies /\ features \in 1 .. MaxAssemblies
  BY ReleaseAssumption DEF CreateDraft, IInv, ReleaseTypeOK
<1>3. results \subseteq DOMAIN evaluation /\ DOMAIN evaluation \subseteq EvaluationId
  BY ReleaseAssumption DEF IInv, ReleaseTypeOK, EvaluationId
<1>4. EvaluatedEvents \subseteq Events
  <2>1. \A k \in DOMAIN evaluation : evaluation[k] \in Evaluation
    BY DEF IInv, ReleaseTypeOK
  <2>2. QED
    BY <1>3, <2>1 DEF EvaluatedEvents, Evaluation, Prediction
<1>5. item \in [EvaluatedEvents -> EvaluationId]
  BY <1>3
<1>6. row \in Draft
  BY <1>2, <1>4, <1>5 DEF Draft
<1>7. d \in DraftId
  BY ReleaseAssumption DEF CreateDraft, IInv, ReleaseTypeOK, DraftId
<1>8. local \in Shell /\ local.at = "draft_card" /\ local.id = d
  BY <1>7 DEF Shell, DraftShell
<1>9. Enter(s, local)
  BY DEF CreateDraft
<1>10. draft \in Seq(Draft) /\ draft' = Append(draft, row)
  BY <1>1 DEF IInv, ReleaseTypeOK
<1>11. row.item = item
  OBVIOUS
<1> HIDE DEF row, local
<1>12. /\ draft' \in Seq(Draft) /\ Len(draft') = d
       /\ DOMAIN draft' = 1 .. d /\ d \in DOMAIN draft' /\ draft'[d] = row
       /\ \A k \in DOMAIN draft : k \in DOMAIN draft' /\ draft'[k] = draft[k]
       /\ DOMAIN draft' \ DOMAIN draft = {d}
  BY <1>6, <1>10
<1>13. shell' \in [Shells -> Shell] /\ shell'[s] = local
  BY <1>8, <1>9 DEF Enter, IInv, ReleaseTypeOK
<1>14. ReleaseTypeOK'
  <2>1. Len(draft') <= MaxDrafts
    BY <1>7, <1>12, ReleaseAssumption DEF DraftId
  <2>2. QED
    BY <1>12, <1>13, <2>1
    DEF CreateDraft, IInv, ReleaseTypeOK, sourceFiles, predictions, evaluations, reviews,
        settlements
<1>15. Grows
  BY <1>2, <1>12 DEF CreateDraft, Grows, sourceFiles, evaluations
<1>16. ShellRefers(s)'
  BY <1>8, <1>12, <1>13 DEF ShellRefers, At
<1>17. \A c \in DOMAIN draft' \ DOMAIN draft : \A e \in DOMAIN draft'[c].item :
         draft'[c].item[e] \in DOMAIN evaluation'
  BY <1>3, <1>11, <1>12 DEF CreateDraft, evaluations
<1> HIDE DEF d
<1>18. QED
  BY <1>8, <1>9, <1>14, <1>15, <1>16, <1>17, QuietStep DEF CreateDraft, reviews

LEMMA DraftCardKeeps ==
  ASSUME IInv, NEW s \in Shells, DraftCard(s)
  PROVE  IInv'
<1>1. /\ assemblies \in Nat
      /\ shell[s].id \in DOMAIN draft /\ shell[s].id \in DraftId
  BY ShellCases, ReleaseAssumption
  DEF DraftCard, At, IInv, ReleaseTypeOK, References, ShellRefers, DraftShell
<1>2. card' \in Card /\ card'.kind = "draft" /\ card'.id = shell[s].id
  BY <1>1 DEF DraftCard, Card
<1>3. shell' \in [Shells -> Shell] /\ shell'[s] = Idle
  BY IdleIsShell DEF DraftCard, Enter, IInv, ReleaseTypeOK
<1>4. ReleaseTypeOK'
  BY <1>2, <1>3
  DEF DraftCard, IInv, ReleaseTypeOK, sourceFiles, predictions, evaluations, reviews,
      settlements
<1>5. ShellRefers(s)' /\ Grows
  BY <1>1, <1>3, IdleIsShell DEF DraftCard, ShellRefers, At, Grows, sourceFiles, evaluations
<1>6. QED
  BY <1>1, <1>2, <1>4, <1>5, IdleIsShell, QuietStep DEF DraftCard, reviews

-----------------------------------------------------------------------------
\* Approving.

LEMMA CandidatesAreEvents ==
  ASSUME ReleaseTypeOK, NEW d \in DOMAIN draft
  PROVE  Candidates(d) \subseteq Events
<1>1. draft[d] \in Draft
  BY DEF ReleaseTypeOK
<1>2. QED
  BY <1>1 DEF Draft, Candidates

LEMMA ApproveKeeps ==
  ASSUME IInv, NEW s \in Shells, NEW reviewer \in Reviewers, Approve(s, reviewer)
  PROVE  IInv'
<1> DEFINE d == card.id
<1>1. PICK verdict \in [Candidates(d) -> Verdict] :
        Enter(s, [at |-> "decide", id |-> approvals', draft |-> d, reviewer |-> reviewer,
                  verdict |-> verdict, left |-> Candidates(d)])
  BY DEF Approve
<1> DEFINE local == [at |-> "decide", id |-> approvals', draft |-> d, reviewer |-> reviewer,
                     verdict |-> verdict, left |-> Candidates(d)]
<1>2. d \in DOMAIN draft /\ d \in DraftId
  BY DEF Approve, IInv, References, ReleaseTypeOK, Card
<1>3. approvals \in Nat /\ approvals' = approvals + 1 /\ approvals' \in ApprovalId
  BY ReleaseAssumption DEF Approve, IInv, ReleaseTypeOK, ApprovalId
<1>4. Candidates(d) \subseteq Events
  BY <1>2, CandidatesAreEvents DEF IInv
<1>5. verdict \in UNION {[es -> Verdict] : es \in SUBSET Events}
  BY <1>4
<1>6. local \in DecideShell
  BY <1>2, <1>3, <1>4, <1>5 DEF DecideShell
<1>7. local \in Shell
  BY <1>6 DEF Shell
<1>8. /\ local.at = "decide" /\ local.id = approvals' /\ local.draft = d
      /\ local.reviewer = reviewer /\ local.verdict = verdict /\ local.left = Candidates(d)
  OBVIOUS
<1>9. Enter(s, local)
  BY <1>1
<1> HIDE DEF local
<1>10. /\ shell' \in [Shells -> Shell] /\ shell'[s] = local
       /\ \A t \in Shells \ {s} : shell'[t] = shell[t]
  BY <1>7, <1>9 DEF Enter, IInv, ReleaseTypeOK
<1>11. \A c : Candidates(c)' = Candidates(c) /\ Decided(c)' = Decided(c)
  BY DEF Approve, Candidates, Decided, evaluations
<1>12. ReleaseTypeOK'
  <2>1. approvals' \in 0 .. MaxApprovals
    BY <1>3, ReleaseAssumption DEF ApprovalId
  <2>2. QED
    BY <1>10, <2>1
    DEF Approve, IInv, ReleaseTypeOK, sourceFiles, predictions, evaluations, settlements
<1>13. References'
  <2>1. \A t \in Shells : ShellRefers(t)'
    BY <1>8, <1>10
    DEF Approve, IInv, References, ShellRefers, At, sourceFiles, evaluations
  <2>2. \A x \in decision : x.approval \in Nat
    BY DEF IInv, ReleaseTypeOK, Decision, ApprovalId
  <2>3. QED
    BY <1>3, <1>11, <2>1, <2>2 DEF Approve, IInv, References, evaluations
<1>14. ASSUME NEW t \in Shells PROVE ReviewAtWork(t)'
  <2>1. CASE t = s
    <3>1. \A x \in decision : x.approval # approvals'
      BY <1>3 DEF IInv, References
    <3>2. QED
      BY <1>2, <1>3, <1>8, <1>10, <1>11, <2>1, <3>1 DEF Approve, ReviewAtWork, At, evaluations
  <2>2. CASE t # s /\ At(t, "decide")
    <3>1. ReviewAtWork(t) /\ shell'[t] = shell[t]
      BY <1>10, <2>2 DEF IInv, ReviewInv
    <3>2. shell[t].id \in Nat
      BY <2>2, ShellCases DEF IInv, ReleaseTypeOK, At, DecideShell, ApprovalId
    <3>3. shell[t].id <= approvals'
      BY <1>3, <2>2, <3>1, <3>2 DEF ReviewAtWork
    <3>4. QED
      BY <1>11, <2>2, <3>1, <3>3 DEF Approve, ReviewAtWork, DecidedBy, At
  <2>3. CASE t # s /\ ~At(t, "decide")
    BY <1>10, <2>3 DEF ReviewAtWork, At
  <2>4. QED
    BY <2>1, <2>2, <2>3
<1>15. ReviewsApart'
  <2>1. \A t \in Shells \ {s} : At(t, "decide") => shell[t].id \in Nat /\ shell[t].id # approvals'
    BY <1>3, ShellCases
    DEF IInv, ReleaseTypeOK, ReviewInv, ReviewAtWork, At, DecideShell, ApprovalId
  <2>2. QED
    BY <1>8, <1>10, <2>1 DEF IInv, ReviewInv, ReviewsApart, At
<1>16. DecidedInOrder'
  BY <1>11 DEF Approve, IInv, ReviewInv, DecidedInOrder
<1>17. ReviewIsWhole'
  BY <1>11 DEF Approve, IInv, ReviewInv, ReviewIsWhole, OneReview, BatchIsReview
<1>18. QED
  BY <1>12, <1>13, <1>14, <1>15, <1>16, <1>17 DEF IInv, ReviewInv

(***************************************************************************)
(* A decision that the constraint lets through belongs to the only review  *)
(* of its draft: another one would have had to decide the candidates       *)
(* before this one, or this one itself.                                    *)
(***************************************************************************)
LEMMA NoOtherReview ==
  ASSUME IInv, NEW s \in Shells, At(s, "decide"), NEW e \in shell[s].left,
         \A f \in shell[s].left : e <= f,
         Undecided(shell[s].draft, e)
  PROVE  \A y \in Decided(shell[s].draft) : y.approval = shell[s].id
<1> DEFINE my == shell[s]
<1>1. ReviewAtWork(s) /\ my.draft \in DOMAIN draft
  BY DEF IInv, ReviewInv, ReviewAtWork
<1>2. e \in Candidates(my.draft) /\ Candidates(my.draft) \subseteq Events
  BY <1>1, CandidatesAreEvents DEF ReviewAtWork, IInv
<1>3. Events \subseteq Int
  BY ReleaseAssumption DEF Events
<1>4. ASSUME NEW y \in Decided(my.draft) PROVE y.approval = my.id
  <2>1. y \in decision /\ y.draft = my.draft /\ y.event \in Candidates(my.draft)
    BY DEF Decided, IInv, References
  <2>2. y.event # e
    BY DEF Undecided
  <2>3. ~(e < y.event)
    BY <1>2, <2>1 DEF IInv, ReviewInv, DecidedInOrder, Undecided
  <2>4. y.event \in Int /\ e \in Int
    BY <1>2, <1>3, <2>1
  <2>5. y.event \notin my.left
    BY <2>2, <2>3, <2>4
  <2>6. PICK x \in Decided(my.draft) : x.approval = my.id /\ x.event = y.event
    BY <1>1, <2>1, <2>5 DEF ReviewAtWork, DecidedBy
  <2>7. QED
    BY <2>1, <2>6 DEF IInv, ReviewInv, ReviewIsWhole, OneReview, Decided
<1>5. QED
  BY <1>4

LEMMA DecideKeeps ==
  ASSUME IInv, NEW s \in Shells, Decide(s)
  PROVE  IInv'
<1> DEFINE my == shell[s]
<1>1. PICK e \in my.left : (\A f \in my.left : e <= f) /\ DecideEvent(s, e)
  BY DEF Decide
<1> DEFINE new == [draft |-> my.draft, event |-> e, verdict |-> my.verdict[e],
                   approval |-> my.id, reviewer |-> my.reviewer]
           local == [my EXCEPT !.left = @ \ {e}]
<1>2. my \in DecideShell /\ At(s, "decide") /\ ReviewAtWork(s) /\ assemblies \in Nat
  BY ShellCases, ReleaseAssumption DEF Decide, At, IInv, ReleaseTypeOK, ReviewInv
<1>3. /\ my.draft \in DOMAIN draft /\ my.id <= approvals
      /\ e \in Candidates(my.draft) /\ e \in DOMAIN my.verdict
  BY <1>2 DEF ReviewAtWork
<1>4. /\ my.draft \in DraftId /\ my.id \in ApprovalId /\ my.reviewer \in Reviewers
      /\ my.left \subseteq Events /\ e \in Events /\ my.verdict[e] \in Verdict
  BY <1>2, <1>3 DEF DecideShell
<1>5. Undecided(my.draft, e)
  BY <1>1 DEF DecideEvent
<1>6. \A y \in Decided(my.draft) : y.approval = my.id
  BY <1>1, <1>2, <1>5, NoOtherReview
<1>7. new \in Decision
  BY <1>4 DEF Decision
<1>8. /\ new.draft = my.draft /\ new.event = e /\ new.verdict = my.verdict[e]
      /\ new.approval = my.id /\ new.reviewer = my.reviewer
  OBVIOUS
<1>9. local \in DecideShell
  BY <1>2, <1>4 DEF DecideShell
<1>10. /\ local \in Shell /\ local.at = "decide" /\ local.id = my.id /\ local.draft = my.draft
       /\ local.reviewer = my.reviewer /\ local.verdict = my.verdict
       /\ local.left = my.left \ {e}
  BY <1>2, <1>9 DEF Shell, DecideShell
<1>11. Enter(s, local) /\ decision' = decision \cup {new}
  BY <1>1 DEF DecideEvent
<1> HIDE DEF new, local
<1>12. /\ shell' \in [Shells -> Shell] /\ shell'[s] = local
       /\ \A t \in Shells \ {s} : shell'[t] = shell[t]
  BY <1>10, <1>11 DEF Enter, IInv, ReleaseTypeOK
<1>13. \A c : Candidates(c)' = Candidates(c)
  BY <1>1 DEF DecideEvent, Candidates, evaluations
<1>14. \A c : c # my.draft => Decided(c)' = Decided(c)
  BY <1>8, <1>11 DEF Decided
<1>15. \A c : c = my.draft => Decided(c)' = Decided(c) \cup {new}
  BY <1>8, <1>11 DEF Decided
<1>16. ReleaseTypeOK'
  BY <1>1, <1>7, <1>11, <1>12
  DEF DecideEvent, IInv, ReleaseTypeOK, sourceFiles, predictions, evaluations, settlements
<1>17. References'
  <2>1. \A t \in Shells : ShellRefers(t)'
    BY <1>1, <1>10, <1>12
    DEF DecideEvent, IInv, References, ShellRefers, At, sourceFiles, evaluations
  <2>2. QED
    BY <1>1, <1>3, <1>8, <1>11, <1>13, <2>1 DEF DecideEvent, IInv, References, evaluations
<1>18. ASSUME NEW t \in Shells PROVE ReviewAtWork(t)'
  <2>1. CASE t = s
    <3>1. ASSUME NEW f \in Candidates(my.draft), f \notin my.left \ {e}
          PROVE  DecidedBy(my.id, my.draft, f)'
      BY <1>2, <1>8, <1>10, <1>12, <1>15, <3>1 DEF ReviewAtWork, DecidedBy
    <3>2. ASSUME NEW f \in my.left \ {e}, NEW g \in Candidates(my.draft), f <= g
          PROVE  g \in my.left \ {e}
      <4>1. Candidates(my.draft) \subseteq Int
        BY <1>3, CandidatesAreEvents, ReleaseAssumption DEF IInv, Events
      <4>2. e <= f /\ e \in Int /\ f \in Int /\ g \in Int
        BY <1>1, <1>2, <1>3, <4>1 DEF ReviewAtWork
      <4>3. QED
        BY <1>2, <3>2, <4>2 DEF ReviewAtWork
    <3>3. \A x \in decision' : x.approval = my.id =>
            x.reviewer = my.reviewer /\ x.verdict = my.verdict[x.event]
      BY <1>2, <1>8, <1>11 DEF ReviewAtWork
    <3>4. my.left \ {e} \subseteq Candidates(my.draft) /\ DOMAIN my.verdict = Candidates(my.draft)
      BY <1>2 DEF ReviewAtWork
    <3>5. approvals' = approvals /\ DOMAIN draft' = DOMAIN draft
      BY <1>1 DEF DecideEvent
    <3>6. QED
      BY <1>3, <1>10, <1>12, <1>13, <2>1, <3>1, <3>2, <3>3, <3>4, <3>5 DEF ReviewAtWork
  <2>2. CASE t # s /\ At(t, "decide")
    <3>1. ReviewAtWork(t) /\ shell'[t] = shell[t] /\ shell[t].id # my.id
      BY <1>2, <1>12, <2>2 DEF IInv, ReviewInv, ReviewsApart
    <3>2. \A f : DecidedBy(shell[t].id, shell[t].draft, f) => DecidedBy(shell[t].id, shell[t].draft, f)'
      BY <1>14, <1>15, <3>1 DEF DecidedBy
    <3>3. \A x \in decision' : x.approval = shell[t].id => x \in decision
      BY <1>8, <1>11, <3>1
    <3>4. approvals' = approvals /\ DOMAIN draft' = DOMAIN draft
      BY <1>1 DEF DecideEvent
    <3>5. QED
      BY <1>13, <2>2, <3>1, <3>2, <3>3, <3>4 DEF ReviewAtWork
  <2>3. CASE t # s /\ ~At(t, "decide")
    BY <1>12, <2>3 DEF ReviewAtWork, At
  <2>4. QED
    BY <2>1, <2>2, <2>3
<1>19. ReviewsApart'
  BY <1>2, <1>10, <1>12 DEF IInv, ReviewInv, ReviewsApart, At
<1>20. DecidedInOrder'
  <2>1. ASSUME NEW x \in decision, NEW f \in Candidates(x.draft)', f < x.event
        PROVE  \E y \in Decided(x.draft)' : y.event = f
    BY <1>13, <1>14, <1>15, <2>1 DEF IInv, ReviewInv, DecidedInOrder
  <2>2. ASSUME NEW f \in Candidates(my.draft), f < e
        PROVE  \E y \in Decided(my.draft) : y.event = f
    <3>1. f \in Int /\ e \in Int
      BY <1>3, <1>4, CandidatesAreEvents, ReleaseAssumption DEF IInv, Events
    <3>2. f \notin my.left
      BY <1>1, <2>2, <3>1
    <3>3. QED
      BY <1>2, <3>2 DEF ReviewAtWork, DecidedBy
  <2>3. QED
    <3>1. ASSUME NEW x, x = new, NEW f \in Candidates(x.draft)', f < x.event
          PROVE  \E y \in Decided(x.draft)' : y.event = f
      <4>1. x.draft = my.draft /\ x.event = e /\ f \in Candidates(my.draft)
        BY <1>8, <1>13, <3>1
      <4>2. PICK y \in Decided(my.draft) : y.event = f
        BY <2>2, <3>1, <4>1
      <4>3. y \in Decided(x.draft)'
        BY <1>15, <4>1, <4>2
      <4>4. QED
        BY <4>2, <4>3
    <3>2. \A x \in decision' : x \in decision \/ x = new
      BY <1>11
    <3>3. QED
      BY <2>1, <3>1, <3>2 DEF DecidedInOrder
<1>21. OneReview'
  BY <1>6, <1>8, <1>11 DEF IInv, ReviewInv, ReviewIsWhole, OneReview, Decided
<1>22. BatchIsReview'
  <2>1. \A b \in batch : b.draft # my.draft
    BY <1>3, <1>5 DEF IInv, ReviewInv, ReviewIsWhole, BatchIsReview, Undecided
  <2>2. \A b \in batch : Decided(b.draft)' = Decided(b.draft) /\ Candidates(b.draft)' = Candidates(b.draft)
    BY <1>13, <1>14, <2>1
  <2>3. QED
    BY <1>1, <2>2 DEF DecideEvent, IInv, ReviewInv, ReviewIsWhole, BatchIsReview
<1>23. QED
  BY <1>16, <1>17, <1>18, <1>19, <1>20, <1>21, <1>22 DEF IInv, ReviewInv, ReviewIsWhole

LEMMA PublishKeeps ==
  ASSUME IInv, NEW s \in Shells, Publish(s)
  PROVE  IInv'
<1> DEFINE my == shell[s]
           new == [draft |-> my.draft, approval |-> my.id, reviewer |-> my.reviewer,
                   plays |-> PlaysOf(s)]
           local == [at |-> "package_card", id |-> my.draft]
<1>1. /\ my \in DecideShell /\ ReviewAtWork(s) /\ At(s, "decide") /\ my.left = {}
      /\ assemblies \in Nat
  BY ShellCases, ReleaseAssumption DEF Publish, At, IInv, ReleaseTypeOK, ReviewInv
<1>2. /\ my.draft \in DOMAIN draft /\ DOMAIN my.verdict = Candidates(my.draft)
      /\ my.draft \in DraftId /\ my.id \in ApprovalId /\ my.reviewer \in Reviewers
  BY <1>1 DEF ReviewAtWork, DecideShell
<1>3. PlaysOf(s) \subseteq EvaluationId
  <2>1. draft[my.draft] \in Draft
    BY <1>2 DEF IInv, ReleaseTypeOK
  <2>2. DOMAIN my.verdict \subseteq DOMAIN draft[my.draft].item
    BY <1>2 DEF Candidates
  <2>3. QED
    BY <2>1, <2>2 DEF PlaysOf, Draft
<1>4. new \in Batch
  BY <1>2, <1>3 DEF Batch
<1>5. /\ new.draft = my.draft /\ new.approval = my.id /\ new.reviewer = my.reviewer
      /\ new.plays = PlaysOf(s)
  OBVIOUS
<1>6. local \in Shell /\ local.at = "package_card"
  BY <1>2 DEF Shell, DraftShell
<1>7. Enter(s, local) /\ batch' = batch \cup {new}
  BY DEF Publish
<1>8. \A c : Candidates(c)' = Candidates(c) /\ Decided(c)' = Decided(c)
  BY DEF Publish, Candidates, Decided, evaluations
\* The review is over, so its verdicts are the decisions on the draft.
<1>9. /\ {x.event : x \in Decided(my.draft)} = Candidates(my.draft)
      /\ \A x \in Decided(my.draft) :
           x.approval = my.id /\ x.reviewer = my.reviewer /\ x.verdict = my.verdict[x.event]
  <2>1. ASSUME NEW e \in Candidates(my.draft)
        PROVE  \E x \in Decided(my.draft) : x.approval = my.id /\ x.event = e
    BY <1>1 DEF ReviewAtWork, DecidedBy
  <2>2. ASSUME NEW x \in Decided(my.draft)
        PROVE  x \in decision /\ x.draft = my.draft /\ x.event \in Candidates(my.draft)
    BY DEF Decided, IInv, References
  <2>3. ASSUME NEW x \in Decided(my.draft)
        PROVE  x.approval = my.id
    BY <2>1, <2>2 DEF IInv, ReviewInv, ReviewIsWhole, OneReview, Decided
  <2>4. QED
    BY <1>1, <2>1, <2>2, <2>3 DEF ReviewAtWork
<1>10. PlaysOf(s) = {draft[my.draft].item[x.event] :
                       x \in {y \in Decided(my.draft) : y.verdict = "approved"}}
  <2>1. \A e \in DOMAIN my.verdict : \E x \in Decided(my.draft) :
          x.event = e /\ x.verdict = my.verdict[e]
    BY <1>2, <1>9
  <2>2. \A x \in Decided(my.draft) : x.event \in DOMAIN my.verdict
    BY <1>2, <1>9
  <2>3. QED
    BY <1>9, <2>1, <2>2 DEF PlaysOf
<1>11. ASSUME NEW b, b = new
       PROVE  /\ {x.event : x \in Decided(b.draft)} = Candidates(b.draft)
              /\ \A x \in Decided(b.draft) : x.approval = b.approval /\ x.reviewer = b.reviewer
              /\ b.plays = {draft[b.draft].item[x.event] :
                              x \in {y \in Decided(b.draft) : y.verdict = "approved"}}
              /\ b.draft \in DOMAIN draft
  BY <1>2, <1>5, <1>9, <1>10, <1>11
<1> HIDE DEF new, local
<1>12. /\ shell' \in [Shells -> Shell] /\ shell'[s] = local
       /\ \A t \in Shells \ {s} : shell'[t] = shell[t]
  BY <1>6, <1>7 DEF Enter, IInv, ReleaseTypeOK
<1>13. ReleaseTypeOK'
  BY <1>4, <1>7, <1>12
  DEF Publish, IInv, ReleaseTypeOK, sourceFiles, predictions, evaluations, settlements
<1>14. References'
  <2>1. \A t \in Shells : ShellRefers(t)'
    BY <1>6, <1>12 DEF Publish, IInv, References, ShellRefers, At, sourceFiles, evaluations
  <2>2. \A b \in batch' : b.draft \in DOMAIN draft'
    BY <1>7, <1>11 DEF Publish, IInv, References
  <2>3. QED
    BY <1>8, <2>1, <2>2 DEF Publish, IInv, References, evaluations
<1>15. ASSUME NEW t \in Shells PROVE ReviewAtWork(t)'
  <2>1. CASE t = s
    BY <1>6, <1>12, <2>1 DEF ReviewAtWork, At
  <2>2. CASE t # s /\ At(t, "decide")
    <3>1. ReviewAtWork(t) /\ shell'[t] = shell[t]
      BY <1>12, <2>2 DEF IInv, ReviewInv
    <3>2. QED
      BY <1>8, <2>2, <3>1 DEF Publish, ReviewAtWork, DecidedBy
  <2>3. CASE t # s /\ ~At(t, "decide")
    BY <1>12, <2>3 DEF ReviewAtWork, At
  <2>4. QED
    BY <2>1, <2>2, <2>3
<1>16. ReviewsApart'
  BY <1>6, <1>12 DEF IInv, ReviewInv, ReviewsApart, At
<1>17. DecidedInOrder' /\ OneReview'
  BY <1>8 DEF Publish, IInv, ReviewInv, DecidedInOrder, ReviewIsWhole, OneReview
<1>18. BatchIsReview'
  <2>1. draft' = draft
    BY DEF Publish
  <2>2. QED
    BY <1>7, <1>8, <1>11, <2>1 DEF IInv, ReviewInv, ReviewIsWhole, BatchIsReview
<1>19. QED
  BY <1>13, <1>14, <1>15, <1>16, <1>17, <1>18 DEF IInv, ReviewInv, ReviewIsWhole

LEMMA ReviewEndsKeep ==
  ASSUME IInv, NEW s \in Shells,
         ApproveRefused(s) \/ PackageCard(s) \/ PackageLedger(s) \/ Breaks(s)
  PROVE  IInv'
<1>0. assemblies \in Nat /\ shell[s] \in Shell
  BY ReleaseAssumption DEF IInv, ReleaseTypeOK
<1>1. CASE ApproveRefused(s)
  <2>1. shell' \in [Shells -> Shell] /\ shell'[s] = Idle
    BY <1>1, IdleIsShell DEF ApproveRefused, Enter, IInv, ReleaseTypeOK
  <2>2. ReleaseTypeOK'
    BY <1>1, <2>1
    DEF ApproveRefused, IInv, ReleaseTypeOK, sourceFiles, predictions, evaluations, reviews,
        settlements
  <2>3. ShellRefers(s)' /\ Grows
    BY <1>0, <1>1, <2>1, IdleIsShell
    DEF ApproveRefused, ShellRefers, At, Grows, sourceFiles, evaluations
  <2>4. QED
    BY <1>1, <2>2, <2>3, IdleIsShell, QuietStep DEF ApproveRefused, reviews
<1>2. CASE PackageCard(s)
  <2> DEFINE local == [shell[s] EXCEPT !.at = "package_ledger"]
  <2>1. shell[s] \in DraftShell /\ shell[s].id \in DraftId
    BY <1>0, <1>2, ShellCases DEF PackageCard, At, DraftShell
  <2>2. local \in Shell /\ local.at = "package_ledger"
    BY <2>1 DEF Shell, DraftShell
  <2>3. Enter(s, local) /\ card' \in Card /\ card'.kind = "package"
    BY <1>2, <2>1 DEF PackageCard, Card
  <2> HIDE DEF local
  <2>4. shell' \in [Shells -> Shell] /\ shell'[s] = local
    BY <2>2, <2>3 DEF Enter, IInv, ReleaseTypeOK
  <2>5. ReleaseTypeOK'
    BY <1>2, <2>3, <2>4
    DEF PackageCard, IInv, ReleaseTypeOK, sourceFiles, predictions, evaluations, reviews,
        settlements
  <2>6. ShellRefers(s)' /\ Grows
    BY <1>0, <1>2, <2>2, <2>4 DEF PackageCard, ShellRefers, At, Grows, sourceFiles, evaluations
  <2>7. QED
    BY <1>2, <2>2, <2>3, <2>5, <2>6, QuietStep DEF PackageCard, reviews
<1>3. CASE PackageLedger(s)
  <2>1. shell[s].id \in DraftId
    BY <1>0, <1>3, ShellCases DEF PackageLedger, At, DraftShell
  <2>2. shell' \in [Shells -> Shell] /\ shell'[s] = Idle /\ ledger' \in Ledger
    BY <1>3, <2>1, IdleIsShell, ReleaseAssumption
    DEF PackageLedger, Enter, IInv, ReleaseTypeOK, Ledger, DraftId
  <2>3. ReleaseTypeOK'
    BY <1>3, <2>2
    DEF PackageLedger, IInv, ReleaseTypeOK, sourceFiles, predictions, evaluations, reviews
  <2>4. ShellRefers(s)' /\ Grows
    BY <1>0, <1>3, <2>2, IdleIsShell
    DEF PackageLedger, ShellRefers, At, Grows, sourceFiles, evaluations
  <2>5. QED
    BY <1>3, <2>3, <2>4, IdleIsShell, QuietStep DEF PackageLedger, reviews
<1>4. CASE Breaks(s)
  <2>1. interrupted' \subseteq DraftId
    BY <1>0, <1>4, ShellCases DEF Breaks, At, DecideShell, IInv, ReleaseTypeOK
  <2>2. shell' \in [Shells -> Shell] /\ shell'[s] = Idle
    BY <1>4, IdleIsShell DEF Breaks, Enter, IInv, ReleaseTypeOK
  <2>3. ReleaseTypeOK'
    BY <1>4, <2>1, <2>2
    DEF Breaks, IInv, ReleaseTypeOK, sourceFiles, predictions, evaluations, settlements
  <2>4. ShellRefers(s)' /\ Grows
    BY <1>0, <1>4, <2>2, IdleIsShell DEF Breaks, ShellRefers, At, Grows, sourceFiles, evaluations
  <2>5. QED
    BY <1>4, <2>3, <2>4, IdleIsShell, QuietStep DEF Breaks
<1>5. QED
  BY <1>1, <1>2, <1>3, <1>4

-----------------------------------------------------------------------------
\* Settling.

LEMMA SettleKeeps ==
  ASSUME IInv, NEW s \in Shells,
         \/ \E b \in batch : \E n \in b.plays, c \in 0 .. MaxSettlements : Settle(s, b, n, c)
         \/ SettleRead(s) \/ SettleWrite(s)
  PROVE  IInv'
<1>0. assemblies \in Nat /\ shell[s] \in Shell /\ settlement \in Seq(Settlement)
  BY ReleaseAssumption DEF IInv, ReleaseTypeOK
<1>1. ASSUME NEW b \in batch, NEW n \in b.plays, NEW c \in 0 .. MaxSettlements,
             Settle(s, b, n, c)
      PROVE  IInv'
  <2> DEFINE local == [at |-> "settle_read", id |-> b.draft]
             row == [play |-> n, corrects |-> c]
  <2>1. b.draft \in DraftId /\ n \in EvaluationId
    BY DEF IInv, ReleaseTypeOK, Batch
  <2>2. local \in Shell /\ local.at = "settle_read"
    BY <2>1 DEF Shell, DraftShell
  <2>3. row \in Settlement
    BY <2>1 DEF Settlement
  <2>4. Enter(s, local) /\ settlement' = Append(settlement, row)
    BY <1>1 DEF Settle
  <2> HIDE DEF local, row
  <2>5. shell' \in [Shells -> Shell] /\ shell'[s] = local
    BY <2>2, <2>4 DEF Enter, IInv, ReleaseTypeOK
  <2>6. settlement' \in Seq(Settlement) /\ Len(settlement') <= MaxSettlements
    BY <1>0, <1>1, <2>3, <2>4, ReleaseAssumption DEF Settle
  <2>7. ReleaseTypeOK'
    BY <1>1, <2>5, <2>6
    DEF Settle, IInv, ReleaseTypeOK, sourceFiles, predictions, evaluations, reviews
  <2>8. ShellRefers(s)' /\ Grows
    BY <1>0, <1>1, <2>2, <2>5 DEF Settle, ShellRefers, At, Grows, sourceFiles, evaluations
  <2>9. QED
    BY <1>1, <2>2, <2>4, <2>7, <2>8, QuietStep DEF Settle, reviews
<1>2. CASE SettleRead(s)
  <2> DEFINE local == [at |-> "settle_write", id |-> shell[s].id,
                       seen |-> BatchEvents(shell[s].id)]
  <2>1. shell[s].id \in DraftId
    BY <1>0, <1>2, ShellCases DEF SettleRead, At, DraftShell
  <2>2. DOMAIN settlement \subseteq 1 .. MaxSettlements
    BY <1>0, ReleaseAssumption DEF IInv, ReleaseTypeOK
  <2>3. BatchEvents(shell[s].id) \subseteq 1 .. MaxSettlements
    BY <2>2 DEF BatchEvents
  <2>4. local \in Shell /\ local.at = "settle_write"
    BY <2>1, <2>3 DEF Shell, SettleShell
  <2>5. Enter(s, local)
    BY <1>2 DEF SettleRead
  <2> HIDE DEF local
  <2>6. shell' \in [Shells -> Shell] /\ shell'[s] = local
    BY <2>4, <2>5 DEF Enter, IInv, ReleaseTypeOK
  <2>7. ReleaseTypeOK'
    BY <1>2, <2>6
    DEF SettleRead, IInv, ReleaseTypeOK, sourceFiles, predictions, evaluations, reviews,
        settlements
  <2>8. ShellRefers(s)' /\ Grows
    BY <1>0, <1>2, <2>4, <2>6 DEF SettleRead, ShellRefers, At, Grows, sourceFiles, evaluations
  <2>9. QED
    BY <1>2, <2>4, <2>5, <2>7, <2>8, QuietStep DEF SettleRead, reviews
<1>3. CASE SettleWrite(s)
  <2>1. shell[s].id \in DraftId /\ shell[s].seen \subseteq 1 .. MaxSettlements
    BY <1>0, <1>3, ShellCases DEF SettleWrite, At, SettleShell
  <2>2. shell' \in [Shells -> Shell] /\ shell'[s] = Idle /\ ledger' \in Ledger
    BY SMTT(30), <1>3, <2>1, IdleIsShell, ReleaseAssumption
    DEF SettleWrite, Enter, IInv, ReleaseTypeOK, Ledger, DraftId
  <2>3. ReleaseTypeOK'
    BY <1>3, <2>2
    DEF SettleWrite, IInv, ReleaseTypeOK, sourceFiles, predictions, evaluations, reviews
  <2>4. ShellRefers(s)' /\ Grows
    BY <1>0, <1>3, <2>2, IdleIsShell
    DEF SettleWrite, ShellRefers, At, Grows, sourceFiles, evaluations
  <2>5. QED
    BY <1>3, <2>3, <2>4, IdleIsShell, QuietStep DEF SettleWrite, reviews
<1>4. QED
  BY <1>1, <1>2, <1>3

-----------------------------------------------------------------------------
LEMMA InitIInv == Init => IInv
<1> SUFFICES ASSUME Init PROVE IInv
  OBVIOUS
<1>1. ReleaseTypeOK
  BY IdleIsShell, ReleaseAssumption DEF Init, ReleaseTypeOK, Card, Ledger, Shell
<1>2. References
  BY IdleIsShell DEF Init, References, ShellRefers, At
<1>3. ReviewInv
  BY IdleIsShell
  DEF Init, ReviewInv, ReviewAtWork, ReviewsApart, DecidedInOrder, ReviewIsWhole, OneReview,
      BatchIsReview, At
<1>4. QED
  BY <1>1, <1>2, <1>3 DEF IInv

LEMMA StutterKeeps ==
  ASSUME IInv, UNCHANGED vars
  PROVE  IInv'
<1> USE DEF vars, sourceFiles, predictions, evaluations, reviews, settlements
<1>1. \A d : Candidates(d)' = Candidates(d) /\ Decided(d)' = Decided(d)
  BY DEF Candidates, Decided
<1>2. ReleaseTypeOK'
  BY DEF IInv, ReleaseTypeOK
<1>3. References'
  BY <1>1 DEF IInv, References, ShellRefers, At
<1>4. \A s \in Shells : ReviewAtWork(s)'
  BY <1>1 DEF IInv, ReviewInv, ReviewAtWork, DecidedBy, At
<1>5. ReviewsApart' /\ DecidedInOrder'
  BY <1>1 DEF IInv, ReviewInv, ReviewsApart, DecidedInOrder, At
<1>6. ReviewIsWhole'
  BY <1>1 DEF IInv, ReviewInv, ReviewIsWhole, OneReview, BatchIsReview
<1>7. QED
  BY <1>2, <1>3, <1>4, <1>5, <1>6 DEF IInv, ReviewInv

LEMMA StepKeeps == IInv /\ [Next]_vars => IInv'
<1> SUFFICES ASSUME IInv, [Next]_vars PROVE IInv'
  OBVIOUS
<1>1. CASE UNCHANGED vars
  BY <1>1, StutterKeeps
<1>2. ASSUME NEW s \in Shells,
             AssembleGames(s) \/ AssembleFeatures(s)
      PROVE  IInv'
  BY <1>2, AssembleKeeps
<1>3. ASSUME NEW s \in Shells,
             \/ \E e \in Events, content \in Evidence : Seal(s, e, content)
             \/ SealRead(s) \/ SealWrite(s)
      PROVE  IInv'
  BY <1>3, SealKeeps
<1>4. ASSUME NEW s \in Shells,
             \/ \E p \in sealedFile : EvaluateMarket(s, p)
             \/ EvaluatePolicy(s) \/ EvaluateRead(s) \/ EvaluateWrite(s)
      PROVE  IInv'
  BY <1>4, EvaluateMarketKeeps, EvaluateKeeps
<1>5. ASSUME NEW s \in Shells, CreateDraft(s) \/ DraftCard(s)
      PROVE  IInv'
  BY <1>5, CreateDraftKeeps, DraftCardKeeps
<1>6. ASSUME NEW s \in Shells, \E reviewer \in Reviewers : Approve(s, reviewer)
      PROVE  IInv'
  BY <1>6, ApproveKeeps
<1>7. ASSUME NEW s \in Shells, Decide(s) \/ Publish(s)
      PROVE  IInv'
  BY <1>7, DecideKeeps, PublishKeeps
<1>8. ASSUME NEW s \in Shells,
             ApproveRefused(s) \/ PackageCard(s) \/ PackageLedger(s) \/ Breaks(s)
      PROVE  IInv'
  BY <1>8, ReviewEndsKeep
<1>9. ASSUME NEW s \in Shells,
             \/ \E b \in batch : \E n \in b.plays, c \in 0 .. MaxSettlements : Settle(s, b, n, c)
             \/ SettleRead(s) \/ SettleWrite(s)
      PROVE  IInv'
  BY <1>9, SettleKeeps
<1>10. QED
  BY <1>1, <1>2, <1>3, <1>4, <1>5, <1>6, <1>7, <1>8, <1>9 DEF Next, Command

(***************************************************************************)
(* The state of the workflow keeps its type, however the commands of any   *)
(* number of shells overlap (scripts/release_candidate.py).                *)
(***************************************************************************)
THEOREM Typing == Spec => []ReleaseTypeOK
<1>1. IInv => ReleaseTypeOK
  BY DEF IInv
<1>2. QED
  BY <1>1, InitIInv, StepKeeps, PTL DEF Spec

(***************************************************************************)
(* All decisions on a draft come from one review, and a batch publishes    *)
(* just what that review approved, for any number of reviewers and games   *)
(* (approve_draft, append_review_decision, publication_batches).           *)
(***************************************************************************)
THEOREM ReviewsAreWhole == Spec => []ReviewIsWhole
<1>1. IInv => ReviewIsWhole
  BY DEF IInv, ReviewInv
<1>2. QED
  BY <1>1, InitIInv, StepKeeps, PTL DEF Spec

-----------------------------------------------------------------------------
(***************************************************************************)
(* What a step of one command leaves alone: rows are only added, and the   *)
(* other commands keep their place and their local variables.              *)
(***************************************************************************)
RowsStay ==
  /\ \A n \in DOMAIN evaluation : n \in DOMAIN evaluation' /\ evaluation'[n] = evaluation[n]
  /\ \A d \in DOMAIN draft : d \in DOMAIN draft' /\ draft'[d] = draft[d]
  /\ \A k \in DOMAIN settlement : k \in DOMAIN settlement' /\ settlement'[k] = settlement[k]
  /\ sealed \subseteq sealed' /\ policy \subseteq policy'
  /\ decision \subseteq decision' /\ batch \subseteq batch' /\ interrupted \subseteq interrupted'

OthersWait(s) == \A t \in Shells \ {s} : shell'[t] = shell[t]

LEMMA RowsOfAppend ==
  ASSUME NEW S, NEW rows \in Seq(S), NEW row
  PROVE  \A k \in DOMAIN rows :
           k \in DOMAIN Append(rows, row) /\ Append(rows, row)[k] = rows[k]
<1>1. rows \in Seq(S \cup {row})
  OBVIOUS
<1>2. QED
  BY <1>1

LEMMA SequencesGrow ==
  ASSUME IInv, NEW s \in Shells, Command(s)
  PROVE  /\ \A n \in DOMAIN evaluation : n \in DOMAIN evaluation' /\ evaluation'[n] = evaluation[n]
         /\ \A d \in DOMAIN draft : d \in DOMAIN draft' /\ draft'[d] = draft[d]
         /\ \A k \in DOMAIN settlement : k \in DOMAIN settlement' /\ settlement'[k] = settlement[k]
<1> USE DEF sourceFiles, predictions, evaluations, reviews, settlements
<1>1. /\ evaluation \in Seq(Evaluation) /\ draft \in Seq(Draft) /\ settlement \in Seq(Settlement)
  BY DEF IInv, ReleaseTypeOK
<1>2. \/ evaluation' = evaluation
      \/ \E row : evaluation' = Append(evaluation, row)
  BY DEF Command, AssembleGames, AssembleFeatures, Seal, SealRead, SealWrite, EvaluateMarket,
         EvaluatePolicy, EvaluateRead, EvaluateWrite, CreateDraft, DraftCard, Approve, Decide,
         DecideEvent, Publish, ApproveRefused, PackageCard, PackageLedger, Settle, SettleRead,
         SettleWrite, Breaks
<1>3. \/ draft' = draft
      \/ \E row : draft' = Append(draft, row)
  BY DEF Command, AssembleGames, AssembleFeatures, Seal, SealRead, SealWrite, EvaluateMarket,
         EvaluatePolicy, EvaluateRead, EvaluateWrite, CreateDraft, DraftCard, Approve, Decide,
         DecideEvent, Publish, ApproveRefused, PackageCard, PackageLedger, Settle, SettleRead,
         SettleWrite, Breaks
<1>4. \/ settlement' = settlement
      \/ \E row : settlement' = Append(settlement, row)
  BY DEF Command, AssembleGames, AssembleFeatures, Seal, SealRead, SealWrite, EvaluateMarket,
         EvaluatePolicy, EvaluateRead, EvaluateWrite, CreateDraft, DraftCard, Approve, Decide,
         DecideEvent, Publish, ApproveRefused, PackageCard, PackageLedger, Settle, SettleRead,
         SettleWrite, Breaks
<1>5. \A n \in DOMAIN evaluation : n \in DOMAIN evaluation' /\ evaluation'[n] = evaluation[n]
  BY ONLY <1>1, <1>2, RowsOfAppend
<1>6. \A d \in DOMAIN draft : d \in DOMAIN draft' /\ draft'[d] = draft[d]
  BY ONLY SMTT(30), <1>1, <1>3, RowsOfAppend
<1>7. \A k \in DOMAIN settlement : k \in DOMAIN settlement' /\ settlement'[k] = settlement[k]
  BY ONLY SMTT(30), <1>1, <1>4, RowsOfAppend
<1>8. QED
  BY <1>5, <1>6, <1>7

LEMMA RowsAreOnlyAdded ==
  ASSUME IInv, NEW s \in Shells, Command(s)
  PROVE  RowsStay /\ OthersWait(s)
<1> USE DEF sourceFiles, predictions, evaluations, reviews, settlements
<1>1. /\ sealed \subseteq sealed' /\ policy \subseteq policy'
      /\ decision \subseteq decision' /\ batch \subseteq batch' /\ interrupted \subseteq interrupted'
  BY DEF Command, AssembleGames, AssembleFeatures, Seal, SealRead, SealWrite, EvaluateMarket,
         EvaluatePolicy, EvaluateRead, EvaluateWrite, CreateDraft, DraftCard, Approve, Decide,
         DecideEvent, Publish, ApproveRefused, PackageCard, PackageLedger, Settle, SettleRead,
         SettleWrite, Breaks
<1>2. \E local : Enter(s, local)
  BY DEF Command, AssembleGames, AssembleFeatures, Seal, SealRead, SealWrite, EvaluateMarket,
         EvaluatePolicy, EvaluateRead, EvaluateWrite, CreateDraft, DraftCard, Approve, Decide,
         DecideEvent, Publish, ApproveRefused, PackageCard, PackageLedger, Settle, SettleRead,
         SettleWrite, Breaks
<1>3. OthersWait(s)
  BY <1>2 DEF OthersWait, Enter, IInv, ReleaseTypeOK
<1>4. QED
  BY <1>1, <1>3, SequencesGrow DEF RowsStay

\* Which commands write a table or a file, and which enter a place.

LEMMA WhoWrites ==
  ASSUME NEW s \in Shells, Command(s)
  PROVE  /\ sealedFile' = sealedFile \/ SealWrite(s)
         /\ results' = results \/ EvaluateWrite(s)
         /\ draft' = draft \/ CreateDraft(s)
         /\ card' = card \/ DraftCard(s) \/ PackageCard(s)
         /\ decision' = decision \/ Decide(s)
         /\ batch' = batch \/ Publish(s)
         /\ \/ settlement' = settlement
            \/ \E b \in batch : \E n \in b.plays, c \in 0 .. MaxSettlements : Settle(s, b, n, c)
         /\ ledger' = ledger \/ PackageLedger(s) \/ SettleWrite(s)
<1> USE DEF sourceFiles, predictions, evaluations, reviews, settlements
<1>1. sealedFile' = sealedFile \/ SealWrite(s)
  BY DEF Command, AssembleGames, AssembleFeatures, Seal, SealRead, EvaluateMarket,
         EvaluatePolicy, EvaluateRead, EvaluateWrite, CreateDraft, DraftCard, Approve, Decide,
         DecideEvent, Publish, ApproveRefused, PackageCard, PackageLedger, Settle, SettleRead,
         SettleWrite, Breaks
<1>2. results' = results \/ EvaluateWrite(s)
  BY DEF Command, AssembleGames, AssembleFeatures, Seal, SealRead, SealWrite, EvaluateMarket,
         EvaluatePolicy, EvaluateRead, CreateDraft, DraftCard, Approve, Decide,
         DecideEvent, Publish, ApproveRefused, PackageCard, PackageLedger, Settle, SettleRead,
         SettleWrite, Breaks
<1>3. draft' = draft \/ CreateDraft(s)
  BY DEF Command, AssembleGames, AssembleFeatures, Seal, SealRead, SealWrite, EvaluateMarket,
         EvaluatePolicy, EvaluateRead, EvaluateWrite, DraftCard, Approve, Decide,
         DecideEvent, Publish, ApproveRefused, PackageCard, PackageLedger, Settle, SettleRead,
         SettleWrite, Breaks
<1>4. card' = card \/ DraftCard(s) \/ PackageCard(s)
  BY DEF Command, AssembleGames, AssembleFeatures, Seal, SealRead, SealWrite, EvaluateMarket,
         EvaluatePolicy, EvaluateRead, EvaluateWrite, CreateDraft, Approve, Decide,
         DecideEvent, Publish, ApproveRefused, PackageLedger, Settle, SettleRead,
         SettleWrite, Breaks
<1>5. decision' = decision \/ Decide(s)
  BY DEF Command, AssembleGames, AssembleFeatures, Seal, SealRead, SealWrite, EvaluateMarket,
         EvaluatePolicy, EvaluateRead, EvaluateWrite, CreateDraft, DraftCard, Approve,
         Publish, ApproveRefused, PackageCard, PackageLedger, Settle, SettleRead,
         SettleWrite, Breaks
<1>6. batch' = batch \/ Publish(s)
  BY DEF Command, AssembleGames, AssembleFeatures, Seal, SealRead, SealWrite, EvaluateMarket,
         EvaluatePolicy, EvaluateRead, EvaluateWrite, CreateDraft, DraftCard, Approve, Decide,
         DecideEvent, ApproveRefused, PackageCard, PackageLedger, Settle, SettleRead,
         SettleWrite, Breaks
<1>7. \/ settlement' = settlement
      \/ \E b \in batch : \E n \in b.plays, c \in 0 .. MaxSettlements : Settle(s, b, n, c)
  BY DEF Command, AssembleGames, AssembleFeatures, Seal, SealRead, SealWrite, EvaluateMarket,
         EvaluatePolicy, EvaluateRead, EvaluateWrite, CreateDraft, DraftCard, Approve, Decide,
         DecideEvent, Publish, ApproveRefused, PackageCard, PackageLedger, SettleRead,
         SettleWrite, Breaks
<1>8. ledger' = ledger \/ PackageLedger(s) \/ SettleWrite(s)
  BY DEF Command, AssembleGames, AssembleFeatures, Seal, SealRead, SealWrite, EvaluateMarket,
         EvaluatePolicy, EvaluateRead, EvaluateWrite, CreateDraft, DraftCard, Approve, Decide,
         DecideEvent, Publish, ApproveRefused, PackageCard, Settle, SettleRead, Breaks
<1>9. QED
  BY <1>1, <1>2, <1>3, <1>4, <1>5, <1>6, <1>7, <1>8

LEMMA WhoEnters ==
  ASSUME IInv, NEW s \in Shells, Command(s)
  PROVE  LET place == shell'[s].at
         IN /\ place = "seal_read" => \E e \in Events, content \in Evidence : Seal(s, e, content)
            /\ place = "seal_write" => SealRead(s)
            /\ place = "results_read" => EvaluatePolicy(s)
            /\ place = "results_write" => EvaluateRead(s)
            /\ place = "decide" => (\E reviewer \in Reviewers : Approve(s, reviewer)) \/ Decide(s)
            /\ place = "package_card" => Publish(s)
            /\ place = "package_ledger" => PackageCard(s)
            /\ place = "settle_read" =>
                 \E b \in batch : \E n \in b.plays, c \in 0 .. MaxSettlements : Settle(s, b, n, c)
            /\ place = "settle_write" => SettleRead(s)
<1>1. \A local : Enter(s, local) => shell'[s] = local
  BY DEF Enter, IInv, ReleaseTypeOK
<1>2. shell[s] \in Shell
  BY DEF IInv, ReleaseTypeOK
<1>3. CASE AssembleGames(s)
  BY <1>1, <1>3 DEF AssembleGames
<1>4. CASE AssembleFeatures(s) \/ SealWrite(s) \/ EvaluateWrite(s) \/ DraftCard(s)
           \/ ApproveRefused(s) \/ PackageLedger(s) \/ SettleWrite(s) \/ Breaks(s)
  <2>1. shell'[s] = Idle
    BY <1>1, <1>4
    DEF AssembleFeatures, SealWrite, EvaluateWrite, DraftCard, ApproveRefused, PackageLedger,
        SettleWrite, Breaks
  <2>2. QED
    BY <2>1, IdleIsShell
<1>5. CASE \E e \in Events, content \in Evidence : Seal(s, e, content)
  BY <1>1, <1>5 DEF Seal
<1>6. CASE SealRead(s)
  BY <1>1, <1>6 DEF SealRead
<1>7. CASE \E p \in sealedFile : EvaluateMarket(s, p)
  BY <1>1, <1>7 DEF EvaluateMarket
<1>8. CASE EvaluatePolicy(s)
  <2>1. shell[s] \in EvaluateShell
    BY <1>2, <1>8, ShellCases DEF EvaluatePolicy, At
  <2>2. shell'[s].at = "results_read"
    BY <1>1, <1>8, <2>1 DEF EvaluatePolicy, EvaluateShell
  <2>3. QED
    BY <1>8, <2>2
<1>9. CASE EvaluateRead(s)
  BY <1>1, <1>9 DEF EvaluateRead
<1>10. CASE CreateDraft(s)
  BY <1>1, <1>10 DEF CreateDraft
<1>11. CASE \E reviewer \in Reviewers : Approve(s, reviewer)
  BY <1>1, <1>11 DEF Approve
<1>12. CASE Decide(s)
  <2>1. shell[s] \in DecideShell
    BY <1>2, <1>12, ShellCases DEF Decide, At
  <2>2. shell'[s].at = "decide"
    BY <1>1, <1>12, <2>1 DEF Decide, DecideEvent, DecideShell
  <2>3. QED
    BY <1>12, <2>2
<1>13. CASE Publish(s)
  BY <1>1, <1>13 DEF Publish
<1>14. CASE PackageCard(s)
  <2>1. shell[s] \in DraftShell
    BY <1>2, <1>14, ShellCases DEF PackageCard, At
  <2>2. shell'[s].at = "package_ledger"
    BY <1>1, <1>14, <2>1 DEF PackageCard, DraftShell
  <2>3. QED
    BY <1>14, <2>2
<1>15. CASE \E b \in batch : \E n \in b.plays, c \in 0 .. MaxSettlements : Settle(s, b, n, c)
  BY <1>1, <1>15 DEF Settle
<1>16. CASE SettleRead(s)
  BY <1>1, <1>16 DEF SettleRead
<1>17. QED
  BY <1>3, <1>4, <1>5, <1>6, <1>7, <1>8, <1>9, <1>10, <1>11, <1>12, <1>13, <1>14, <1>15, <1>16
  DEF Command

-----------------------------------------------------------------------------
\* Files follow the database.

LEMMA CoherentStays ==
  ASSUME RowsStay, NEW events \in SUBSET DOMAIN settlement, Coherent(events)
  PROVE  Coherent(events)'
<1>1. \A k \in events : k \in DOMAIN settlement /\ settlement'[k] = settlement[k]
  BY DEF RowsStay
<1>2. QED
  BY <1>1 DEF Coherent

LEMMA BatchStays ==
  ASSUME RowsStay, NEW d
  PROVE  /\ Batched(d) => Batched(d)'
         /\ BatchEvents(d) \subseteq BatchEvents(d)'
BY DEF RowsStay, Batched, BatchEvents

\* The events of a batch are all those of its plays, so they lack nothing.
LEMMA BatchEventsCohere ==
  ASSUME Coherent(DOMAIN settlement), NEW d
  PROVE  BatchEvents(d) \subseteq DOMAIN settlement /\ Coherent(BatchEvents(d))
<1>1. \A k \in BatchEvents(d), j \in DOMAIN settlement :
        settlement[j].play = settlement[k].play => j \in BatchEvents(d)
  BY DEF BatchEvents
<1>2. BatchEvents(d) \subseteq DOMAIN settlement
  BY DEF BatchEvents
<1> HIDE DEF BatchEvents
<1>3. QED
  BY <1>1, <1>2 DEF Coherent

LEMMA OtherCommandsHold ==
  ASSUME FilesInv, RowsStay, NEW t \in Shells, shell'[t] = shell[t]
  PROVE  CommandHolds(t)'
<1>1. CommandHolds(t)
  BY DEF FilesInv
<1>2. PICK my : my = shell[t]
  OBVIOUS
<1>3. /\ Batched(my.id) => Batched(my.id)'
      /\ BatchEvents(my.id) \subseteq BatchEvents(my.id)'
  BY BatchStays
<1>4. BatchEvents(my.id) \subseteq DOMAIN settlement
  BY BatchEventsCohere DEF FilesInv
<1>5. At(t, "settle_write") => Coherent(my.seen)'
  BY <1>1, <1>2, <1>4, CoherentStays DEF CommandHolds
<1>6. QED
  BY <1>1, <1>2, <1>3, <1>5 DEF CommandHolds, At, RowsStay

LEMMA SettlementsCohere ==
  ASSUME IInv, FilesInv, NEW s \in Shells, Command(s)
  PROVE  Coherent(DOMAIN settlement)'
<1>1. CASE settlement' = settlement
  BY <1>1 DEF FilesInv, Coherent
<1>2. ASSUME NEW b \in batch, NEW n \in b.plays, NEW c \in 0 .. MaxSettlements,
             Settle(s, b, n, c)
      PROVE  Coherent(DOMAIN settlement)'
  <2> DEFINE row == [play |-> n, corrects |-> c]
             new == Len(settlement) + 1
  <2>1. settlement \in Seq(Settlement) /\ settlement' = Append(settlement, row)
    BY <1>2 DEF Settle, IInv, ReleaseTypeOK
  <2>2. row \in Settlement
    BY ReleaseAssumption DEF Settlement, IInv, ReleaseTypeOK, Batch
  <2>3. row.play = n /\ row.corrects = c
    OBVIOUS
  <2> HIDE DEF row
  <2>4. /\ DOMAIN settlement' = DOMAIN settlement \cup {new} /\ new \notin DOMAIN settlement
        /\ settlement'[new] = row
        /\ \A k \in DOMAIN settlement : settlement'[k] = settlement[k]
    BY <2>1, <2>2
  <2> HIDE DEF new
  <2>5. Coherent(DOMAIN settlement)
    BY DEF FilesInv
  <2>6. Admissible(n, c)
    BY <1>2 DEF Settle
  <2>7. CASE c = 0
    <3>1. \A k \in DOMAIN settlement : settlement[k].play # n
      BY <2>5, <2>6, <2>7 DEF Coherent, Admissible, PlayEvents
    <3>2. QED
      BY <2>3, <2>4, <2>5, <2>7, <3>1 DEF Coherent
  <2>8. CASE c # 0
    <3>1. c \in DOMAIN settlement /\ settlement[c].play = n
      BY <2>6, <2>8 DEF Admissible, PlayEvents
    <3>2. QED
      BY <2>3, <2>4, <2>5, <2>8, <3>1 DEF Coherent
  <2>9. QED
    BY <2>7, <2>8
<1>3. QED
  BY <1>1, <1>2, WhoWrites

LEMMA OwnCommandHolds ==
  ASSUME IInv, FilesInv, NEW s \in Shells, Command(s), RowsStay
  PROVE  CommandHolds(s)'
<1> USE DEF At
<1>1. CommandHolds(s) /\ shell[s] \in Shell
  BY DEF FilesInv, IInv, ReleaseTypeOK
<1>2. \A local : Enter(s, local) => shell'[s] = local
  BY DEF Enter, IInv, ReleaseTypeOK
<1>3. ASSUME shell'[s].at = "seal_read"
      PROVE  shell'[s].prediction \in sealed'
  <2>1. PICK e \in Events, content \in Evidence : Seal(s, e, content)
    BY <1>3, WhoEnters
  <2>2. PICK p : p = [event |-> e, evidence |-> content, features |-> features]
    OBVIOUS
  <2>3. p \in sealed' /\ Enter(s, [at |-> "seal_read", prediction |-> p])
    BY <2>1, <2>2 DEF Seal
  <2>4. shell'[s].prediction = p
    BY <1>2, <2>3
  <2>5. QED
    BY <2>3, <2>4
<1>4. ASSUME shell'[s].at = "seal_write"
      PROVE  shell'[s].prediction \in sealed' /\ shell'[s].seen \subseteq sealed'
  <2>1. SealRead(s)
    BY <1>4, WhoEnters
  <2>2. /\ shell'[s].prediction = shell[s].prediction /\ shell'[s].seen = sealedFile
        /\ sealed' = sealed
    BY <1>2, <2>1 DEF SealRead, predictions
  <2>3. QED
    BY <1>1, <2>1, <2>2 DEF SealRead, CommandHolds, FilesInv, ArtifactsFollowDatabase
<1>5. shell'[s].at = "results_read" => shell'[s].id \in policy'
  <2>1. EvaluatePolicy(s) => shell[s] \in EvaluateShell
    BY <1>1, ShellCases DEF EvaluatePolicy
  <2>2. EvaluatePolicy(s) => shell'[s].id = shell[s].id
    BY <1>2, <2>1 DEF EvaluatePolicy, EvaluateShell
  <2>3. QED
    BY <2>2, WhoEnters DEF EvaluatePolicy
<1>6. ASSUME shell'[s].at = "results_write"
      PROVE  shell'[s].id \in policy' /\ shell'[s].seen \subseteq policy'
  <2>1. EvaluateRead(s)
    BY <1>6, WhoEnters
  <2>2. shell'[s].id = shell[s].id /\ shell'[s].seen = results /\ policy' = policy
    BY <1>2, <2>1 DEF EvaluateRead, evaluations
  <2>3. QED
    BY <1>1, <2>1, <2>2 DEF EvaluateRead, CommandHolds, FilesInv, ArtifactsFollowDatabase
<1>7. ASSUME shell'[s].at = "package_card"
      PROVE  \E b \in batch' : b.draft = shell'[s].id
  <2>1. Publish(s)
    BY <1>7, WhoEnters
  <2>2. shell'[s].id = shell[s].draft
    BY <1>2, <2>1 DEF Publish
  <2>3. \E b \in batch' : b.draft = shell[s].draft
    <3>1. PICK b : b = [draft |-> shell[s].draft, approval |-> shell[s].id,
                        reviewer |-> shell[s].reviewer, plays |-> PlaysOf(s)]
      OBVIOUS
    <3>2. b \in batch'
      BY <2>1, <3>1 DEF Publish
    <3>3. QED
      BY <3>1, <3>2
  <2>4. QED
    BY <2>2, <2>3
<1>8. shell'[s].at = "package_ledger" => \E b \in batch' : b.draft = shell'[s].id
  <2>1. PackageCard(s) => shell[s] \in DraftShell
    BY <1>1, ShellCases DEF PackageCard
  <2>2. PackageCard(s) => shell'[s].id = shell[s].id /\ batch' = batch
    BY <1>2, <2>1 DEF PackageCard, DraftShell, reviews
  <2>3. QED
    BY <1>1, <2>2, WhoEnters DEF PackageCard, CommandHolds, Batched
<1>9. ASSUME shell'[s].at = "settle_read"
      PROVE  \E b \in batch' : b.draft = shell'[s].id
  <2>1. PICK b \in batch : \E n \in b.plays, c \in 0 .. MaxSettlements : Settle(s, b, n, c)
    BY <1>9, WhoEnters
  <2>2. shell'[s].id = b.draft /\ batch' = batch
    BY <1>2, <2>1 DEF Settle, reviews
  <2>3. QED
    BY <2>2
<1>10. ASSUME shell'[s].at = "settle_write"
       PROVE  /\ \E b \in batch' : b.draft = shell'[s].id
              /\ shell'[s].seen \subseteq BatchEvents(shell[s].id)'
              /\ Coherent(shell[s].seen)'
  <2>1. SettleRead(s)
    BY <1>10, WhoEnters
  <2>2. PICK d, seen : d = shell[s].id /\ seen = BatchEvents(d)
    OBVIOUS
  <2>3. shell'[s].id = d /\ shell'[s].seen = seen
    BY <1>2, <2>1, <2>2 DEF SettleRead
  <2>4. BatchEvents(d)' = seen
    BY <2>1, <2>2 DEF SettleRead, BatchEvents, reviews, settlements
  <2>5. Coherent(seen)'
    BY <2>2, BatchEventsCohere, CoherentStays DEF FilesInv
  <2>6. \E b \in batch' : b.draft = d
    BY <1>1, <2>1, <2>2 DEF SettleRead, CommandHolds, Batched, reviews
  <2>7. QED
    BY <2>3, <2>4, <2>5, <2>6
<1>11. QED
  BY <1>3, <1>4, <1>5, <1>6, <1>7, <1>8, <1>9, <1>10 DEF CommandHolds, Batched

LEMMA FilesKept ==
  ASSUME IInv, FilesInv, NEW s \in Shells, Command(s), RowsStay
  PROVE  ArtifactsFollowDatabase' /\ LedgerIsCoherent'
<1>1. CommandHolds(s) /\ ArtifactsFollowDatabase /\ LedgerIsCoherent
  BY DEF FilesInv
<1>2. sealedFile' \subseteq sealed'
  BY <1>1, WhoWrites DEF SealWrite, At, CommandHolds, ArtifactsFollowDatabase, RowsStay
<1>3. results' \subseteq policy'
  BY <1>1, WhoWrites DEF EvaluateWrite, At, CommandHolds, ArtifactsFollowDatabase, RowsStay
<1>4. card'.kind = "package" => \E b \in batch' : b.draft = card'.id
  <2>1. CASE card' = card
    BY <1>1, <2>1 DEF ArtifactsFollowDatabase, RowsStay, Batched
  <2>2. CASE DraftCard(s)
    BY <2>2 DEF DraftCard
  <2>3. CASE PackageCard(s)
    <3>1. card'.id = shell[s].id /\ batch' = batch
      BY <2>3 DEF PackageCard, reviews
    <3>2. \E b \in batch : b.draft = shell[s].id
      BY <1>1, <2>3 DEF PackageCard, At, CommandHolds, Batched
    <3>3. QED
      BY <3>1, <3>2
  <2>4. QED
    BY <2>1, <2>2, <2>3, WhoWrites
<1>5. PICK d, events : d = ledger'.draft /\ events = ledger'.events
  OBVIOUS
<1>6. events \subseteq BatchEvents(d)' /\ Coherent(events)'
  <2>1. CASE ledger' = ledger
    <3>1. events \subseteq BatchEvents(d) /\ Coherent(events)
      BY <1>1, <1>5, <2>1 DEF ArtifactsFollowDatabase, LedgerIsCoherent
    <3>2. BatchEvents(d) \subseteq DOMAIN settlement
      BY BatchEventsCohere DEF FilesInv
    <3>3. QED
      BY <3>1, <3>2, BatchStays, CoherentStays
  <2>2. CASE PackageLedger(s)
    BY <1>5, <2>2 DEF PackageLedger, Coherent
  <2>3. CASE SettleWrite(s)
    <3>1. d = shell[s].id /\ events = shell[s].seen
      BY <1>5, <2>3 DEF SettleWrite
    <3>2. events \subseteq BatchEvents(d) /\ Coherent(events)
      BY <1>1, <2>3, <3>1 DEF SettleWrite, CommandHolds, At
    <3>3. BatchEvents(d) \subseteq DOMAIN settlement
      BY BatchEventsCohere DEF FilesInv
    <3>4. QED
      BY <3>2, <3>3, BatchStays, CoherentStays
  <2>4. QED
    BY <2>1, <2>2, <2>3, WhoWrites
<1>7. QED
  BY <1>2, <1>3, <1>4, <1>5, <1>6 DEF ArtifactsFollowDatabase, LedgerIsCoherent, Batched

LEMMA FilesStep ==
  ASSUME IInv, FilesInv, NEW s \in Shells, Command(s)
  PROVE  FilesInv'
<1>1. RowsStay /\ OthersWait(s)
  BY RowsAreOnlyAdded
<1>2. \A t \in Shells : CommandHolds(t)'
  BY <1>1, OtherCommandsHold, OwnCommandHolds DEF OthersWait
<1>3. QED
  BY <1>1, <1>2, FilesKept, SettlementsCohere DEF FilesInv

-----------------------------------------------------------------------------
\* Plays are sound.

LEMMA DraftsStaySound ==
  ASSUME IInv, FilesInv, PlayInv, NEW s \in Shells, Command(s), RowsStay
  PROVE  DraftsAreSound'
<1>1. ASSUME NEW d \in DOMAIN draft, NEW e \in DOMAIN draft[d].item
      PROVE  LET n == draft[d].item[e]
             IN /\ n \in policy' /\ evaluation'[n].prediction \in sealed'
                /\ evaluation'[n].prediction.features = draft[d].features
  <2>1. draft[d].item[e] \in DOMAIN evaluation
    BY DEF IInv, References
  <2>2. QED
    BY <2>1 DEF PlayInv, DraftsAreSound, RowsStay
<1>2. CASE draft' = draft
  BY <1>1, <1>2 DEF DraftsAreSound
<1>3. CASE CreateDraft(s)
  <2>1. PICK item \in [EvaluatedEvents -> results] :
          /\ \A e \in EvaluatedEvents : IsLatest(item[e], e) /\ Draftable(item[e])
          /\ draft' = Append(draft, [canonical |-> canonical, features |-> features,
                                     item |-> item])
    BY <1>3 DEF CreateDraft
  <2> DEFINE row == [canonical |-> canonical, features |-> features, item |-> item]
             new == Len(draft) + 1
  <2>2. row.item = item /\ row.features = features
    OBVIOUS
  <2>3. draft \in Seq(Draft) /\ draft' = Append(draft, row)
    BY <2>1 DEF IInv, ReleaseTypeOK
  <2>4. draft' \in Seq(Draft)
    <3>1. IInv'
      BY <1>3, CreateDraftKeeps
    <3>2. QED
      BY <3>1 DEF IInv, ReleaseTypeOK
  <2> HIDE DEF row
  <2>5. /\ \A d \in DOMAIN draft' : d \in DOMAIN draft \/ d = new
        /\ draft'[new] = row
        /\ \A d \in DOMAIN draft : draft'[d] = draft[d]
    <3>1. draft \in Seq(Draft \cup {row})
      BY <2>3
    <3>2. QED
      BY <2>3, <3>1
  <2> HIDE DEF new
  <2>6. /\ evaluation' = evaluation /\ policy' = policy /\ sealed' = sealed
        /\ features' = features
    BY <1>3 DEF CreateDraft, sourceFiles, predictions, evaluations
  <2>7. \A e \in DOMAIN item :
          /\ item[e] \in policy /\ evaluation[item[e]].prediction \in sealed
          /\ evaluation[item[e]].prediction.features = features
    BY <2>1 DEF Draftable, FilesInv, ArtifactsFollowDatabase
  <2>8. ASSUME NEW d \in DOMAIN draft', NEW e \in DOMAIN draft'[d].item
        PROVE  LET n == draft'[d].item[e]
               IN /\ n \in policy' /\ evaluation'[n].prediction \in sealed'
                  /\ evaluation'[n].prediction.features = draft'[d].features
    <3>1. CASE d \in DOMAIN draft
      BY <1>1, <2>5, <3>1
    <3>2. CASE d = new
      BY <2>2, <2>5, <2>6, <2>7, <3>2
    <3>3. QED
      BY <2>5, <3>1, <3>2
  <2>9. QED
    BY <2>8 DEF DraftsAreSound
<1>4. QED
  BY <1>2, <1>3, WhoWrites

LEMMA PlaysStaySound ==
  ASSUME IInv, PlayInv, NEW s \in Shells, Command(s), RowsStay
  PROVE  PlayIsSound'
<1>1. ASSUME NEW b \in batch, NEW n \in b.plays
      PROVE  /\ n \in policy' /\ evaluation'[n].candidate
             /\ evaluation'[n].prediction \in sealed'
             /\ evaluation'[n].prediction.features = draft'[b.draft].features
             /\ \A c \in batch : n \in c.plays => c = b
  <2>1. n \in policy /\ policy \subseteq DOMAIN evaluation /\ b.draft \in DOMAIN draft
    BY DEF IInv, ReleaseTypeOK, References, PlayInv, PlayIsSound
  <2>2. QED
    BY <2>1 DEF PlayInv, PlayIsSound, RowsStay
<1>2. CASE batch' = batch
  BY <1>1, <1>2 DEF PlayIsSound
<1>3. CASE Publish(s)
  <2>1. PICK new : new = [draft |-> shell[s].draft, approval |-> shell[s].id,
                          reviewer |-> shell[s].reviewer, plays |-> PlaysOf(s)]
    OBVIOUS
  <2>2. batch' = batch \cup {new} /\ new.draft = shell[s].draft /\ new.plays = PlaysOf(s)
    BY <1>3, <2>1 DEF Publish
  <2>3. /\ shell[s].draft \in DOMAIN draft
        /\ DOMAIN shell[s].verdict = Candidates(shell[s].draft)
    BY <1>3 DEF Publish, IInv, ReviewInv, ReviewAtWork
  <2>4. /\ evaluation' = evaluation /\ policy' = policy /\ sealed' = sealed /\ draft' = draft
    BY <1>3 DEF Publish, predictions, evaluations
  <2>5. ASSUME NEW n \in new.plays
        PROVE  /\ n \in policy /\ evaluation[n].candidate
               /\ evaluation[n].prediction \in sealed
               /\ evaluation[n].prediction.features = draft[new.draft].features
    <3>1. PICK e \in Candidates(shell[s].draft) : n = draft[shell[s].draft].item[e]
      BY <2>2, <2>3 DEF PlaysOf
    <3>2. e \in DOMAIN draft[shell[s].draft].item /\ evaluation[n].candidate
      BY <3>1 DEF Candidates
    <3>3. QED
      BY <2>2, <2>3, <3>1, <3>2 DEF PlayInv, DraftsAreSound
  <2>6. \A n \in new.plays : \A c \in batch : n \notin c.plays
    BY <1>3, <2>2 DEF Publish, Publishable, Published
  <2>7. QED
    BY <1>1, <2>2, <2>4, <2>5, <2>6 DEF PlayIsSound
<1>4. QED
  BY <1>2, <1>3, WhoWrites

-----------------------------------------------------------------------------
\* Half-reviewed drafts are explained.

LEMMA FromDecide ==
  ASSUME NEW s \in Shells, At(s, "decide"), Command(s)
  PROVE  Decide(s) \/ Publish(s) \/ ApproveRefused(s) \/ Breaks(s)
BY DEF Command, At, Free, AssembleGames, AssembleFeatures, Seal, SealRead, SealWrite,
       EvaluateMarket, EvaluatePolicy, EvaluateRead, EvaluateWrite, CreateDraft, DraftCard,
       Approve, PackageCard, PackageLedger, Settle, SettleRead, SettleWrite

\* What Decide(s) records and leaves.
LEMMA WhatDecideDoes ==
  ASSUME IInv, NEW s \in Shells, Decide(s)
  PROVE  \E e, new :
           /\ e \in shell[s].left
           /\ decision' = decision \cup {new}
           /\ new.draft = shell[s].draft /\ new.approval = shell[s].id /\ new.event = e
           /\ shell'[s].at = "decide" /\ shell'[s].draft = shell[s].draft
           /\ shell'[s].id = shell[s].id /\ shell'[s].left = shell[s].left \ {e}
<1>1. PICK e \in shell[s].left : DecideEvent(s, e)
  BY DEF Decide
<1>2. PICK new : new = [draft |-> shell[s].draft, event |-> e, verdict |-> shell[s].verdict[e],
                        approval |-> shell[s].id, reviewer |-> shell[s].reviewer]
  OBVIOUS
<1>3. decision' = decision \cup {new} /\ Enter(s, [shell[s] EXCEPT !.left = @ \ {e}])
  BY <1>1, <1>2 DEF DecideEvent
<1>4. shell[s] \in DecideShell
  BY ShellCases DEF Decide, At, IInv, ReleaseTypeOK
<1>5. shell'[s] = [shell[s] EXCEPT !.left = @ \ {e}]
  BY <1>3 DEF Enter, IInv, ReleaseTypeOK
<1>6. /\ shell'[s].at = "decide" /\ shell'[s].draft = shell[s].draft
      /\ shell'[s].id = shell[s].id /\ shell'[s].left = shell[s].left \ {e}
  BY <1>4, <1>5 DEF DecideShell
<1>7. QED
  BY <1>2, <1>3, <1>6

LEMMA LeftStaysUndecided ==
  ASSUME IInv, ExplainedInv, NEW s \in Shells, Command(s), OthersWait(s), NEW t \in Shells
  PROVE  LeftUndecided(t)'
<1> USE DEF At
<1>1. CASE decision' = decision /\ t # s
  BY <1>1 DEF OthersWait, ExplainedInv, LeftUndecided
<1>2. CASE Decide(s)
  <2>1. PICK e, new :
           /\ e \in shell[s].left
           /\ decision' = decision \cup {new}
           /\ new.draft = shell[s].draft /\ new.approval = shell[s].id /\ new.event = e
           /\ shell'[s].at = "decide" /\ shell'[s].draft = shell[s].draft
           /\ shell'[s].id = shell[s].id /\ shell'[s].left = shell[s].left \ {e}
    BY <1>2, WhatDecideDoes
  <2>2. shell[s].at = "decide"
    BY <1>2 DEF Decide
  <2>3. CASE t = s
    BY <2>1, <2>2, <2>3 DEF ExplainedInv, LeftUndecided
  <2>4. CASE t # s
    <3>1. shell'[t] = shell[t] /\ (shell[t].at = "decide" => shell[t].id # shell[s].id)
      BY <2>2, <2>4 DEF OthersWait, IInv, ReviewInv, ReviewsApart
    <3>2. QED
      BY <2>1, <3>1 DEF ExplainedInv, LeftUndecided
  <2>5. QED
    BY <2>3, <2>4
<1>3. CASE t = s /\ \E reviewer \in Reviewers : Approve(s, reviewer)
  <2>1. decision' = decision /\ shell'[s].id = approvals + 1
    <3>1. \A local : Enter(s, local) => shell'[s] = local
      BY DEF Enter, IInv, ReleaseTypeOK
    <3>2. QED
      BY <1>3, <3>1 DEF Approve
  <2>2. \A x \in decision : x.approval # approvals + 1
    BY ReleaseAssumption DEF IInv, References, ReleaseTypeOK, Decision, ApprovalId
  <2>3. QED
    BY <1>3, <2>1, <2>2 DEF LeftUndecided
<1>4. CASE t = s /\ shell'[s].at # "decide"
  BY <1>4 DEF LeftUndecided
<1>5. QED
  BY <1>1, <1>2, <1>3, <1>4, WhoWrites, WhoEnters

(***************************************************************************)
(* A review that a constraint refuses has met another batch of its draft,  *)
(* or a play published already: nobody else decided its next candidate,    *)
(* if it decided anything at all.                                          *)
(***************************************************************************)
LEMMA RefusalIsExplained ==
  ASSUME IInv, ExplainedInv, NEW s \in Shells, ApproveRefused(s),
         NEW x \in decision, x.draft = shell[s].draft, x.approval = shell[s].id
  PROVE  \/ Batched(x.draft)
         \/ \E y \in Decided(x.draft) :
              y.verdict = "approved" /\ Published(draft[y.draft].item[y.event])
<1> DEFINE my == shell[s]
<1>1. At(s, "decide") /\ ReviewAtWork(s) /\ LeftUndecided(s)
  BY DEF ApproveRefused, IInv, ReviewInv, ExplainedInv
<1>2. my.left = {} /\ ~Publishable(s)
  <2>1. ASSUME NEW e \in my.left, ~Undecided(my.draft, e)
        PROVE  FALSE
    <3>1. PICK y \in decision : y.draft = my.draft /\ y.event = e
      BY <2>1 DEF Undecided, Decided
    <3>2. y.approval = my.id
      BY <3>1 DEF IInv, ReviewInv, ReviewIsWhole, OneReview
    <3>3. QED
      BY <1>1, <3>1, <3>2 DEF LeftUndecided
  <2>2. QED
    BY <2>1 DEF ApproveRefused
<1>3. ASSUME NEW e \in DOMAIN my.verdict, my.verdict[e] = "approved"
      PROVE  \E y \in Decided(my.draft) :
               y.event = e /\ y.verdict = "approved" /\ y.reviewer = my.reviewer
  <2>1. DecidedBy(my.id, my.draft, e)
    BY <1>1, <1>2 DEF ReviewAtWork
  <2>2. PICK y \in Decided(my.draft) : y.approval = my.id /\ y.event = e
    BY <2>1 DEF DecidedBy
  <2>3. y \in decision
    BY DEF Decided
  <2>4. QED
    BY <1>1, <1>3, <2>2, <2>3 DEF ReviewAtWork
<1>4. CASE \E b \in batch : b.draft = my.draft
  BY <1>4 DEF Batched
<1>5. CASE \E n \in PlaysOf(s) : Published(n)
  <2>1. PICK e \in DOMAIN my.verdict :
          my.verdict[e] = "approved" /\ Published(draft[my.draft].item[e])
    BY <1>5 DEF PlaysOf
  <2>2. PICK y \in Decided(my.draft) : y.event = e /\ y.verdict = "approved"
    BY <1>3, <2>1
  <2>3. y.draft = my.draft
    BY DEF Decided
  <2>4. QED
    BY <2>1, <2>2, <2>3
<1>6. QED
  BY <1>2, <1>3, <1>4, <1>5 DEF Publishable

LEMMA ExplanationStays ==
  ASSUME IInv, RowsStay, NEW x \in decision,
         \/ Batched(x.draft) \/ x.draft \in interrupted
         \/ \E y \in Decided(x.draft) :
              y.verdict = "approved" /\ Published(draft[y.draft].item[y.event])
  PROVE  Explained(x)'
<1>1. CASE Batched(x.draft)
  BY <1>1, BatchStays DEF Explained
<1>2. CASE x.draft \in interrupted
  BY <1>2 DEF Explained, RowsStay
<1>3. ASSUME NEW y \in Decided(x.draft), y.verdict = "approved",
             Published(draft[y.draft].item[y.event])
      PROVE  Explained(x)'
  <2>1. PICK n : n = draft[y.draft].item[y.event]
    OBVIOUS
  <2>2. Published(n)'
    BY <1>3, <2>1 DEF Published, RowsStay
  <2>3. y \in Decided(x.draft)' /\ y.draft \in DOMAIN draft
    BY DEF Decided, RowsStay, IInv, References
  <2>4. n = draft'[y.draft].item[y.event]
    BY <2>1, <2>3 DEF RowsStay
  <2>5. Published(draft[y.draft].item[y.event])'
    BY <2>2, <2>4
  <2>6. QED
    BY <1>3, <2>3, <2>5 DEF Explained
<1>4. QED
  BY <1>1, <1>2, <1>3

LEMMA DecisionsStayExplained ==
  ASSUME IInv, ExplainedInv, NEW s \in Shells, Command(s), RowsStay, OthersWait(s)
  PROVE  \A x \in decision' : Explained(x)'
<1>1. ASSUME NEW x \in decision,
             NEW t \in Shells, At(t, "decide"), shell[t].draft = x.draft,
             shell[t].id = x.approval
      PROVE  Explained(x)'
  <2>1. CASE t # s
    BY <1>1, <2>1 DEF OthersWait, Explained, At
  <2>2. CASE t = s /\ Decide(s)
    BY <1>1, <2>2, WhatDecideDoes DEF Explained, At
  <2>3. CASE t = s /\ Publish(s)
    <3>1. PICK b : b = [draft |-> shell[s].draft, approval |-> shell[s].id,
                        reviewer |-> shell[s].reviewer, plays |-> PlaysOf(s)]
      OBVIOUS
    <3>2. b \in batch' /\ b.draft = x.draft
      BY <1>1, <2>3, <3>1 DEF Publish
    <3>3. QED
      BY <3>2 DEF Explained, Batched
  <2>4. CASE t = s /\ ApproveRefused(s)
    BY <1>1, <2>4, RefusalIsExplained, ExplanationStays
  <2>5. CASE t = s /\ Breaks(s)
    BY <1>1, <2>5 DEF Breaks, Explained
  <2>6. QED
    BY <1>1, <2>1, <2>2, <2>3, <2>4, <2>5, FromDecide
<1>2. ASSUME NEW x \in decision
      PROVE  Explained(x)'
  <2>1. Explained(x)
    BY DEF ExplainedInv
  <2>2. QED
    BY <1>1, <2>1, ExplanationStays DEF Explained
<1>3. ASSUME Decide(s), NEW x \in decision' \ decision
      PROVE  Explained(x)'
  BY <1>3, WhatDecideDoes DEF Explained, At
<1>4. QED
  BY <1>2, <1>3, WhoWrites

-----------------------------------------------------------------------------
LEMMA InitStored == Init => StoredInv
<1> SUFFICES ASSUME Init PROVE StoredInv
  OBVIOUS
<1>1. FilesInv
  BY IdleIsShell
  DEF Init, FilesInv, CommandHolds, At, ArtifactsFollowDatabase, Coherent, LedgerIsCoherent
<1>2. PlayInv
  BY DEF Init, PlayInv, DraftsAreSound, PlayIsSound
<1>3. ExplainedInv
  BY IdleIsShell DEF Init, ExplainedInv, LeftUndecided, At
<1>4. QED
  BY <1>1, <1>2, <1>3 DEF StoredInv

LEMMA StoredStutter ==
  ASSUME StoredInv, UNCHANGED vars
  PROVE  StoredInv'
<1> USE DEF vars, sourceFiles, predictions, evaluations, reviews, settlements
<1>1. \A d : BatchEvents(d)' = BatchEvents(d) /\ Batched(d)' = Batched(d)
             /\ Decided(d)' = Decided(d) /\ Published(d)' = Published(d)
  BY DEF BatchEvents, Batched, Decided, Published
<1>2. \A events : Coherent(events)' = Coherent(events)
  BY DEF Coherent
<1>3. FilesInv'
  BY <1>1, <1>2 DEF StoredInv, FilesInv, CommandHolds, At, ArtifactsFollowDatabase, LedgerIsCoherent
<1>4. PlayInv'
  BY DEF StoredInv, PlayInv, DraftsAreSound, PlayIsSound
<1>5. ExplainedInv'
  BY <1>1 DEF StoredInv, ExplainedInv, Explained, LeftUndecided, At
<1>6. QED
  BY <1>3, <1>4, <1>5 DEF StoredInv

LEMMA StoredStep == IInv /\ StoredInv /\ [Next]_vars => StoredInv'
<1> SUFFICES ASSUME IInv, StoredInv, [Next]_vars PROVE StoredInv'
  OBVIOUS
<1>1. CASE UNCHANGED vars
  BY <1>1, StoredStutter
<1>2. ASSUME NEW s \in Shells, Command(s)
      PROVE  StoredInv'
  <2>1. RowsStay /\ OthersWait(s)
    BY <1>2, RowsAreOnlyAdded
  <2>2. FilesInv'
    BY <1>2, FilesStep DEF StoredInv
  <2>3. PlayInv'
    BY <1>2, <2>1, DraftsStaySound, PlaysStaySound DEF StoredInv, PlayInv
  <2>4. ExplainedInv'
    BY <1>2, <2>1, LeftStaysUndecided, DecisionsStayExplained DEF StoredInv, ExplainedInv
  <2>5. QED
    BY <2>2, <2>3, <2>4 DEF StoredInv
<1>3. QED
  BY <1>1, <1>2 DEF Next

(***************************************************************************)
(* What a command is about to write is stored already, a draft was made of *)
(* stored rows, and every decision is explained: the part of the invariant *)
(* that the theorems below read off, next to IInv.                         *)
(***************************************************************************)
THEOREM StoredInvariance == Spec => [](IInv /\ StoredInv)
<1>1. Init => IInv /\ StoredInv
  BY InitIInv, InitStored
<1>2. (IInv /\ StoredInv) /\ [Next]_vars => (IInv /\ StoredInv)'
  BY StepKeeps, StoredStep
<1>3. QED
  BY <1>1, <1>2, PTL DEF Spec

(***************************************************************************)
(* Whatever commands overlap or die between their transactions and their   *)
(* files, what a file shows as sealed, evaluated, published or settled is  *)
(* stored (sealed_predictions.json, candidate_policy_results.json,         *)
(* daily_card.json, results_ledger.json).                                  *)
(***************************************************************************)
THEOREM FilesFollowRows == Spec => []ArtifactsFollowDatabase
<1>1. StoredInv => ArtifactsFollowDatabase
  BY DEF StoredInv, FilesInv
<1>2. QED
  BY <1>1, StoredInvariance, PTL

(***************************************************************************)
(* A ledger shows each correction with the event it corrects and with the  *)
(* one original of its play, even a ledger that another settle overtook    *)
(* (settlement_correction_same_play, list_settlement_ledger).              *)
(***************************************************************************)
THEOREM LedgersCohere == Spec => []LedgerIsCoherent
<1>1. StoredInv => LedgerIsCoherent
  BY DEF StoredInv, FilesInv
<1>2. QED
  BY <1>1, StoredInvariance, PTL

(***************************************************************************)
(* A published play is a candidate on the features of its draft, and is    *)
(* published once, whatever was assembled, sealed or drafted in between    *)
(* (create_daily_card_draft, publication_plays).                           *)
(***************************************************************************)
THEOREM PlaysAreSound == Spec => []PlayIsSound
<1>1. StoredInv => PlayIsSound
  BY DEF StoredInv, PlayInv
<1>2. QED
  BY <1>1, StoredInvariance, PTL

(***************************************************************************)
(* A draft is left half reviewed only by a review still at work, one that  *)
(* broke, or one that approved a play already published (approve_draft).   *)
(***************************************************************************)
THEOREM HalfReviewsAreExplained == Spec => []HalfReviewedIsExplained
<1>1. StoredInv => HalfReviewedIsExplained
  BY DEF StoredInv, ExplainedInv, Explained, HalfReviewedIsExplained, UnderReview, Batched
<1>2. QED
  BY <1>1, StoredInvariance, PTL
=============================================================================
