------------------------ MODULE ReleaseWorkflowProps ------------------------
(***************************************************************************)
(* What a reader of a published card may rely on, with commands that       *)
(* overlap, that are refused halfway and that die between two steps.       *)
(***************************************************************************)
EXTENDS ReleaseWorkflow

(***************************************************************************)
(* The decisions on a draft come from one review, although two reviews of  *)
(* it may overlap and each decision is a transaction of its own; a batch   *)
(* exists only for a draft all of whose candidates that review decided,    *)
(* and its plays are exactly the approved ones (approve_draft).            *)
(***************************************************************************)
OneReview == \A x, y \in decision : x.draft = y.draft => x.approval = y.approval

BatchIsReview ==
  \A b \in batch :
    /\ {x.event : x \in Decided(b.draft)} = Candidates(b.draft)
    /\ \A x \in Decided(b.draft) : x.approval = b.approval /\ x.reviewer = b.reviewer
    /\ b.plays = {draft[b.draft].item[x.event] :
                    x \in {y \in Decided(b.draft) : y.verdict = "approved"}}

ReviewIsWhole == OneReview /\ BatchIsReview

(***************************************************************************)
(* A draft with decisions but no batch can never be published (its         *)
(* decisions cannot be recorded again): this happens only while its review *)
(* is at work, after that review broke, or when a play it approved was     *)
(* already published with another draft.                                   *)
(***************************************************************************)
UnderReview(d) == \E s \in Shells : At(s, "decide") /\ shell[s].draft = d

HalfReviewedIsExplained ==
  \A x \in decision :
    \/ \E b \in batch : b.draft = x.draft
    \/ UnderReview(x.draft)
    \/ x.draft \in interrupted
    \/ \E y \in Decided(x.draft) :
         y.verdict = "approved" /\ Published(draft[y.draft].item[y.event])

(***************************************************************************)
(* A published play is a candidate whose stored prediction was sealed on   *)
(* the feature record its draft names, and no evaluation is published      *)
(* twice, whatever was assembled, sealed or drafted in between             *)
(* (create_daily_card_draft, approve_daily_card, publication_plays).       *)
(***************************************************************************)
PlayIsSound ==
  \A b \in batch : \A n \in b.plays :
    /\ n \in policy /\ evaluation[n].candidate
    /\ evaluation[n].prediction \in sealed
    /\ evaluation[n].prediction.features = draft[b.draft].features
    /\ \A c \in batch : n \in c.plays => c = b

(***************************************************************************)
(* No artifact is ahead of the database: what a file shows as sealed,      *)
(* evaluated, drafted, published or settled is stored, although commands   *)
(* die between their transactions and their files.                         *)
(***************************************************************************)
Batched(d) == \E b \in batch : b.draft = d

ArtifactsFollowDatabase ==
  /\ sealedFile \subseteq sealed
  /\ results \subseteq policy
  /\ card.kind = "package" => Batched(card.id)
  /\ ledger.events \subseteq BatchEvents(ledger.draft)

(***************************************************************************)
(* The ledger shows, with every correction, the event it corrects, of the  *)
(* same play, and one original settlement per settled play: a reader can   *)
(* follow each result back, even from a ledger another settle overtook.    *)
(***************************************************************************)
Coherent(events) ==
  \A k \in events :
    /\ settlement[k].corrects # 0 =>
         /\ settlement[k].corrects \in events
         /\ settlement[settlement[k].corrects].play = settlement[k].play
    /\ \E o \in events :
         /\ settlement[o].play = settlement[k].play /\ settlement[o].corrects = 0
         /\ \A j \in events :
              settlement[j].play = settlement[k].play /\ settlement[j].corrects = 0 => j = o

LedgerIsCoherent == Coherent(ledger.events)

-----------------------------------------------------------------------------
(***************************************************************************)
(* What makes typing and ReviewIsWhole inductive.  References: every index *)
(* that a row, an artifact or a command holds is that of a row that        *)
(* exists, so rows added later change nothing about it.                    *)
(***************************************************************************)
ShellRefers(s) ==
  /\ At(s, "features") => shell[s].version <= assemblies
  /\ shell[s].at \in {"policy", "results_read", "results_write"} =>
       shell[s].id \in DOMAIN evaluation
  /\ At(s, "results_write") => shell[s].seen \subseteq DOMAIN evaluation
  /\ At(s, "draft_card") => shell[s].id \in DOMAIN draft

References ==
  /\ \A s \in Shells : ShellRefers(s)
  /\ \A d \in DOMAIN draft : \A e \in DOMAIN draft[d].item :
       draft[d].item[e] \in DOMAIN evaluation
  /\ card.kind = "draft" => card.id \in DOMAIN draft
  /\ \A x \in decision :
       x.draft \in DOMAIN draft /\ x.event \in Candidates(x.draft) /\ x.approval <= approvals
  /\ \A b \in batch : b.draft \in DOMAIN draft

(***************************************************************************)
(* A review at work has recorded its own verdicts on the candidates before *)
(* those it has left, under a number of its own.                           *)
(***************************************************************************)
DecidedBy(a, d, e) == \E x \in Decided(d) : x.approval = a /\ x.event = e

ReviewAtWork(s) ==
  LET my == shell[s]
  IN At(s, "decide") =>
       /\ my.id <= approvals
       /\ my.draft \in DOMAIN draft
       /\ DOMAIN my.verdict = Candidates(my.draft)
       /\ my.left \subseteq Candidates(my.draft)
       /\ \A e \in my.left, f \in Candidates(my.draft) : e <= f => f \in my.left
       /\ \A e \in Candidates(my.draft) : e \notin my.left => DecidedBy(my.id, my.draft, e)
       /\ \A x \in decision : x.approval = my.id =>
            x.reviewer = my.reviewer /\ x.verdict = my.verdict[x.event]

ReviewsApart ==
  \A s, t \in Shells : s # t /\ At(s, "decide") /\ At(t, "decide") => shell[s].id # shell[t].id

\* Candidates are decided in the order of the items, whoever decides them.
DecidedInOrder ==
  \A x \in decision : \A f \in Candidates(x.draft) :
    f < x.event => \E y \in Decided(x.draft) : y.event = f

ReviewInv ==
  /\ \A s \in Shells : ReviewAtWork(s)
  /\ ReviewsApart /\ DecidedInOrder /\ ReviewIsWhole

IInv == ReleaseTypeOK /\ References /\ ReviewInv

-----------------------------------------------------------------------------
(***************************************************************************)
(* What makes ArtifactsFollowDatabase and LedgerIsCoherent inductive: what *)
(* a command is about to write to a file is stored already, and all        *)
(* settlement events together are coherent.                                *)
(***************************************************************************)
CommandHolds(s) ==
  LET my == shell[s]
  IN /\ my.at \in {"seal_read", "seal_write"} => my.prediction \in sealed
     /\ At(s, "seal_write") => my.seen \subseteq sealed
     /\ my.at \in {"results_read", "results_write"} => my.id \in policy
     /\ At(s, "results_write") => my.seen \subseteq policy
     /\ my.at \in {"package_card", "package_ledger", "settle_read", "settle_write"} =>
          Batched(my.id)
     /\ At(s, "settle_write") => my.seen \subseteq BatchEvents(my.id) /\ Coherent(my.seen)

FilesInv ==
  /\ \A s \in Shells : CommandHolds(s)
  /\ ArtifactsFollowDatabase
  /\ Coherent(DOMAIN settlement) /\ LedgerIsCoherent

(***************************************************************************)
(* A draft was made of evaluations under the policy, of stored predictions *)
(* on the feature record the draft names.                                  *)
(***************************************************************************)
DraftsAreSound ==
  \A d \in DOMAIN draft : \A e \in DOMAIN draft[d].item :
    LET n == draft[d].item[e]
    IN /\ n \in policy /\ evaluation[n].prediction \in sealed
       /\ evaluation[n].prediction.features = draft[d].features

PlayInv == DraftsAreSound /\ PlayIsSound

(***************************************************************************)
(* A decision is explained by the very review that recorded it, as long as *)
(* that is at work, and a review has decided nothing that it has left.     *)
(***************************************************************************)
Explained(x) ==
  \/ Batched(x.draft)
  \/ \E s \in Shells : At(s, "decide") /\ shell[s].draft = x.draft /\ shell[s].id = x.approval
  \/ x.draft \in interrupted
  \/ \E y \in Decided(x.draft) :
       y.verdict = "approved" /\ Published(draft[y.draft].item[y.event])

LeftUndecided(s) ==
  At(s, "decide") => \A x \in decision : x.approval = shell[s].id => x.event \notin shell[s].left

ExplainedInv ==
  /\ \A x \in decision : Explained(x)
  /\ \A s \in Shells : LeftUndecided(s)

StoredInv == FilesInv /\ PlayInv /\ ExplainedInv
=============================================================================
