------------------------ MODULE StatsAcquisitionProofs ------------------------
(***************************************************************************)
(* Proofs about StatsAcquisition, for any number of processes, runs, days  *)
(* and faults: the watermark the runs share names evidence and never goes  *)
(* back, the owning run reports what its statistics run reports, and a     *)
(* completed run owns exactly the responses its checkpoints name; and at   *)
(* the end about FeatureSnapshots: feature rows stand on evidence.         *)
(*                                                                         *)
(* The inductive invariant.  TypeOK gives the sets.  Exclusive: the        *)
(* advisory lock leaves one executor to a run, and one process creates it, *)
(* until it has that lock.  OrderOK, MemoryOK and StatusOK are what a      *)
(* process may rely on between two transactions: its datasets follow the   *)
(* schedule, its schedule is the one retained, the days it counts as       *)
(* covered are recorded, its result is backed by them, its run has come as *)
(* far as it.  RunOK(r) is what a run's rows promise to the process that   *)
(* resumes it.  The counts of a run have an invariant of their own below.  *)
(***************************************************************************)
EXTENDS StatsAcquisition, FeatureSnapshots, WellFoundedInduction, FiniteSetTheorems, TLAPS

Completeness == [requested : Nat, latest : Nat, contiguous : Nat, partial : Nat]

Phases == {"idle"} \cup Creating \cup Executing

Process ==
  [at : Phases, run : Nat, key : Datasets, final : SUBSET Days,
   cancelled : SUBSET Days, covered : SUBSET Days, rejected : BOOLEAN, conflict : BOOLEAN,
   effective : 0 .. MaxDay, windows : Nat, expected : Nat, observed : Nat,
   result : Completeness, outcome : {"none"} \cup Success, spare : Nat]

Statuses == {"absent"} \cup Active \cup Terminal

\* The sets of the variables.
TypeOK ==
  /\ outer \in [Runs -> Statuses]
  /\ stats \in [Runs -> Statuses]
  /\ checkpoint \in [Runs -> [Datasets ->
       [status : {"absent", "running", "completed", "partial", "failed"},
        captures : Nat]]]
  /\ raw \in [Runs -> [Datasets \cup {Unowned} -> [rows : Nat, at : Nat]]]
  /\ finals \in [Runs -> SUBSET Days]
  /\ cancels \in [Runs -> SUBSET Days]
  /\ seenAt \in [Days -> [GameStatus -> Nat]]
  /\ statcast \in SUBSET Days
  /\ watermark \in [requested : Nat, observed : Nat, latest : Nat,
                    contiguous : Nat, partial : Nat, source : Nat]
  /\ clock \in Nat
  /\ proc \in [Executors -> Process]

\* Before the statistics row of its run exists.
Preparing == {"start_outer", "create_stats"}

\* One executor holds the lock of a run, and one process is creating it.
Exclusive ==
  \A e, f \in Executors :
    /\ Run(e) = Run(f)
    /\ \/ proc[e].at \in Executing /\ proc[f].at \in Executing
       \/ proc[e].at \in Creating /\ proc[f].at \in Creating
    => e = f

\* The dates a process or the watermark vouches for.
Backed(c) ==
  /\ {c.latest} \ {0} \subseteq statcast
  /\ {c.contiguous} \ {0} \subseteq statcast \cup Cancelled
  /\ c.latest < c.contiguous => c.contiguous \in Cancelled
  /\ c.latest <= c.requested
  /\ c.contiguous <= c.requested

\* The schedule has ended, one way or the other.
Scheduled(r) == checkpoint[r][Schedule].status \notin {"absent", "running"}

\* A process that works on a dataset opened its checkpoint, in order.
OrderOK(e) ==
  /\ proc[e].at = "idle" \/ proc[e].at \in Creating => proc[e].key = Schedule
  /\ proc[e].at \in {"collect", "persist", "complete"} => Mine(e).status \notin {"absent", "completed"}
  /\ proc[e].at \in Collecting /\ proc[e].key # Schedule => Scheduled(Run(e))
  /\ proc[e].at \in {"collect", "persist", "complete"} /\ proc[e].key = Schedule
       => \A k \in Datasets \ {Schedule} : checkpoint[Run(e)][k].status = "absent"

\* What a process holds in memory is what the run retained.
MemoryOK(e) ==
  /\ \/ proc[e].at \in {"persist", "complete"}
     \/ proc[e].at \in {"open", "collect"} /\ proc[e].key # Schedule
     => proc[e].final = finals[Run(e)] /\ proc[e].cancelled = cancels[Run(e)]
  /\ proc[e].at = "persist" /\ proc[e].key = Schedule
       => /\ raw[Run(e)][Schedule].at # 0
          /\ proc[e].cancelled \subseteq Scope(Asked(e)) \ proc[e].final
  /\ ~(proc[e].at = "persist" /\ proc[e].key = Schedule)
       => proc[e].cancelled \subseteq Cancelled
  /\ proc[e].at = "persist" =>
       proc[e].covered \ {DayOf(proc[e].key)} \subseteq statcast
  /\ proc[e].at # "persist" => proc[e].covered \subseteq statcast
  /\ proc[e].at = "advance" => Backed(proc[e].result)

\* Where a process is says how far its run has come.
StatusOK(e) ==
  /\ proc[e].at # "idle" => Run(e) \in Runs /\ outer[Run(e)] # "absent"
  /\ proc[e].at \in Preparing => stats[Run(e)] = "absent"
  /\ proc[e].at \in {"advance", "complete_stats", "complete_outer"} =>
       proc[e].outcome \in Success
  /\ proc[e].at = "complete_outer" => stats[Run(e)] = proc[e].outcome

\* A run has a statistics row only after its own, datasets follow the schedule,
\* a completed day stands on evidence of its game, and a completed schedule has
\* its cancelled games on record.
RunOK(r) ==
  /\ outer[r] = "absent" => stats[r] = "absent"
  /\ (\E k \in Datasets \ {Schedule} : checkpoint[r][k].status # "absent")
       => Scheduled(r)
  /\ \A k \in Datasets :
       /\ k > Aggregates
       /\ checkpoint[r][k].status = "completed"
       /\ DayOf(k) \in finals[r]
       => DayOf(k) \in statcast
  /\ checkpoint[r][Schedule].status = "completed" => cancels[r] \subseteq Cancelled

IInv ==
  /\ TypeOK
  /\ Exclusive
  /\ \A e \in Executors : OrderOK(e) /\ MemoryOK(e) /\ StatusOK(e)
  /\ \A r \in Runs : RunOK(r)
  /\ WatermarkIsBacked
  /\ OuterFollowsStats
-----------------------------------------------------------------------------
(* Dates. *)

LEMMA LeastExists ==
  ASSUME NEW S \in SUBSET Nat, S # {}
  PROVE  \E x \in S : \A y \in S : x <= y
<1>1. PICK x \in S : \A y \in S : ~(<<y, x>> \in OpToRel(<, Nat))
  BY NatLessThanWellFounded, WFMin
<1>2. ASSUME NEW y \in S
      PROVE  x <= y
  <2>1. <<y, x>> \notin OpToRel(<, Nat)
    BY <1>1
  <2>2. x \in Nat /\ y \in Nat
    OBVIOUS
  <2>3. ~(y < x)
    BY <2>1, <2>2 DEF OpToRel
  <2> QED  BY <2>2, <2>3
<1> QED  BY <1>2

LEMMA MinOfDays ==
  ASSUME NEW S \in SUBSET Nat, S # {}
  PROVE  Min(S) \in S /\ \A y \in S : Min(S) <= y
<1>1. \E x \in S : \A y \in S : x =< y
  BY LeastExists
<1> QED  BY <1>1 DEF Min

LEMMA MaxOfDays ==
  ASSUME NEW b \in Nat, NEW S \in SUBSET (0 .. b), S # {}
  PROVE  Max(S) \in S /\ \A y \in S : y <= Max(S)
<1> DEFINE T == {b - x : x \in S}
<1>1. T \in SUBSET Nat /\ T # {}
  <2>1. ASSUME NEW x \in S
        PROVE  b - x \in Nat
    OBVIOUS
  <2> QED  BY <2>1
<1>2. PICK t \in T : \A u \in T : t <= u
  BY <1>1, LeastExists
<1>3. PICK x \in S : t = b - x
  OBVIOUS
<1>4. ASSUME NEW y \in S
      PROVE  x >= y
  <2>1. b - y \in T
    OBVIOUS
  <2>2. b - x <= b - y
    BY <1>2, <1>3, <2>1
  <2> QED  BY <2>2
<1>5. Max(S) \in S /\ \A y \in S : Max(S) >= y
  BY <1>4 DEF Max
<1> QED  BY <1>5

LEMMA NewestDate ==
  ASSUME NEW S \in SUBSET (0 .. MaxDay)
  PROVE  /\ Newest(S) \in S \cup {0}
         /\ Newest(S) \in 0 .. MaxDay
         /\ \A d \in S : d <= Newest(S)
<1>1. MaxDay \in Nat
  BY BoundsAssumption
<1>2. CASE S = {}
  BY <1>1, <1>2 DEF Newest
<1>3. CASE S # {}
  <2>1. Max(S) \in S /\ \A y \in S : y <= Max(S)
    BY <1>1, <1>3, MaxOfDays
  <2> QED  BY <1>3, <2>1 DEF Newest
<1> QED  BY <1>2, <1>3

LEMMA EarliestDate ==
  ASSUME NEW S \in SUBSET Days
  PROVE  /\ Earliest(S) \in 0 .. MaxDay
         /\ Earliest(S) = 0 <=> S = {}
         /\ \A d \in S : Earliest(S) <= d
<1>1. S \in SUBSET Nat /\ MaxDay \in Nat
  BY BoundsAssumption DEF Days
<1>2. CASE S = {}
  BY <1>1, <1>2 DEF Earliest
<1>3. CASE S # {}
  <2>1. Min(S) \in S /\ \A y \in S : Min(S) <= y
    BY <1>1, <1>3, MinOfDays
  <2>2. Min(S) \in 1 .. MaxDay
    BY <2>1 DEF Days
  <2>3. Earliest(S) = Min(S)
    BY <1>3 DEF Earliest
  <2> QED  BY <1>1, <1>3, <2>1, <2>2, <2>3
<1> QED  BY <1>2, <1>3

\* Completeness judged by recorded days is backed: what comes before the first
\* missing day is valid or cancelled, and beyond the newest valid day cancelled.
LEMMA CompletenessBacked ==
  ASSUME NEW through \in Nat, NEW known \in SUBSET Days, NEW valid \in SUBSET Days,
         NEW cancelled \in SUBSET Days,
         valid \cap known \subseteq statcast, cancelled \subseteq Cancelled
  PROVE  LET c == CalculateCompleteness(through, known, valid, cancelled)
         IN  c \in Completeness /\ c.requested = through /\ Backed(c)
<1> DEFINE days == {d \in known : d <= through}
           missing == days \ (valid \cup cancelled)
           partial == Earliest(missing)
           before == {d \in days : partial = 0 \/ d < partial}
<1>1. days \in SUBSET Days /\ Days \in SUBSET (0 .. MaxDay) /\ MaxDay \in Nat
  <2>1. days \in SUBSET Days
    OBVIOUS
  <2> HIDE DEF days
  <2>2. MaxDay \in Nat
    BY BoundsAssumption
  <2>3. \A d \in Days : d \in 0 .. MaxDay
    BY <2>2 DEF Days
  <2> QED  BY <2>1, <2>2, <2>3
<1>2. /\ partial \in Nat
      /\ partial = 0 <=> missing = {}
      /\ \A d \in missing : partial <= d
  <2>1. missing \in SUBSET Days
    BY <1>1
  <2> HIDE DEF missing
  <2>2. Earliest(missing) \in 0 .. MaxDay
    BY <2>1, EarliestDate
  <2> QED  BY <2>1, <2>2, EarliestDate
<1>3. before \subseteq days \cap (valid \cup cancelled)
  <2>1. ASSUME NEW d \in before, d \notin valid \cup cancelled
        PROVE  FALSE
    <3>1. d \in missing /\ d \in Nat
      BY <2>1, <1>1
    <3>2. partial # 0 /\ partial <= d
      BY <3>1, <1>2
    <3>3. d < partial
      BY <2>1, <3>2
    <3> HIDE DEF partial, missing, days
    <3> QED  BY <1>2, <3>1, <3>2, <3>3
  <2> QED  BY <2>1
<1>4. /\ Newest(days \cap valid) \in (days \cap valid) \cup {0}
      /\ Newest(days \cap valid) \in 0 .. MaxDay
      /\ \A d \in days \cap valid : d <= Newest(days \cap valid)
  <2>1. days \cap valid \in SUBSET (0 .. MaxDay)
    BY <1>1
  <2> HIDE DEF days
  <2> QED  BY <2>1, NewestDate
<1>5. Newest(before) \in before \cup {0} /\ Newest(before) \in 0 .. MaxDay
  <2>1. before \in SUBSET (0 .. MaxDay)
    BY <1>1
  <2> HIDE DEF before
  <2> QED  BY <2>1, NewestDate
<1>6. CalculateCompleteness(through, known, valid, cancelled) =
        [requested |-> through, latest |-> Newest(days \cap valid),
         contiguous |-> Newest(before), partial |-> partial]
  BY DEF CalculateCompleteness
<1>7. Newest(days \cap valid) <= through /\ Newest(before) <= through
  <2>1. (\A d \in days : d <= through) /\ before \subseteq days
    OBVIOUS
  <2> HIDE DEF days, before
  <2> QED  BY <1>4, <1>5, <2>1
<1>8. {Newest(days \cap valid)} \ {0} \subseteq statcast
  <2>1. days \cap valid \subseteq statcast
    OBVIOUS
  <2> HIDE DEF before, days, partial
  <2> QED  BY <1>4, <2>1
<1>9. {Newest(before)} \ {0} \subseteq statcast \cup Cancelled
  <2>1. days \cap valid \subseteq statcast
    OBVIOUS
  <2> HIDE DEF before, days, partial
  <2> QED  BY <1>3, <1>5, <2>1
<1>10. Newest(days \cap valid) < Newest(before) => Newest(before) \in Cancelled
  <2> HIDE DEF before, days, partial
  <2>1. CASE Newest(before) \in days \cap valid
    BY <1>1, <1>4, <1>5, <2>1
  <2>2. CASE Newest(before) \notin days \cap valid
    <3>1. Newest(before) = 0 \/ Newest(before) \in cancelled
      BY <1>3, <1>5, <2>2
    <3>2. Newest(before) = 0 => ~(Newest(days \cap valid) < Newest(before))
      BY <1>1, <1>4
    <3>3. Newest(before) \in cancelled => Newest(before) \in Cancelled
      OBVIOUS
    <3> QED  BY <3>1, <3>2, <3>3
  <2> QED  BY <2>1, <2>2
<1> HIDE DEF before, days, missing, partial
<1>11. Newest(days \cap valid) \in Nat /\ Newest(before) \in Nat
  BY <1>1, <1>4, <1>5
<1> DEFINE c == [requested |-> through, latest |-> Newest(days \cap valid),
                 contiguous |-> Newest(before), partial |-> partial]
<1>12. c \in Completeness /\ c.requested = through /\ Backed(c)
  BY <1>2, <1>7, <1>8, <1>9, <1>10, <1>11 DEF Completeness, Backed
<1> QED  BY <1>6, <1>12

LEMMA LaterOfTwo ==
  ASSUME NEW a \in Nat, NEW b \in Nat
  PROVE  Later(a, b) \in {a, b} /\ a <= Later(a, b) /\ b <= Later(a, b)
BY DEF Later

\* The merged dates of a daily run are backed, its own and the shared ones alike.
LEMMA MergeBacked ==
  ASSUME TypeOK, WatermarkIsBacked, NEW through \in Nat, NEW complete \in Nat
  PROVE  /\ MergeDaily(through, complete) \in Completeness
         /\ Backed(MergeDaily(through, complete))
<1> DEFINE requested == Later(through, watermark.requested)
           season == CalculateCompleteness(requested, PersistedKnown,
                                           PersistedValid(complete),
                                           PersistedCancelled)
           before == {d \in {watermark.contiguous, season.contiguous} :
                        season.partial = 0 \/ d < season.partial}
<1>1. /\ watermark.requested \in Nat /\ watermark.latest \in Nat
      /\ watermark.contiguous \in Nat
      /\ watermark.latest < watermark.contiguous => watermark.contiguous \in Cancelled
      /\ watermark.latest <= watermark.requested
      /\ watermark.contiguous <= watermark.requested
      /\ {watermark.latest} \ {0} \subseteq statcast
      /\ {watermark.contiguous} \ {0} \subseteq statcast \cup Cancelled
      /\ statcast \subseteq Days /\ Cancelled \subseteq Days
  <2>1. Cancelled \subseteq Days
    BY DEF Cancelled
  <2> QED  BY <2>1 DEF TypeOK, WatermarkIsBacked
<1>2. requested \in Nat /\ watermark.requested <= requested
  BY <1>1, LaterOfTwo
<1>3. /\ PersistedKnown \in SUBSET Days
      /\ PersistedValid(complete) \in SUBSET Days
      /\ PersistedValid(complete) \cap PersistedKnown \subseteq statcast
      /\ PersistedCancelled \in SUBSET Days
  BY DEF PersistedKnown, PersistedValid, PersistedCancelled
<1>8. PersistedCancelled \subseteq Cancelled
  <2> SUFFICES ASSUME NEW d \in PersistedCancelled
               PROVE  d \in Cancelled
    OBVIOUS
  <2>1. /\ d \in Days /\ seenAt[d] \in [GameStatus -> Nat]
        /\ IsLatest(d, "cancelled")
    BY DEF TypeOK, PersistedCancelled, PersistedKnown
  <2>2. PICK t \in GameStatus : seenAt[d][t] # 0
    BY DEF PersistedCancelled, PersistedKnown
  <2>3. seenAt[d][t] <= seenAt[d]["cancelled"] /\ seenAt[d]["cancelled"] \in Nat
    BY <2>1 DEF IsLatest, GameStatus
  <2>4. seenAt[d]["cancelled"] # 0
    BY <2>1, <2>2, <2>3
  <2> QED  BY <2>1, <2>4 DEF Cancelled
<1>4. season \in Completeness /\ season.requested = requested /\ Backed(season)
  <2> HIDE DEF requested
  <2> QED  BY <1>2, <1>3, <1>8, CompletenessBacked
<1>5. MergeDaily(through, complete) =
        IF watermark.source = 0 THEN season
        ELSE [season EXCEPT !.latest = Later(@, watermark.latest),
                            !.contiguous = Newest(before)]
  BY DEF MergeDaily
<1> HIDE DEF season, requested
<1>6. CASE watermark.source = 0
  BY <1>4, <1>5, <1>6
<1>7. CASE watermark.source # 0
  <2> DEFINE latest == Later(season.latest, watermark.latest)
  <2>1. /\ season.latest \in Nat /\ season.contiguous \in Nat
        /\ season.latest < season.contiguous => season.contiguous \in Cancelled
        /\ season.latest <= requested /\ season.contiguous <= requested
        /\ {season.latest} \ {0} \subseteq statcast
        /\ {season.contiguous} \ {0} \subseteq statcast \cup Cancelled
    BY <1>4 DEF Backed, Completeness
  <2>2. /\ latest \in {season.latest, watermark.latest} /\ latest \in Nat
        /\ season.latest <= latest /\ watermark.latest <= latest
    BY <1>1, <2>1, LaterOfTwo
  <2>3. before \subseteq 0 .. MaxDay
    BY <1>1, <2>1, BoundsAssumption DEF Days
  <2>4. Newest(before) \in before \cup {0} /\ Newest(before) \in Nat
    <3> HIDE DEF before
    <3> QED  BY <2>3, BoundsAssumption, NewestDate
  <2>5. Newest(before) \in {watermark.contiguous, season.contiguous, 0}
    BY <2>4
  <2>6. latest < Newest(before) => Newest(before) \in Cancelled
    <3> HIDE DEF before, latest
    <3> QED  BY <1>1, <2>1, <2>2, <2>4, <2>5
  <2> DEFINE merged == [season EXCEPT !.latest = latest, !.contiguous = Newest(before)]
  <2>7. MergeDaily(through, complete) = merged
    BY <1>5, <1>7
  <2> HIDE DEF before, latest
  <2>8. /\ merged \in Completeness /\ merged.latest = latest
        /\ merged.contiguous = Newest(before) /\ merged.requested = requested
    BY <1>4, <2>2, <2>4 DEF Completeness
  <2> HIDE DEF merged
  <2>9. latest <= requested /\ Newest(before) <= requested
    BY <1>1, <1>2, <2>1, <2>2, <2>4, <2>5
  <2>10. /\ {latest} \ {0} \subseteq statcast
         /\ {Newest(before)} \ {0} \subseteq statcast \cup Cancelled
    BY <1>1, <2>1, <2>2, <2>5
  <2> QED  BY <2>6, <2>7, <2>8, <2>9, <2>10 DEF Backed
<1> QED  BY <1>6, <1>7

\* The watermark only moves forward, and to dates that are backed.
LEMMA AdvancedBacked ==
  ASSUME TypeOK, WatermarkIsBacked, NEW c \in Completeness, Backed(c),
         NEW observed \in Nat, NEW r \in Nat
  PROVE  LET w == Advanced(watermark, c, observed, r)
         IN  /\ w \in [requested : Nat, observed : Nat, latest : Nat,
                       contiguous : Nat, partial : Nat, source : Nat]
             /\ {w.latest} \ {0} \subseteq statcast
             /\ {w.contiguous} \ {0} \subseteq statcast \cup Cancelled
             /\ w.latest < w.contiguous => w.contiguous \in Cancelled
             /\ w.latest <= w.requested /\ w.contiguous <= w.requested
             /\ watermark.requested <= w.requested
             /\ watermark.observed <= w.observed
             /\ watermark.latest <= w.latest
             /\ watermark.contiguous <= w.contiguous
<1> DEFINE w == Advanced(watermark, c, observed, r)
<1>1. /\ watermark \in [requested : Nat, observed : Nat, latest : Nat,
                        contiguous : Nat, partial : Nat, source : Nat]
      /\ {watermark.latest} \ {0} \subseteq statcast
      /\ {watermark.contiguous} \ {0} \subseteq statcast \cup Cancelled
      /\ watermark.latest < watermark.contiguous => watermark.contiguous \in Cancelled
      /\ watermark.latest <= watermark.requested
      /\ watermark.contiguous <= watermark.requested
  BY DEF TypeOK, WatermarkIsBacked
<1>2. /\ watermark.requested \in Nat /\ watermark.observed \in Nat
      /\ watermark.latest \in Nat /\ watermark.contiguous \in Nat
  BY <1>1
<1>3. /\ c.requested \in Nat /\ c.latest \in Nat /\ c.contiguous \in Nat
      /\ c.partial \in Nat /\ c.latest <= c.requested /\ c.contiguous <= c.requested
      /\ {c.latest} \ {0} \subseteq statcast
      /\ {c.contiguous} \ {0} \subseteq statcast \cup Cancelled
      /\ c.latest < c.contiguous => c.contiguous \in Cancelled
  BY DEF Completeness, Backed
<1>4. CASE w = watermark
  BY <1>1, <1>2, <1>4
<1>5. CASE /\ c.requested >= watermark.requested
           /\ w = [requested |-> c.requested,
                   observed |-> Later(observed, watermark.observed),
                   latest |-> Later(c.latest, watermark.latest),
                   contiguous |-> Later(c.contiguous, watermark.contiguous),
                   partial |-> c.partial,
                   source |-> r]
  <2>1. /\ w.requested = c.requested
        /\ w.observed = Later(observed, watermark.observed)
        /\ w.latest = Later(c.latest, watermark.latest)
        /\ w.contiguous = Later(c.contiguous, watermark.contiguous)
        /\ w.partial = c.partial /\ w.source = r
    BY <1>5
  <2>2. /\ w.observed \in Nat /\ watermark.observed <= w.observed
    BY <1>2, <2>1, LaterOfTwo
  <2>3. /\ w.latest \in {c.latest, watermark.latest}
        /\ c.latest <= w.latest /\ watermark.latest <= w.latest
    BY <1>2, <1>3, <2>1, LaterOfTwo
  <2>4. /\ w.contiguous \in {c.contiguous, watermark.contiguous}
        /\ watermark.contiguous <= w.contiguous
    BY <1>2, <1>3, <2>1, LaterOfTwo
  <2>5. w \in [requested : Nat, observed : Nat, latest : Nat,
               contiguous : Nat, partial : Nat, source : Nat]
    BY <1>2, <1>3, <1>5, <2>1, <2>2, <2>3, <2>4
  <2> HIDE DEF w
  <2>6. /\ {w.latest} \ {0} \subseteq statcast
        /\ {w.contiguous} \ {0} \subseteq statcast \cup Cancelled
    BY <1>1, <1>3, <2>3, <2>4
  <2>7. /\ w.latest < w.contiguous => w.contiguous \in Cancelled
        /\ w.latest <= w.requested /\ w.contiguous <= w.requested
    BY <1>1, <1>2, <1>3, <1>5, <2>1, <2>3, <2>4
  <2>8. watermark.requested <= w.requested
    BY <1>2, <1>3, <1>5, <2>1
  <2> QED  BY <2>2, <2>3, <2>4, <2>5, <2>6, <2>7, <2>8 DEF w
<1>6. \/ w = watermark
      \/ /\ c.requested >= watermark.requested
         /\ w = [requested |-> c.requested,
                 observed |-> Later(observed, watermark.observed),
                 latest |-> Later(c.latest, watermark.latest),
                 contiguous |-> Later(c.contiguous, watermark.contiguous),
                 partial |-> c.partial,
                 source |-> r]
  BY <1>2, <1>3 DEF Advanced
<1> QED  BY <1>4, <1>5, <1>6

-----------------------------------------------------------------------------
(* Steps of a process. *)

\* A step of e leaves what the others are doing alone.
Moves(e) ==
  /\ proc' \in [Executors -> Process]
  /\ \A f \in Executors \ {e} : proc'[f] = proc[f]

\* The work in hand goes along to the next phase.
SameWork(e) ==
  /\ proc'[e].run = Run(e)
  /\ proc'[e].key = proc[e].key
  /\ proc'[e].final = proc[e].final
  /\ proc'[e].cancelled = proc[e].cancelled
  /\ proc'[e].covered = proc[e].covered
  /\ proc'[e].result = proc[e].result
  /\ proc'[e].outcome = proc[e].outcome

Request == [command : {"daily", "backfill"}, through : 1 .. MaxDay]

LEMMA Bounds ==
  /\ MaxDay \in Nat /\ MaxDay > 0 /\ MaxRuns \in Nat /\ MaxFaults \in Nat
  /\ Datasets = 0 .. MaxDay + 1 /\ Schedule \in Datasets /\ Aggregates \in Datasets
  /\ \A r \in Runs : RequestOf[r] \in Request
  /\ \A d \in Days : d \in 1 .. MaxDay
BY BoundsAssumption DEF Datasets, Schedule, Aggregates, Runs, Days, Request

LEMMA IdleTyped == Idle \in Process
<1>1. NoCompleteness \in Completeness
  BY DEF NoCompleteness, Completeness
<1>2. Schedule \in Datasets /\ 0 \in 0 .. MaxDay
  BY Bounds
<1> QED  BY <1>1, <1>2 DEF Idle, Process, Phases

LEMMA GotoMoves ==
  ASSUME TypeOK, NEW e \in Executors, NEW phase \in Phases, Goto(e, phase)
  PROVE  Moves(e) /\ SameWork(e) /\ proc'[e].at = phase
<1> DEFINE p == [proc[e] EXCEPT !.at = phase]
<1>1. proc[e] \in Process /\ proc \in [Executors -> Process]
  BY DEF TypeOK
<1>2. p \in Process /\ p.at = phase /\ p.run = Run(e) /\ p.key = proc[e].key
  BY <1>1 DEF Process, Run
<1>3. /\ p.final = proc[e].final /\ p.covered = proc[e].covered
      /\ p.cancelled = proc[e].cancelled
      /\ p.cancelled = proc[e].cancelled
      /\ p.result = proc[e].result /\ p.outcome = proc[e].outcome
  BY <1>1 DEF Process
<1>4. proc' = [proc EXCEPT ![e] = p]
  BY DEF Goto
<1> HIDE DEF p
<1> QED  BY <1>1, <1>2, <1>3, <1>4 DEF Moves, SameWork

LEMMA LeaveMoves ==
  ASSUME TypeOK, NEW e \in Executors, Leave(e)
  PROVE  Moves(e) /\ proc'[e] = Idle
BY IdleTyped DEF TypeOK, Leave, Moves

LEMMA RaiseMoves ==
  ASSUME TypeOK, NEW e \in Executors, NEW spare \in Nat, Raise(e, spare)
  PROVE  /\ Moves(e) /\ proc'[e].at = "fail_checkpoints"
         /\ proc'[e].run = Run(e) /\ proc'[e].covered = {}
      /\ proc'[e].cancelled = {}
<1> DEFINE p == [Idle EXCEPT !.at = "fail_checkpoints", !.run = Run(e),
                             !.spare = spare]
<1>1. proc[e] \in Process /\ Run(e) \in Nat /\ proc \in [Executors -> Process]
  BY DEF TypeOK, Process, Run
<1>2. p \in Process
  BY <1>1, IdleTyped DEF Process, Phases, Executing, Failing
<1>3. p.at = "fail_checkpoints" /\ p.run = Run(e) /\ p.covered = {}
      /\ p.cancelled = {}
  BY DEF Idle
<1>4. proc' = [proc EXCEPT ![e] = p]
  BY DEF Raise
<1> HIDE DEF p
<1> QED  BY <1>1, <1>2, <1>3, <1>4 DEF Moves

\* The next dataset is one of the season, and it is never the schedule again.
LEMMA FollowingTyped ==
  ASSUME NEW p \in Process, NEW q \in Request
  PROVE  Following(p, q) \in Datasets
<1> DEFINE last == IF q.command = "daily" THEN q.through ELSE p.effective
           first == IF q.command = "daily" THEN q.through ELSE 1
<1>1. /\ q.through \in 1 .. MaxDay /\ p.effective \in 0 .. MaxDay
      /\ p.key \in 0 .. MaxDay + 1 /\ MaxDay \in Nat /\ MaxDay > 0
      /\ Datasets = 0 .. MaxDay + 1
  BY Bounds DEF Process, Request
<1>2. last \in 0 .. MaxDay /\ first \in 1 .. MaxDay
  BY <1>1
<1>3. Following(p, q) =
        CASE p.key = Schedule -> Aggregates
          [] p.key = Aggregates /\ last # 0 -> StatcastDay(first)
          [] p.key > Aggregates /\ DayOf(p.key) < last -> p.key + 1
          [] OTHER -> Schedule
  BY DEF Following
<1> HIDE DEF first, last
<1>4. CASE p.key = 0
  BY <1>1, <1>3, <1>4 DEF Schedule, Aggregates
<1>5. CASE p.key = 1
  BY <1>1, <1>2, <1>3, <1>5 DEF Schedule, Aggregates, StatcastDay
<1>6. CASE p.key > 1
  <2>1. Following(p, q) \in {p.key + 1, 0} /\ (Following(p, q) = p.key + 1 => p.key - 1 < last \/ p.key + 1 = 0)
    BY <1>1, <1>3, <1>6 DEF Schedule, Aggregates, DayOf
  <2> QED  BY <1>1, <1>2, <1>6, <2>1
<1> QED  BY <1>1, <1>4, <1>5, <1>6

LEMMA AbsorbedTyped ==
  ASSUME NEW p \in Process, NEW q \in Request, NEW n \in Nat, NEW at \in Nat
  PROVE  LET next == Absorbed(p, q, n, at)
         IN  /\ next \in Process
             /\ next.run = p.run /\ next.final = p.final /\ next.covered = p.covered
             /\ next.cancelled = p.cancelled
             /\ \/ next.at = "evaluate" /\ next.key = Schedule
                \/ next.at = "open" /\ next.key # Schedule
<1> DEFINE key == Following(p, q)
           windows == IF p.key = Aggregates THEN n ELSE p.windows
           phase == IF key = Schedule THEN "evaluate" ELSE "open"
           j == [p EXCEPT !.expected = p.expected + n, !.windows = windows,
                          !.observed = Later(p.observed, at), !.key = key,
                          !.at = phase]
<1>1. Absorbed(p, q, n, at) = j
  BY DEF Absorbed
<1>2. key \in Datasets
  BY FollowingTyped
<1>3. /\ phase \in Phases
      /\ \/ phase = "evaluate" /\ key = Schedule
         \/ phase = "open" /\ key # Schedule
  BY DEF Phases, Executing, Collecting, Finishing
<1>4. windows \in Nat /\ p.expected + n \in Nat /\ Later(p.observed, at) \in Nat
  BY DEF Process, Later
<1> HIDE DEF key, windows, phase
<1>5. /\ j \in Process /\ j.at = phase /\ j.key = key
      /\ j.run = p.run /\ j.final = p.final /\ j.covered = p.covered
      /\ j.cancelled = p.cancelled
  BY <1>2, <1>3, <1>4 DEF Process
<1> HIDE DEF j
<1> QED  BY <1>1, <1>3, <1>5

-----------------------------------------------------------------------------
(* What a step of e may not take away from anybody else. *)

\* What the database knows of schedules is only added to.
Grows ==
  /\ Cancelled \subseteq Cancelled'
  /\ \A r \in Runs : raw[r][Schedule].at # 0 => raw'[r][Schedule].at # 0

LEMMA GrowsUnchanged ==
  ASSUME UNCHANGED <<seenAt, raw>>
  PROVE  Grows
BY DEF Grows, Cancelled

Frame(e) ==
  /\ Moves(e)
  /\ Grows
  /\ \A r \in Runs :
       \/ r = Run(e) /\ proc[e].at \in Executing
       \/ /\ finals'[r] = finals[r] /\ cancels'[r] = cancels[r]
          /\ \A k \in Datasets :
               /\ checkpoint[r][k].status = "absent"
                    => checkpoint'[r][k].status = "absent"
               /\ checkpoint[r][k].status # "completed"
                    => checkpoint'[r][k].status # "completed"
  /\ \A r \in Runs, k \in Datasets :
       checkpoint[r][k].status # "absent" => checkpoint'[r][k].status # "absent"
  /\ \A r \in Runs : Scheduled(r) => Scheduled(r)'
  /\ statcast \subseteq statcast'
  /\ \A r \in Runs :
       /\ outer[r] # "absent" => outer'[r] # "absent"
       /\ stats[r] \in Success => stats'[r] = stats[r]
       /\ stats[r] = "absent" => \/ stats'[r] = "absent"
                                 \/ r = Run(e) /\ proc[e].at \in Preparing

\* The lock, or the creation of a run, is taken only where nobody has it.
Claims(e) ==
  /\ proc'[e].at \in Executing =>
       \/ proc[e].at \in Executing /\ proc'[e].run = Run(e)
       \/ ~Locked(proc'[e].run)
  /\ proc'[e].at \in Creating =>
       \/ proc[e].at \in Creating /\ proc'[e].run = Run(e)
       \/ outer[proc'[e].run] = "absent" /\ proc'[e].run \in Runs

LEMMA ExclusiveKept ==
  ASSUME IInv, NEW e \in Executors, Moves(e), Claims(e)
  PROVE  Exclusive'
<1> SUFFICES ASSUME NEW f \in Executors, NEW g \in Executors, f # g,
                    proc'[f].run = proc'[g].run,
                    \/ proc'[f].at \in Executing /\ proc'[g].at \in Executing
                    \/ proc'[f].at \in Creating /\ proc'[g].at \in Creating
             PROVE  FALSE
  BY DEF Exclusive, Run
<1>1. /\ Exclusive
      /\ \A h \in Executors : proc[h].at # "idle" => outer[Run(h)] # "absent"
  BY DEF IInv, StatusOK
<1>2. CASE f # e /\ g # e
  BY <1>1, <1>2 DEF Exclusive, Moves, Run
<1>3. ASSUME NEW h \in Executors, h # e, proc'[h].run = proc'[e].run,
             \/ proc'[h].at \in Executing /\ proc'[e].at \in Executing
             \/ proc'[h].at \in Creating /\ proc'[e].at \in Creating
      PROVE  FALSE
  <2>1. proc'[h] = proc[h]
    BY <1>3 DEF Moves
  <2>2. CASE proc'[h].at \in Executing /\ proc'[e].at \in Executing
    <3>1. Locked(proc'[e].run)
      BY <1>3, <2>1, <2>2 DEF Locked, Run
    <3>2. proc[e].at \in Executing /\ proc'[e].run = Run(e)
      BY <2>2, <3>1 DEF Claims
    <3> QED  BY <1>1, <1>3, <2>1, <2>2, <3>2 DEF Exclusive, Run
  <2>3. CASE proc'[h].at \in Creating /\ proc'[e].at \in Creating
    <3>1. outer[Run(h)] # "absent"
      BY <1>1, <2>1, <2>3 DEF Creating
    <3>2. proc[e].at \in Creating /\ proc'[e].run = Run(e)
      BY <1>3, <2>1, <2>3, <3>1 DEF Claims, Run
    <3> QED  BY <1>1, <1>3, <2>1, <2>3, <3>2 DEF Exclusive, Run
  <2> QED  BY <1>3, <2>2, <2>3
<1> QED  BY <1>2, <1>3

\* The invariant of a process survives the steps of the others.
LEMMA OtherStays ==
  ASSUME IInv, NEW e \in Executors, Frame(e), NEW f \in Executors, f # e
  PROVE  OrderOK(f)' /\ MemoryOK(f)' /\ StatusOK(f)'
<1>1. proc'[f] = proc[f] /\ OrderOK(f) /\ MemoryOK(f) /\ StatusOK(f)
  BY DEF Frame, Moves, IInv
<1>2. proc[f] \in Process /\ Executing \cap (Creating \cup {"idle"}) = {}
  BY DEF IInv, TypeOK, Executing, Creating, Collecting, Finishing, Failing
<1>3. ASSUME proc[f].at \in Executing
      PROVE  /\ Run(f) \in Runs
             /\ finals'[Run(f)] = finals[Run(f)] /\ cancels'[Run(f)] = cancels[Run(f)]
             /\ \A k \in Datasets :
                  checkpoint[Run(f)][k].status = "absent"
                    <=> checkpoint'[Run(f)][k].status = "absent"
             /\ \A k \in Datasets :
                  checkpoint[Run(f)][k].status # "completed"
                    => checkpoint'[Run(f)][k].status # "completed"
             /\ raw[Run(f)][Schedule].at # 0 => raw'[Run(f)][Schedule].at # 0
             /\ Scheduled(Run(f)) => Scheduled(Run(f))'
  <2>1. Run(f) \in Runs
    BY <1>1, <1>2, <1>3 DEF StatusOK
  <2>2. ~(Run(f) = Run(e) /\ proc[e].at \in Executing)
    BY <1>3 DEF IInv, Exclusive
  <2> PICK r \in Runs : r = Run(f)
    BY <2>1
  <2>3. /\ finals'[r] = finals[r] /\ cancels'[r] = cancels[r]
        /\ raw[r][Schedule].at # 0 => raw'[r][Schedule].at # 0
        /\ \A k \in Datasets : checkpoint[r][k].status = "absent"
                                 => checkpoint'[r][k].status = "absent"
        /\ \A k \in Datasets : checkpoint[r][k].status # "completed"
                                 => checkpoint'[r][k].status # "completed"
        /\ \A k \in Datasets : checkpoint[r][k].status # "absent"
                                 => checkpoint'[r][k].status # "absent"
        /\ Scheduled(r) => Scheduled(r)'
    <3>1. r \in Runs /\ ~(r = Run(e) /\ proc[e].at \in Executing)
      BY <2>2
    <3>2. \A s \in Runs, k \in Datasets :
            checkpoint[s][k].status # "absent" => checkpoint'[s][k].status # "absent"
      BY DEF Frame
    <3>3. Scheduled(r) => Scheduled(r)'
      BY <3>1 DEF Frame
    <3>4. /\ finals'[r] = finals[r] /\ cancels'[r] = cancels[r]
          /\ \A k \in Datasets : checkpoint[r][k].status = "absent"
                                   => checkpoint'[r][k].status = "absent"
          /\ \A k \in Datasets : checkpoint[r][k].status # "completed"
                                   => checkpoint'[r][k].status # "completed"
      BY <3>1 DEF Frame
    <3>5. raw[r][Schedule].at # 0 => raw'[r][Schedule].at # 0
      BY <3>1 DEF Frame, Grows
    <3> QED  BY <3>1, <3>2, <3>3, <3>4, <3>5
  <2>4. /\ finals'[Run(f)] = finals[Run(f)] /\ cancels'[Run(f)] = cancels[Run(f)]
        /\ raw[Run(f)][Schedule].at # 0 => raw'[Run(f)][Schedule].at # 0
        /\ \A k \in Datasets : checkpoint[Run(f)][k].status = "absent"
                                   <=> checkpoint'[Run(f)][k].status = "absent"
        /\ \A k \in Datasets : checkpoint[Run(f)][k].status # "completed"
                                   => checkpoint'[Run(f)][k].status # "completed"
    BY <2>3
  <2>5. Scheduled(Run(f)) => Scheduled(Run(f))'
    <3>1. Run(f)' = Run(f)
      BY <1>1 DEF Run
    <3> QED  BY <2>3, <3>1 DEF Scheduled
  <2> QED  BY <2>1, <2>4, <2>5
<1>4. Collecting \subseteq Executing /\ proc[f].key \in Datasets
  BY <1>2 DEF Executing, Process
<1>5. OrderOK(f)'
  <2>1. CASE proc[f].at \in Executing
    <3>1. Run(f)' = Run(f)
      BY <1>1 DEF Run
    <3> QED  BY <1>1, <1>2, <1>3, <1>4, <2>1, <3>1 DEF OrderOK, Mine, Scheduled
  <2>2. CASE proc[f].at \notin Executing
    BY <1>1, <1>4, <2>2 DEF OrderOK, Executing, Collecting
  <2> QED  BY <2>1, <2>2
<1>6. MemoryOK(f)'
  <2>1. statcast \subseteq statcast' /\ Cancelled \subseteq Cancelled'
    BY DEF Frame, Grows
  <2>2. Run(f)' = Run(f)
    BY <1>1 DEF Run
  <2>3. proc[f].at \in {"persist", "complete", "open", "collect"} =>
          /\ finals'[Run(f)] = finals[Run(f)] /\ cancels'[Run(f)] = cancels[Run(f)]
          /\ raw[Run(f)][Schedule].at # 0 => raw'[Run(f)][Schedule].at # 0
    BY <1>3, <1>4 DEF Collecting
  <2>4. Asked(f)' = Asked(f)
    BY <2>2 DEF Asked
  <2>5. proc[f].at = "advance" => (Backed(proc[f].result))'
    BY <1>1, <2>1 DEF MemoryOK, Backed
  <2> QED  BY <1>1, <2>1, <2>2, <2>3, <2>4, <2>5 DEF MemoryOK
<1>7. StatusOK(f)'
  <2>1. Run(f)' = Run(f)
    BY <1>1 DEF Run
  <2>2. proc[f].at # "idle" => Run(f) \in Runs /\ outer[Run(f)] # "absent"
    BY <1>1 DEF StatusOK
  <2>3. proc[f].at \in Preparing => stats'[Run(f)] = "absent"
    <3>1. SUFFICES ASSUME proc[f].at \in Preparing PROVE stats'[Run(f)] = "absent"
      OBVIOUS
    <3>2. stats[Run(f)] = "absent" /\ Run(f) \in Runs
      BY <1>1, <2>2, <3>1 DEF StatusOK, Preparing
    <3>3. ~(Run(f) = Run(e) /\ proc[e].at \in Preparing)
      BY <3>1 DEF IInv, Exclusive, Preparing, Creating
    <3> QED  BY <3>2, <3>3 DEF Frame
  <2>4. proc[f].at = "complete_outer" => stats'[Run(f)] = proc[f].outcome
    <3>1. SUFFICES ASSUME proc[f].at = "complete_outer"
                   PROVE  stats'[Run(f)] = proc[f].outcome
      OBVIOUS
    <3>2. /\ stats[Run(f)] = proc[f].outcome /\ proc[f].outcome \in Success
          /\ Run(f) \in Runs
      BY <1>1, <3>1 DEF StatusOK
    <3>3. stats'[Run(f)] = stats[Run(f)]
      BY <3>2 DEF Frame
    <3> QED  BY <3>2, <3>3
  <2>5. Run(f) \in Runs /\ outer[Run(f)] # "absent" => outer'[Run(f)] # "absent"
    BY DEF Frame
  <2> QED  BY <1>1, <2>1, <2>2, <2>3, <2>4, <2>5 DEF StatusOK
<1> QED  BY <1>5, <1>6, <1>7

\* A step of e keeps the invariant if it keeps e's part and takes nothing away.
LEMMA StepKeeps ==
  ASSUME IInv, NEW e \in Executors, Frame(e), Claims(e), TypeOK',
         OrderOK(e)', MemoryOK(e)', StatusOK(e)',
         \A r \in Runs : RunOK(r)', WatermarkIsBacked', OuterFollowsStats'
  PROVE  IInv'
<1>1. Exclusive'
  BY ExclusiveKept DEF Frame
<1>2. \A f \in Executors : OrderOK(f)' /\ MemoryOK(f)' /\ StatusOK(f)'
  BY OtherStays
<1> QED  BY <1>1, <1>2 DEF IInv

\* Checkpoints at most end, evidence is only added.
RowsKept ==
  /\ \A r \in Runs, k \in Datasets :
       checkpoint'[r][k] \in {checkpoint[r][k], Ended(checkpoint[r][k])}
  /\ finals' = finals /\ cancels' = cancels
  /\ statcast \subseteq statcast' /\ Grows

LEMMA RunKept ==
  ASSUME IInv, RowsKept, NEW r \in Runs, outer'[r] = "absent" => stats'[r] = "absent"
  PROVE  /\ RunOK(r)'
         /\ Scheduled(r) => Scheduled(r)'
         /\ \A k \in Datasets : checkpoint[r][k].status = "absent"
                                  <=> checkpoint'[r][k].status = "absent"
         /\ \A k \in Datasets : checkpoint[r][k].status = "completed"
                                  <=> checkpoint'[r][k].status = "completed"
<1>1. /\ \A k \in Datasets : checkpoint'[r][k] \in {checkpoint[r][k], Ended(checkpoint[r][k])}
      /\ finals' = finals /\ statcast \subseteq statcast' /\ RunOK(r)
      /\ cancels' = cancels /\ Cancelled \subseteq Cancelled'
  BY DEF RowsKept, IInv, Grows
<1>2. \A k \in Datasets : checkpoint[r][k] \in
        [status : {"absent", "running", "completed", "partial", "failed"}, captures : Nat]
  BY DEF IInv, TypeOK
<1>3. \A k \in Datasets : \/ checkpoint'[r][k].status = checkpoint[r][k].status
                          \/ /\ checkpoint[r][k].status = "running"
                             /\ checkpoint'[r][k].status = "failed"
  <2> TAKE k \in Datasets
  <2>1. \/ Ended(checkpoint[r][k]).status = checkpoint[r][k].status
        \/ /\ checkpoint[r][k].status = "running"
           /\ Ended(checkpoint[r][k]).status = "failed"
    BY <1>2 DEF Ended
  <2> QED  BY <1>1, <2>1
<1>4. Schedule \in Datasets
  BY Bounds
<1>5. Scheduled(r) => Scheduled(r)'
  BY <1>3, <1>4 DEF Scheduled
<1>6. RunOK(r)'
  <2>1. (\E k \in Datasets \ {Schedule} : checkpoint'[r][k].status # "absent")
          => Scheduled(r)'
    BY <1>1, <1>3, <1>5 DEF RunOK
  <2>2. \A k \in Datasets :
          /\ k > Aggregates
          /\ checkpoint'[r][k].status = "completed"
          /\ DayOf(k) \in finals'[r]
          => DayOf(k) \in statcast'
    BY <1>1, <1>3 DEF RunOK
  <2>3. checkpoint'[r][Schedule].status = "completed" => cancels'[r] \subseteq Cancelled'
    BY <1>1, <1>3, <1>4 DEF RunOK
  <2> QED  BY <2>1, <2>2, <2>3 DEF RunOK
<1> QED  BY <1>3, <1>5, <1>6

\* Statuses change where they may: a success is final, a row follows its run.
StatusesKept(e) ==
  \A r \in Runs :
    /\ outer[r] # "absent" => outer'[r] # "absent"
    /\ outer'[r] = "absent" => stats'[r] = "absent"
    /\ stats[r] \in Success => stats'[r] = stats[r]
    /\ stats[r] = "absent" => \/ stats'[r] = "absent"
                              \/ r = Run(e) /\ proc[e].at \in Preparing

\* A step that leaves the rows of the runs' datasets as they are.
LEMMA RowStepKeeps ==
  ASSUME IInv, NEW e \in Executors, Moves(e), Claims(e), TypeOK', RowsKept,
         OrderOK(e)', MemoryOK(e)', StatusOK(e)',
         StatusesKept(e),
         WatermarkIsBacked', OuterFollowsStats'
  PROVE  IInv'
<1>1. \A r \in Runs : /\ RunOK(r)'
                      /\ Scheduled(r) => Scheduled(r)'
                      /\ \A k \in Datasets : checkpoint[r][k].status = "absent"
                                               <=> checkpoint'[r][k].status = "absent"
                      /\ \A k \in Datasets : checkpoint[r][k].status = "completed"
                                               <=> checkpoint'[r][k].status = "completed"
  BY RunKept DEF StatusesKept
<1>2. Frame(e)
  BY <1>1 DEF Frame, RowsKept, StatusesKept
<1> QED  BY <1>1, <1>2, StepKeeps

-----------------------------------------------------------------------------
(* Phases in which little is left to be relied on. *)

LEMMA QuietOK ==
  ASSUME NEW e \in Executors,
         proc'[e].at \in Failing \cup {"idle", "evaluate", "complete_stats"},
         proc'[e].at = "idle" => proc'[e].key = Schedule,
         proc'[e].covered \subseteq statcast',
         proc'[e].cancelled \subseteq Cancelled',
         proc'[e].at # "idle" => /\ proc'[e].run \in Runs
                                 /\ outer'[proc'[e].run] # "absent",
         proc'[e].at = "complete_stats" => proc'[e].outcome \in Success
  PROVE  OrderOK(e)' /\ MemoryOK(e)' /\ StatusOK(e)'
<1>1. OrderOK(e)'
  BY DEF OrderOK, Failing, Collecting, Creating
<1>2. MemoryOK(e)'
  BY DEF MemoryOK, Failing
<1>3. StatusOK(e)'
  BY DEF StatusOK, Failing, Preparing, Run
<1> QED  BY <1>1, <1>2, <1>3

\* A process may stop at any time.
LEMMA LeaveKeeps ==
  ASSUME IInv, NEW e \in Executors, Leave(e), TypeOK', RowsKept, StatusesKept(e),
         WatermarkIsBacked', OuterFollowsStats'
  PROVE  IInv'
<1>1. Moves(e) /\ proc'[e] = Idle
  BY LeaveMoves DEF IInv
<1>2. /\ proc'[e].at = "idle" /\ proc'[e].key = Schedule /\ proc'[e].covered = {}
      /\ proc'[e].cancelled = {}
  BY <1>1 DEF Idle
<1>3. OrderOK(e)' /\ MemoryOK(e)' /\ StatusOK(e)'
  BY <1>2, QuietOK
<1>4. Claims(e)
  BY <1>2 DEF Claims, Executing, Collecting, Finishing, Failing, Preparing, Creating
<1> QED  BY <1>1, <1>3, <1>4, RowStepKeeps

\* An executor may fail at any time.
LEMMA RaiseKeeps ==
  ASSUME IInv, NEW e \in Executors, NEW spare \in Nat, Raise(e, spare),
         proc[e].at \in Executing, TypeOK', RowsKept, StatusesKept(e),
         WatermarkIsBacked', OuterFollowsStats'
  PROVE  IInv'
<1>1. /\ Moves(e) /\ proc'[e].at = "fail_checkpoints"
      /\ proc'[e].run = Run(e) /\ proc'[e].covered = {}
      /\ proc'[e].cancelled = {}
  BY RaiseMoves DEF IInv
<1>2. Run(e) \in Runs /\ outer[Run(e)] # "absent"
  BY DEF IInv, StatusOK, Executing, Collecting, Finishing, Failing
<1>3. outer'[Run(e)] # "absent"
  BY <1>2 DEF StatusesKept
<1>4. OrderOK(e)' /\ MemoryOK(e)' /\ StatusOK(e)'
  BY <1>1, <1>2, <1>3, QuietOK DEF Failing
<1>5. Claims(e)
  BY <1>1 DEF Claims, Preparing, Creating
<1> QED  BY <1>1, <1>4, <1>5, RowStepKeeps

\* Nothing but the processes changes.
LEMMA DatabaseKept ==
  ASSUME IInv, NEW e \in Executors, UNCHANGED database
  PROVE  RowsKept /\ StatusesKept(e) /\ WatermarkIsBacked' /\ OuterFollowsStats'
<1>1. /\ outer' = outer /\ stats' = stats /\ checkpoint' = checkpoint
      /\ finals' = finals /\ statcast' = statcast /\ watermark' = watermark
      /\ cancels' = cancels /\ Grows /\ Cancelled' = Cancelled
  BY GrowsUnchanged DEF database, Cancelled
<1>2. WatermarkIsBacked /\ OuterFollowsStats /\ \A r \in Runs : RunOK(r)
  BY DEF IInv
<1>3. RowsKept
  BY <1>1 DEF RowsKept
<1>4. StatusesKept(e)
  BY <1>1, <1>2 DEF StatusesKept, RunOK
<1> QED  BY <1>1, <1>2, <1>3, <1>4 DEF WatermarkIsBacked, Cancelled, OuterFollowsStats

-----------------------------------------------------------------------------
(* The start of a run. *)

\* Terminal runs have their checkpoints ended, no more.
LEMMA RepairedRows ==
  ASSUME TypeOK
  PROVE  /\ Repaired \in [Runs -> [Datasets ->
              [status : {"absent", "running", "completed", "partial", "failed"},
               captures : Nat]]]
         /\ \A r \in Runs, k \in Datasets :
              Repaired[r][k] \in {checkpoint[r][k], Ended(checkpoint[r][k])}
<1> DEFINE Row == [status : {"absent", "running", "completed", "partial", "failed"},
                   captures : Nat]
<1>1. checkpoint \in [Runs -> [Datasets -> Row]]
  BY DEF TypeOK
<1>2. ASSUME NEW c \in Row
      PROVE  Ended(c) \in Row
  BY DEF Ended
<1>3. ASSUME NEW r \in Runs
      PROVE  /\ Repaired[r] \in [Datasets -> Row]
             /\ \A k \in Datasets :
                  Repaired[r][k] \in {checkpoint[r][k], Ended(checkpoint[r][k])}
  <2>1. CASE stats[r] \in Terminal
    <3>1. Repaired[r] = [k \in Datasets |-> Ended(checkpoint[r][k])]
      BY <2>1 DEF Repaired
    <3>2. \A k \in Datasets : checkpoint[r][k] \in Row
      BY <1>1
    <3> HIDE DEF Row
    <3> QED  BY <1>2, <3>1, <3>2
  <2>2. CASE stats[r] \notin Terminal
    BY <1>1, <2>2 DEF Repaired
  <2> QED  BY <2>1, <2>2
<1>4. Repaired = [r \in Runs |-> Repaired[r]]
  BY DEF Repaired
<1> QED  BY <1>3, <1>4

LEMMA CreateRunKeeps ==
  ASSUME IInv, NEW e \in Executors, CreateRun(e)
  PROVE  IInv'
<1>1. PICK r \in Runs :
        /\ outer[r] = "absent"
        /\ outer' = [outer EXCEPT ![r] = "queued"]
        /\ proc' = [proc EXCEPT ![e].at = "start_outer", ![e].run = r]
  BY DEF CreateRun
<1>2. /\ At(e, "idle") /\ checkpoint' = Repaired
      /\ UNCHANGED <<stats, raw, finals, cancels, seenAt, statcast, watermark, clock, faults>>
  BY DEF CreateRun
<1>3. TypeOK /\ WatermarkIsBacked /\ OuterFollowsStats /\ RunOK(r)
  BY DEF IInv
<1> DEFINE p == [proc[e] EXCEPT !.at = "start_outer", !.run = r]
<1>4. /\ proc[e] \in Process /\ proc \in [Executors -> Process]
      /\ r \in Nat /\ MemoryOK(e) /\ OrderOK(e) /\ proc[e].at = "idle"
  BY <1>2, Bounds DEF IInv, TypeOK, Runs, At
<1>5. /\ p \in Process /\ p.at = "start_outer" /\ p.run = r /\ p.key = proc[e].key
      /\ p.covered = proc[e].covered
      /\ p.cancelled = proc[e].cancelled
  BY <1>4 DEF Process, Phases, Creating
<1>6. proc' = [proc EXCEPT ![e] = p]
  BY <1>1
<1> HIDE DEF p
<1>7. Moves(e) /\ proc'[e] = p
  BY <1>4, <1>5, <1>6 DEF Moves
<1>8. TypeOK'
  BY <1>1, <1>2, <1>3, <1>7, RepairedRows DEF TypeOK, Moves, Statuses, Active
<1>9. Claims(e)
  BY <1>1, <1>5, <1>7 DEF Claims, Executing, Collecting, Finishing, Failing
<1>10. RowsKept
  BY <1>2, <1>3, RepairedRows, GrowsUnchanged DEF RowsKept
<1>11. stats[r] = "absent" /\ outer' \in [Runs -> Statuses] /\ outer \in [Runs -> Statuses]
  BY <1>1, <1>3, <1>8 DEF RunOK, TypeOK
<1>12. StatusesKept(e)
  BY <1>1, <1>2, <1>11 DEF StatusesKept, IInv, RunOK
<1>13. OrderOK(e)' /\ MemoryOK(e)'
  BY <1>2, <1>4, <1>5, <1>7 DEF Cancelled, OrderOK, MemoryOK, Creating, Collecting
<1>14. StatusOK(e)'
  BY <1>1, <1>2, <1>5, <1>7, <1>11 DEF StatusOK, Run
<1>15. WatermarkIsBacked' /\ OuterFollowsStats'
  BY <1>1, <1>2, <1>3, <1>11 DEF WatermarkIsBacked, Cancelled, OuterFollowsStats, Success
<1> QED  BY <1>7, <1>8, <1>9, <1>10, <1>12, <1>13, <1>14, <1>15, RowStepKeeps

LEMMA RowsUnchanged ==
  ASSUME IInv, UNCHANGED <<checkpoint, finals, cancels, statcast, watermark>>, Grows
  PROVE  RowsKept /\ WatermarkIsBacked'
BY DEF IInv, RowsKept, WatermarkIsBacked, Cancelled, Grows

\* A process that is not idle works on a run that exists.
LEMMA ExecutorsWork ==
  ASSUME IInv, NEW e \in Executors, proc[e].at # "idle"
  PROVE  /\ Run(e) \in Runs /\ outer[Run(e)] # "absent"
         /\ proc[e] \in Process /\ proc[e].key \in Datasets
         /\ OrderOK(e) /\ MemoryOK(e) /\ StatusOK(e)
BY DEF IInv, StatusOK, TypeOK, Process

LEMMA StartOuterKeeps ==
  ASSUME IInv, NEW e \in Executors, StartOuter(e)
  PROVE  IInv'
<1>1. /\ At(e, "start_outer")
      /\ UNCHANGED <<stats, checkpoint, raw, finals, cancels, seenAt, statcast,
                     watermark, clock, faults>>
  BY DEF StartOuter
<1>2. PICK r \in Runs : r = Run(e)
  BY <1>1, ExecutorsWork DEF At
<1>3. /\ TypeOK /\ OuterFollowsStats /\ RunOK(r) /\ RowsKept /\ WatermarkIsBacked'
      /\ \A s \in Runs : RunOK(s)
  BY <1>1, RowsUnchanged, GrowsUnchanged DEF IInv
<1>4. /\ proc[e].key = Schedule /\ proc[e].covered \subseteq statcast
      /\ proc[e].cancelled \subseteq Cancelled
      /\ stats[r] = "absent" /\ proc[e].at = "start_outer"
  BY <1>1, <1>2, ExecutorsWork DEF OrderOK, MemoryOK, StatusOK, At, Creating, Preparing
<1>5. CASE /\ outer[Run(e)] = "queued"
           /\ outer' = [outer EXCEPT ![Run(e)] = "running"]
           /\ Goto(e, "create_stats")
  <2>1. outer[r] = "queued" /\ outer' = [outer EXCEPT ![r] = "running"]
    BY <1>2, <1>5
  <2>2. Moves(e) /\ SameWork(e) /\ proc'[e].at = "create_stats"
    BY <1>3, <1>5, GotoMoves DEF Phases, Creating
  <2>3. TypeOK'
    BY <1>1, <1>3, <2>1, <2>2 DEF TypeOK, Moves, Statuses, Active
  <2>4. outer \in [Runs -> Statuses] /\ outer' \in [Runs -> Statuses]
    BY <1>3, <2>3 DEF TypeOK
  <2>5. Claims(e)
    BY <1>4, <2>2 DEF Claims, Executing, Collecting, Finishing, Failing, SameWork, Preparing, Creating
  <2>6. StatusesKept(e)
    BY <1>1, <1>3, <2>1, <2>4 DEF StatusesKept, RunOK
  <2>7. OrderOK(e)' /\ MemoryOK(e)'
    BY <1>1, <1>4, <2>2 DEF Cancelled, OrderOK, MemoryOK, Collecting, SameWork
  <2>8. StatusOK(e)'
    BY <1>1, <1>2, <1>4, <2>1, <2>2, <2>4 DEF StatusOK, SameWork, Run
  <2>9. OuterFollowsStats'
    BY <1>1, <1>3, <2>1, <2>4 DEF OuterFollowsStats, Success
  <2> QED  BY <1>3, <2>2, <2>3, <2>5, <2>6, <2>7, <2>8, <2>9, RowStepKeeps
<1>6. CASE outer' = outer /\ Leave(e)
  <2>1. UNCHANGED database
    BY <1>1, <1>6 DEF database
  <2>2. TypeOK'
    BY <1>1, <1>3, <1>6, LeaveMoves DEF TypeOK, Moves
  <2> QED  BY <1>6, <2>1, <2>2, DatabaseKept, LeaveKeeps
<1> QED  BY <1>5, <1>6 DEF StartOuter

LEMMA CreateStatsKeeps ==
  ASSUME IInv, NEW e \in Executors, CreateStats(e)
  PROVE  IInv'
<1>1. /\ At(e, "create_stats")
      /\ stats' = [stats EXCEPT ![Run(e)] = "queued"]
      /\ Goto(e, "start_stats")
      /\ UNCHANGED <<outer, checkpoint, raw, finals, cancels, seenAt, statcast,
                     watermark, clock, faults>>
  BY DEF CreateStats
<1>2. PICK r \in Runs : r = Run(e)
  BY <1>1, ExecutorsWork DEF At
<1>3. /\ TypeOK /\ OuterFollowsStats /\ RowsKept /\ WatermarkIsBacked'
      /\ \A s \in Runs : RunOK(s)
  BY <1>1, RowsUnchanged, GrowsUnchanged DEF IInv
<1>4. /\ proc[e].key = Schedule /\ proc[e].covered \subseteq statcast
      /\ proc[e].cancelled \subseteq Cancelled
      /\ stats[r] = "absent" /\ proc[e].at = "create_stats" /\ outer[r] # "absent"
  BY <1>1, <1>2, ExecutorsWork DEF OrderOK, MemoryOK, StatusOK, At, Creating, Preparing
<1>5. Moves(e) /\ SameWork(e) /\ proc'[e].at = "start_stats"
  BY <1>1, <1>3, GotoMoves DEF Phases, Creating
<1>6. stats' = [stats EXCEPT ![r] = "queued"]
  BY <1>1, <1>2
<1>7. TypeOK'
  BY <1>1, <1>3, <1>5, <1>6 DEF TypeOK, Moves, Statuses, Active
<1>8. stats \in [Runs -> Statuses] /\ stats' \in [Runs -> Statuses]
  BY <1>3, <1>7 DEF TypeOK
<1>9. Claims(e)
  BY <1>4, <1>5 DEF Claims, SameWork, Executing, Collecting, Finishing, Failing, Preparing, Creating
<1>10. StatusesKept(e)
  BY <1>1, <1>2, <1>3, <1>4, <1>6, <1>8 DEF StatusesKept, RunOK, Success, Preparing
<1>11. OrderOK(e)' /\ MemoryOK(e)'
  BY <1>1, <1>4, <1>5 DEF Cancelled, OrderOK, MemoryOK, Collecting, SameWork
<1>12. StatusOK(e)'
  BY <1>1, <1>2, <1>4, <1>5 DEF StatusOK, SameWork, Run, Preparing
<1>13. OuterFollowsStats'
  BY <1>1, <1>3, <1>4, <1>6, <1>8 DEF OuterFollowsStats, Success
<1> QED  BY <1>3, <1>5, <1>7, <1>9, <1>10, <1>11, <1>12, <1>13, RowStepKeeps

LEMMA StartStatsKeeps ==
  ASSUME IInv, NEW e \in Executors, StartStats(e)
  PROVE  IInv'
<1>1. /\ At(e, "start_stats")
      /\ UNCHANGED <<outer, checkpoint, raw, finals, cancels, seenAt, statcast,
                     watermark, clock, faults>>
  BY DEF StartStats
<1>2. PICK r \in Runs : r = Run(e)
  BY <1>1, ExecutorsWork DEF At
<1>3. /\ TypeOK /\ OuterFollowsStats /\ RowsKept /\ WatermarkIsBacked'
      /\ \A s \in Runs : RunOK(s)
  BY <1>1, RowsUnchanged, GrowsUnchanged DEF IInv
<1>4. /\ proc[e].key = Schedule /\ proc[e].covered \subseteq statcast
      /\ proc[e].cancelled \subseteq Cancelled
      /\ proc[e].at = "start_stats" /\ outer[r] # "absent"
  BY <1>1, <1>2, ExecutorsWork DEF OrderOK, MemoryOK, StatusOK, At, Creating
<1>5. CASE /\ stats[Run(e)] \in Active
           /\ stats' = [stats EXCEPT ![Run(e)] = "running"]
           /\ Goto(e, "lock")
  <2>1. stats[r] \in Active /\ stats' = [stats EXCEPT ![r] = "running"]
    BY <1>2, <1>5
  <2>2. Moves(e) /\ SameWork(e) /\ proc'[e].at = "lock"
    BY <1>3, <1>5, GotoMoves DEF Phases, Creating
  <2>3. TypeOK'
    BY <1>1, <1>3, <2>1, <2>2 DEF TypeOK, Moves, Statuses, Active
  <2>4. stats \in [Runs -> Statuses] /\ stats' \in [Runs -> Statuses]
    BY <1>3, <2>3 DEF TypeOK
  <2>5. Claims(e)
    BY <1>4, <2>2 DEF Claims, SameWork, Executing, Collecting, Finishing, Failing, Preparing, Creating
  <2>6. StatusesKept(e)
    BY <1>1, <1>3, <1>4, <2>1, <2>4 DEF StatusesKept, RunOK, Success, Active
  <2>7. OrderOK(e)' /\ MemoryOK(e)'
    BY <1>1, <1>4, <2>2 DEF Cancelled, OrderOK, MemoryOK, Collecting, SameWork
  <2>8. StatusOK(e)'
    BY <1>1, <1>2, <1>4, <2>2 DEF StatusOK, SameWork, Run, Preparing
  <2>9. OuterFollowsStats'
    BY <1>1, <1>3, <2>1, <2>4 DEF OuterFollowsStats, Success, Active
  <2> QED  BY <1>3, <2>2, <2>3, <2>5, <2>6, <2>7, <2>8, <2>9, RowStepKeeps
<1>6. CASE stats' = stats /\ Leave(e)
  <2>1. UNCHANGED database
    BY <1>1, <1>6 DEF database
  <2>2. TypeOK'
    BY <1>1, <1>3, <1>6, LeaveMoves DEF TypeOK, Moves
  <2> QED  BY <1>6, <2>1, <2>2, DatabaseKept, LeaveKeeps
<1> QED  BY <1>5, <1>6 DEF StartStats

LEMMA LockKeeps ==
  ASSUME IInv, NEW e \in Executors, Lock(e)
  PROVE  IInv'
<1>1. At(e, "lock") /\ UNCHANGED database /\ UNCHANGED <<clock, faults>>
  BY DEF Lock
<1>2. /\ TypeOK /\ RowsKept /\ StatusesKept(e) /\ WatermarkIsBacked' /\ OuterFollowsStats'
  BY <1>1, DatabaseKept DEF IInv
<1>3. /\ outer' = outer /\ stats' = stats /\ checkpoint' = checkpoint /\ raw' = raw
      /\ finals' = finals /\ cancels' = cancels /\ seenAt' = seenAt /\ statcast' = statcast
      /\ watermark' = watermark /\ clock' = clock
  BY <1>1 DEF database
<1>4. /\ proc[e].key = Schedule /\ proc[e].covered \subseteq statcast
      /\ proc[e].cancelled \subseteq Cancelled
      /\ proc[e].at = "lock" /\ Run(e) \in Runs /\ outer[Run(e)] # "absent"
  BY <1>1, ExecutorsWork DEF OrderOK, MemoryOK, StatusOK, At, Creating
<1>5. CASE ~Locked(Run(e)) /\ Goto(e, "open")
  <2>1. Moves(e) /\ SameWork(e) /\ proc'[e].at = "open"
    BY <1>2, <1>5, GotoMoves DEF Phases, Executing, Collecting
  <2>2. TypeOK'
    BY <1>2, <1>3, <2>1 DEF TypeOK, Moves
  <2>3. Claims(e)
    BY <1>5, <2>1 DEF Claims, SameWork, Preparing, Creating
  <2>4. OrderOK(e)' /\ MemoryOK(e)'
    BY <1>3, <1>4, <2>1 DEF Cancelled, OrderOK, MemoryOK, SameWork, Creating
  <2>5. StatusOK(e)'
    BY <1>3, <1>4, <2>1 DEF StatusOK, SameWork, Run, Preparing
  <2> QED  BY <1>2, <2>1, <2>2, <2>3, <2>4, <2>5, RowStepKeeps
<1>6. CASE Leave(e)
  <2>1. TypeOK'
    BY <1>2, <1>3, <1>6, LeaveMoves DEF TypeOK, Moves
  <2> QED  BY <1>2, <1>6, <2>1, LeaveKeeps
<1> QED  BY <1>5, <1>6 DEF Lock

LEMMA ResumeKeeps ==
  ASSUME IInv, NEW e \in Executors, Resume(e)
  PROVE  IInv'
<1>1. PICK r \in Runs :
        /\ stats[r] \in Active
        /\ ~Locked(r)
        /\ stats' = [stats EXCEPT ![r] = "running"]
        /\ outer' = [outer EXCEPT ![r] = IF outer[r] = "queued" THEN "running" ELSE outer[r]]
        /\ proc' = [proc EXCEPT ![e].at = "open", ![e].run = r]
  BY DEF Resume
<1>2. /\ At(e, "idle") /\ checkpoint' = Repaired
      /\ UNCHANGED <<raw, finals, cancels, seenAt, statcast, watermark, clock, faults>>
  BY DEF Resume
<1>3. TypeOK /\ WatermarkIsBacked /\ OuterFollowsStats /\ \A s \in Runs : RunOK(s)
  BY DEF IInv
<1> DEFINE p == [proc[e] EXCEPT !.at = "open", !.run = r]
<1>4. /\ proc[e] \in Process /\ proc \in [Executors -> Process]
      /\ r \in Nat /\ MemoryOK(e) /\ OrderOK(e) /\ proc[e].at = "idle"
  BY <1>2, Bounds DEF IInv, TypeOK, Runs, At
<1>5. /\ p \in Process /\ p.at = "open" /\ p.run = r /\ p.key = proc[e].key
      /\ p.covered = proc[e].covered
      /\ p.cancelled = proc[e].cancelled
  BY <1>4 DEF Process, Phases, Executing, Collecting
<1>6. proc' = [proc EXCEPT ![e] = p]
  BY <1>1
<1> HIDE DEF p
<1>7. Moves(e) /\ proc'[e] = p
  BY <1>4, <1>5, <1>6 DEF Moves
<1>8. outer \in [Runs -> Statuses] /\ stats \in [Runs -> Statuses]
  BY <1>3 DEF TypeOK
<1>9. outer[r] # "absent" /\ outer' \in [Runs -> Statuses] /\ stats' \in [Runs -> Statuses]
  BY <1>1, <1>3, <1>8 DEF RunOK, Statuses, Active
<1>10. TypeOK'
  BY <1>2, <1>3, <1>7, <1>9, RepairedRows DEF TypeOK, Moves
<1>11. Claims(e)
  BY <1>1, <1>5, <1>7 DEF Claims, Preparing, Creating
<1>12. RowsKept
  BY <1>2, <1>3, RepairedRows, GrowsUnchanged DEF RowsKept
<1>13. StatusesKept(e)
  BY <1>1, <1>3, <1>8, <1>9 DEF StatusesKept, RunOK, Success, Active
<1>14. OrderOK(e)' /\ MemoryOK(e)'
  BY <1>2, <1>4, <1>5, <1>7 DEF Cancelled, OrderOK, MemoryOK, Creating
<1>15. StatusOK(e)'
  BY <1>1, <1>5, <1>7, <1>8, <1>9 DEF StatusOK, Run, Preparing
<1>16. OuterFollowsStats'
  BY <1>1, <1>3, <1>8 DEF OuterFollowsStats, Success, Active
<1>17. WatermarkIsBacked'
  BY <1>2, <1>3 DEF WatermarkIsBacked, Cancelled
<1> QED  BY <1>7, <1>10, <1>11, <1>12, <1>13, <1>14, <1>15, <1>16, <1>17, RowStepKeeps

-----------------------------------------------------------------------------
(* The collection of a dataset. *)

RowStatus == {"absent", "running", "completed", "partial", "failed"}
Row == [status : RowStatus, captures : Nat]

LEMMA RowReplaced ==
  ASSUME checkpoint \in [Runs -> [Datasets -> Row]], NEW r \in Runs, NEW k \in Datasets,
         NEW c \in Row, checkpoint' = [checkpoint EXCEPT ![r][k] = c]
  PROVE  /\ checkpoint' \in [Runs -> [Datasets -> Row]]
         /\ checkpoint'[r][k] = c
         /\ \A j \in Datasets \ {k} : checkpoint'[r][j] = checkpoint[r][j]
         /\ \A s \in Runs \ {r} : checkpoint'[s] = checkpoint[s]
<1>1. checkpoint[r] \in [Datasets -> Row]
  OBVIOUS
<1> DEFINE rows == [checkpoint[r] EXCEPT ![k] = c]
<1>2. rows \in [Datasets -> Row]
  BY <1>1
<1>3. checkpoint' = [checkpoint EXCEPT ![r] = rows]
  OBVIOUS
<1>4. checkpoint'[r] = rows
  BY <1>3
<1> QED  BY <1>1, <1>2, <1>3, <1>4

LEMMA EffectiveTyped ==
  ASSUME TypeOK, NEW p \in Process, NEW q \in Request
  PROVE  EffectiveFinal(p, q) \in 0 .. MaxDay
<1> DEFINE S == p.final \cup ({watermark.latest} \cap (1 .. q.through))
<1>1. \A d \in Days : d \in 0 .. MaxDay
  BY Bounds
<1>2. \A d \in 1 .. q.through : d \in 0 .. MaxDay
  BY Bounds DEF Request
<1>3. p.final \subseteq Days
  BY DEF Process
<1>4. S \in SUBSET (0 .. MaxDay)
  BY <1>1, <1>2, <1>3
<1> HIDE DEF S
<1>5. Newest(S) \in 0 .. MaxDay
  BY <1>4, NewestDate
<1> QED  BY <1>5 DEF EffectiveFinal, S

\* What the executor of a run sees when it opens a dataset.
LEMMA AtOpen ==
  ASSUME IInv, NEW e \in Executors, proc[e].at = "open", NEW r \in Runs, r = Run(e)
  PROVE  /\ proc[e].covered \subseteq statcast
         /\ proc[e].cancelled \subseteq Cancelled
         /\ proc[e].key # Schedule => /\ Scheduled(r)
                                     /\ proc[e].final = finals[r]
                                     /\ proc[e].cancelled = cancels[r]
         /\ proc[e].at \in Executing /\ outer[r] # "absent" /\ RunOK(r)
         /\ RequestOf[r] \in Request /\ Asked(e) = RequestOf[r]
<1>1. OrderOK(e) /\ MemoryOK(e) /\ StatusOK(e) /\ RunOK(r)
  BY DEF IInv
<1>2. RequestOf[r] \in Request
  BY Bounds
<1> QED  BY <1>1, <1>2 DEF OrderOK, MemoryOK, StatusOK, Collecting, Executing, Asked, Run

\* A checkpoint opened: the dataset is collected, or collected once more.
LEMMA OpenCollects ==
  ASSUME IInv, NEW e \in Executors, proc[e].at = "open", NEW p \in Process,
         p.run = Run(e), p.key = proc[e].key, p.final = proc[e].final,
         p.covered = proc[e].covered, p.cancelled = proc[e].cancelled, p.at = "collect",
         Mine(e).status \in {"absent", "running"},
         checkpoint' = [checkpoint EXCEPT ![Run(e)][proc[e].key].status = "running"],
         proc' = [proc EXCEPT ![e] = p],
         UNCHANGED <<outer, stats, raw, finals, cancels, seenAt, statcast,
                     watermark, clock, faults>>
  PROVE  IInv'
<1>1. PICK r \in Runs : r = Run(e)
  BY ExecutorsWork
<1>2. PICK k \in Datasets : k = proc[e].key
  BY ExecutorsWork
<1>3. /\ proc[e].covered \subseteq statcast
      /\ proc[e].cancelled \subseteq Cancelled
      /\ k # Schedule => /\ Scheduled(r)
                         /\ proc[e].final = finals[r]
                         /\ proc[e].cancelled = cancels[r]
      /\ proc[e].at \in Executing /\ outer[r] # "absent"
  BY <1>1, <1>2, AtOpen
<1>4. /\ TypeOK /\ OuterFollowsStats /\ WatermarkIsBacked
      /\ \A s \in Runs : RunOK(s)
  BY DEF IInv
<1>5. checkpoint \in [Runs -> [Datasets -> Row]]
  BY <1>4 DEF TypeOK, RowStatus, Row
<1> DEFINE c == [checkpoint[r][k] EXCEPT !.status = "running"]
<1>6. c \in Row /\ c.status = "running"
  BY <1>5 DEF RowStatus, Row
<1>7. checkpoint' = [checkpoint EXCEPT ![r][k] = c]
  BY <1>1, <1>2
<1> HIDE DEF c
<1>8. /\ checkpoint' \in [Runs -> [Datasets -> Row]]
      /\ checkpoint'[r][k] = c
      /\ \A j \in Datasets \ {k} : checkpoint'[r][j] = checkpoint[r][j]
      /\ \A s \in Runs \ {r} : checkpoint'[s] = checkpoint[s]
  BY ONLY <1>5, <1>6, <1>7, RowReplaced, Zenon
<1>9. /\ checkpoint'[r][k].status = "running"
      /\ checkpoint[r][k].status \in {"absent", "running"}
      /\ \A j \in Datasets \ {k} : checkpoint'[r][j] = checkpoint[r][j]
      /\ \A s \in Runs \ {r} : checkpoint'[s] = checkpoint[s]
  BY <1>1, <1>2, <1>6, <1>8 DEF Mine
<1>10. Moves(e) /\ proc'[e] = p
  BY <1>4 DEF Moves, TypeOK
<1>11. TypeOK'
  BY <1>4, <1>8, <1>10 DEF TypeOK, Moves, RowStatus, Row
<1>12. \A s \in Runs : Scheduled(s) => Scheduled(s)'
  BY ZenonT(40), <1>9, Bounds DEF Scheduled
<1>13. Frame(e)
  <2>1. \A s \in Runs, j \in Datasets :
          checkpoint[s][j].status # "absent" => checkpoint'[s][j].status # "absent"
    BY <1>9
  <2>2. \A s \in Runs : \/ s = Run(e) /\ proc[e].at \in Executing
                        \/ /\ finals'[s] = finals[s] /\ cancels'[s] = cancels[s]
                           /\ checkpoint'[s] = checkpoint[s]
    BY <1>1, <1>3, <1>9
  <2>3. Grows
    BY GrowsUnchanged
  <2> QED  BY <1>10, <1>12, <2>1, <2>2, <2>3 DEF Frame
<1>14. Claims(e)
  BY <1>3, <1>10 DEF Claims, Preparing, Creating
<1>15. OrderOK(e)'
  <2>1. k = Schedule => \A j \in Datasets \ {Schedule} : checkpoint'[r][j].status = "absent"
    <3>1. k = Schedule => ~Scheduled(r)
      BY <1>9 DEF Scheduled
    <3> QED  BY ZenonT(40), <1>4, <1>9, <3>1 DEF RunOK
  <2>2. k # Schedule => Scheduled(r)'
    BY <1>3, <1>12
  <2>3. (Run(e))' = r /\ proc'[e].key = k /\ proc'[e].at = "collect"
    BY <1>1, <1>2, <1>10 DEF Run
  <2>4. (Mine(e))' = checkpoint'[r][k]
    BY <2>3 DEF Mine
  <2>5. k # Schedule => (Scheduled(Run(e)))'
    BY <2>2, <2>3 DEF Scheduled
  <2> QED  BY SMTT(30), <1>9, <2>1, <2>3, <2>4, <2>5 DEF OrderOK, Creating
<1>16. MemoryOK(e)' /\ StatusOK(e)'
  BY <1>1, <1>2, <1>3, <1>10 DEF Cancelled, MemoryOK, StatusOK, Run, Preparing
<1>17. \A s \in Runs : RunOK(s)'
  <2> TAKE s \in Runs
  <2>1. RunOK(s)
    BY <1>4
  <2>2. (\E j \in Datasets \ {Schedule} : checkpoint'[s][j].status # "absent")
          => Scheduled(s)'
    <3>1. CASE s = r /\ k = Schedule
      <4>1. ~Scheduled(r)
        BY <1>9, <3>1 DEF Scheduled
      <4>2. \A j \in Datasets \ {Schedule} : checkpoint[r][j].status = "absent"
        BY <2>1, <3>1, <4>1 DEF RunOK
      <4>3. \A j \in Datasets \ {Schedule} : checkpoint'[r][j].status = "absent"
        BY <1>9, <3>1, <4>2
      <4> QED  BY <3>1, <4>3
    <3>2. CASE s = r /\ k # Schedule
      BY <1>3, <1>12, <3>2
    <3>3. CASE s # r
      BY <1>9, <1>12, <2>1, <3>3 DEF RunOK
    <3> QED  BY <3>1, <3>2, <3>3
  <2>3. \A j \in Datasets :
          checkpoint'[s][j].status = "completed" => checkpoint[s][j].status = "completed"
    BY <1>9
  <2>4. Cancelled' = Cancelled /\ Schedule \in Datasets
    BY Bounds DEF Cancelled
  <2> QED  BY <2>1, <2>2, <2>3, <2>4 DEF RunOK
<1>18. WatermarkIsBacked' /\ OuterFollowsStats'
  BY <1>4 DEF WatermarkIsBacked, Cancelled, OuterFollowsStats
<1> QED  BY <1>11, <1>13, <1>14, <1>15, <1>16, <1>17, <1>18, StepKeeps

\* The memory of an executor that has finished a dataset.
LEMMA AbsorbedOK ==
  ASSUME IInv, NEW e \in Executors, proc[e].at \in Collecting,
         NEW p \in Process, NEW n \in Nat, NEW at \in Nat,
         proc' = [proc EXCEPT ![e] = Absorbed(p, Asked(e), n, at)],
         p.run = Run(e), finals' = finals, cancels' = cancels, outer' = outer,
         p.final = finals[Run(e)], p.cancelled = cancels[Run(e)],
         p.covered \subseteq statcast', p.cancelled \subseteq Cancelled',
         checkpoint'[Run(e)][Schedule].status \notin {"absent", "running"}
  PROVE  /\ Moves(e) /\ Claims(e)
         /\ OrderOK(e)' /\ MemoryOK(e)' /\ StatusOK(e)'
<1>1. PICK r \in Runs : r = Run(e)
  BY ExecutorsWork DEF Collecting
<1>2. proc[e].at \in Executing /\ outer[r] # "absent" /\ proc \in [Executors -> Process]
  BY <1>1, ExecutorsWork DEF Executing, Collecting, IInv, TypeOK
<1>3. Asked(e) \in Request
  BY <1>1, Bounds DEF Asked, Run
<1> DEFINE j == Absorbed(p, Asked(e), n, at)
<1>4. /\ j \in Process
      /\ j.run = p.run /\ j.final = p.final /\ j.covered = p.covered
      /\ j.cancelled = p.cancelled
      /\ \/ j.at = "evaluate" /\ j.key = Schedule
         \/ j.at = "open" /\ j.key # Schedule
  BY <1>3, AbsorbedTyped
<1>5. proc' = [proc EXCEPT ![e] = j]
  OBVIOUS
<1> HIDE DEF j
<1>6. Moves(e) /\ proc'[e] = j
  BY <1>2, <1>4, <1>5 DEF Moves
<1>7. (Run(e))' = r
  BY <1>1, <1>4, <1>6 DEF Run
<1>8. Claims(e)
  BY <1>2, <1>4, <1>6 DEF Claims, Preparing, Creating
<1>9. OrderOK(e)'
  <2>1. Scheduled(Run(e))'
    BY <1>1, <1>7 DEF Scheduled
  <2> QED  BY <1>4, <1>6, <2>1 DEF OrderOK, Creating
<1>10. MemoryOK(e)'
  BY <1>1, <1>4, <1>6, <1>7 DEF MemoryOK
<1>11. StatusOK(e)'
  BY <1>2, <1>4, <1>6, <1>7 DEF StatusOK, Preparing
<1> QED  BY <1>6, <1>8, <1>9, <1>10, <1>11

LEMMA OpenKeeps ==
  ASSUME IInv, NEW e \in Executors, Open(e)
  PROVE  IInv'
<1>1. /\ proc[e].at = "open"
      /\ UNCHANGED <<outer, stats, raw, finals, cancels, seenAt, statcast,
                     watermark, clock, faults>>
  BY DEF Open, At
<1>2. PICK r \in Runs : r = Run(e)
  BY <1>1, ExecutorsWork
<1>3. PICK k \in Datasets : k = proc[e].key
  BY <1>1, ExecutorsWork
<1>4. /\ proc[e].covered \subseteq statcast
      /\ proc[e].cancelled \subseteq Cancelled
      /\ k # Schedule => /\ Scheduled(r)
                         /\ proc[e].final = finals[r]
                         /\ proc[e].cancelled = cancels[r]
      /\ proc[e].at \in Executing /\ outer[r] # "absent" /\ RunOK(r)
      /\ RequestOf[r] \in Request /\ Asked(e) = RequestOf[r]
  BY <1>1, <1>2, <1>3, AtOpen
<1>5. /\ TypeOK /\ proc[e] \in Process /\ proc \in [Executors -> Process]
  BY DEF IInv, TypeOK
<1>6. EffectiveFinal(proc[e], Asked(e)) \in 0 .. MaxDay
  BY <1>4, <1>5, EffectiveTyped
<1> DEFINE p == IF k = Aggregates
                THEN [proc[e] EXCEPT !.effective = EffectiveFinal(proc[e], Asked(e))]
                ELSE proc[e]
<1>7. /\ p \in Process /\ p.run = r /\ p.key = k /\ p.final = proc[e].final
      /\ p.covered = proc[e].covered /\ p.at = "open"
      /\ p.cancelled = proc[e].cancelled
  BY <1>1, <1>2, <1>3, <1>5, <1>6 DEF Process, Run
<1>8. \/ /\ Mine(e).status \in {"absent", "running"}
         /\ checkpoint' = [checkpoint EXCEPT ![r][k].status = "running"]
         /\ proc' = [proc EXCEPT ![e] = [p EXCEPT !.at = "collect"]]
      \/ /\ Restorable(r, k)
         /\ proc' = [proc EXCEPT ![e] = Restored(p, Asked(e))]
         /\ UNCHANGED checkpoint
      \/ Raise(e, 0) /\ UNCHANGED checkpoint
  BY <1>2, <1>3 DEF Open
<1> HIDE DEF p
<1>9. CASE /\ Mine(e).status \in {"absent", "running"}
           /\ checkpoint' = [checkpoint EXCEPT ![r][k].status = "running"]
           /\ proc' = [proc EXCEPT ![e] = [p EXCEPT !.at = "collect"]]
  <2> DEFINE j == [p EXCEPT !.at = "collect"]
  <2>1. /\ j \in Process /\ j.run = r /\ j.key = k /\ j.final = proc[e].final
        /\ j.covered = proc[e].covered /\ j.at = "collect"
        /\ j.cancelled = proc[e].cancelled
    BY <1>7 DEF Process, Phases, Executing, Collecting
  <2>2. proc' = [proc EXCEPT ![e] = j]
    BY <1>9
  <2> HIDE DEF j
  <2> QED  BY ZenonT(40), <1>1, <1>2, <1>3, <1>9, <2>1, <2>2, OpenCollects
<1>10. CASE /\ Restorable(r, k)
            /\ proc' = [proc EXCEPT ![e] = Restored(p, Asked(e))]
            /\ UNCHANGED checkpoint
  <2> DEFINE row == raw[r][k]
             held == CASE k = Schedule ->
                            [p EXCEPT !.final = finals[r], !.cancelled = cancels[r]]
                       [] k > Aggregates ->
                            [p EXCEPT !.covered = p.covered \cup (p.final \cap {DayOf(k)})]
                       [] OTHER -> p
  <2>1. Restored(p, Asked(e)) = Absorbed(held, Asked(e), row.rows, row.at)
    BY <1>7 DEF Restored
  <2>2. finals[r] \in SUBSET Days /\ cancels[r] \in SUBSET Days /\ row.rows \in Nat /\ row.at \in Nat
    BY <1>5 DEF TypeOK
  <2>3. checkpoint[r][k].status = "completed"
    BY <1>10 DEF Restorable
  <2>4. /\ held \in Process /\ held.run = r /\ held.final = finals[r]
        /\ held.cancelled = cancels[r]
        /\ held.covered \subseteq statcast /\ held.cancelled \subseteq Cancelled
    <3>1. CASE k = Schedule
      <4>1. held = [p EXCEPT !.final = finals[r], !.cancelled = cancels[r]]
        BY <3>1 DEF Schedule, Aggregates
      <4>2. cancels[r] \subseteq Cancelled
        BY <1>4, <2>3, <3>1 DEF RunOK
      <4> DEFINE restored == [p EXCEPT !.final = finals[r], !.cancelled = cancels[r]]
      <4>4. /\ restored \in Process /\ restored.run = r
            /\ restored.final = finals[r] /\ restored.cancelled = cancels[r]
            /\ restored.covered = p.covered
        <5> HIDE DEF held, row
        <5> QED  BY <1>7, <2>2 DEF Process
      <4>3. /\ held \in Process /\ held.run = r /\ held.final = finals[r]
            /\ held.cancelled = cancels[r] /\ held.covered = p.covered
        <5> HIDE DEF held, restored
        <5>1. held = restored
          BY <4>1 DEF restored
        <5> QED  BY <4>4, <5>1
      <4> QED  BY <1>4, <1>7, <4>2, <4>3
    <3>2. CASE k > Aggregates
      <4>1. k # Schedule
        BY <3>2, Bounds DEF Schedule, Aggregates
      <4>2. held = [p EXCEPT !.covered = p.covered \cup (p.final \cap {DayOf(k)})]
        BY <3>2, <4>1
      <4>3. p.final = finals[r] /\ p.cancelled = cancels[r]
        BY <1>4, <1>7, <4>1
      <4>4. p.final \cap {DayOf(k)} \subseteq statcast
        BY <1>4, <2>3, <3>2, <4>3 DEF RunOK
      <4>5. p.covered \cup (p.final \cap {DayOf(k)}) \in SUBSET Days
        BY <1>7, <2>2, <4>3 DEF Process
      <4>6. /\ held \in Process /\ held.run = r /\ held.final = finals[r]
            /\ held.cancelled = cancels[r]
            /\ held.covered = p.covered \cup (p.final \cap {DayOf(k)})
        BY <1>7, <4>2, <4>3, <4>5 DEF Process
      <4>7. cancels[r] \subseteq Cancelled
        BY <1>4, <1>7, <4>3
      <4> QED  BY <1>4, <1>7, <4>4, <4>6, <4>7
    <3>3. CASE k # Schedule /\ ~(k > Aggregates)
      BY <1>4, <1>7, <3>3
    <3> QED  BY <3>1, <3>2, <3>3
  <2> HIDE DEF held, row
  <2>5. checkpoint'[r][Schedule].status \notin {"absent", "running"}
    BY <1>4, <1>10, <2>3 DEF Scheduled
  <2>6. proc[e].at \in Collecting
    BY <1>1 DEF Collecting
  <2>7. /\ Moves(e) /\ Claims(e)
        /\ OrderOK(e)' /\ MemoryOK(e)' /\ StatusOK(e)'
    <3>1. Cancelled' = Cancelled
      BY <1>1 DEF Cancelled
    <3> QED  BY <1>1, <1>2, <1>10, <2>1, <2>2, <2>4, <2>5, <2>6, <3>1, AbsorbedOK
  <2>8. UNCHANGED database
    BY <1>1, <1>10 DEF database
  <2>9. TypeOK'
    BY <1>1, <1>5, <1>10, <2>7 DEF TypeOK, Moves
  <2> QED  BY <2>7, <2>8, <2>9, DatabaseKept, RowStepKeeps
<1>11. CASE Raise(e, 0) /\ UNCHANGED checkpoint
  <2>1. UNCHANGED database
    BY <1>1, <1>11 DEF database
  <2>2. TypeOK'
    BY <1>1, <1>5, <1>11, RaiseMoves DEF TypeOK, Moves
  <2> QED  BY <1>4, <1>11, <2>1, <2>2, DatabaseKept, RaiseKeeps
<1> QED  BY <1>8, <1>9, <1>10, <1>11

LEMMA RangesTyped ==
  ASSUME NEW through \in Days, NEW effective \in 0 .. MaxDay
  PROVE  CaptureRanges(through, effective) \in Nat
<1> DEFINE S == {through - 1, effective} \ {0}
<1>1. IsFiniteSet({through - 1, effective})
  <2> DEFINE T == {through - 1}
  <2>1. IsFiniteSet(T)
    BY FS_Singleton
  <2>2. {through - 1, effective} = T \cup {effective}
    OBVIOUS
  <2> HIDE DEF T
  <2>3. IsFiniteSet(T \cup {effective})
    BY <2>1, FS_AddElement
  <2> QED  BY <2>2, <2>3
<1>2. IsFiniteSet(S)
  BY <1>1, FS_Subset
<1>3. Cardinality(S) \in Nat
  <2> HIDE DEF S
  <2> QED  BY <1>2, FS_CardinalityType
<1> QED  BY <1>3 DEF CaptureRanges

LEMMA IndexTyped ==
  ASSUME TypeOK, NEW r \in Runs, NEW k \in Datasets, NEW n \in Nat, Index(r, k, n)
  PROVE  /\ raw' \in [Runs -> [Datasets \cup {Unowned} -> [rows : Nat, at : Nat]]]
         /\ clock' \in Nat
<1> DEFINE Rows == [rows : Nat, at : Nat]
           Keys == Datasets \cup {Unowned}
           c == IF n = 0 THEN raw[r][k] ELSE [rows |-> raw[r][k].rows + n, at |-> clock']
<1>1. clock' \in Nat
  BY DEF Index, TypeOK
<1>2. raw \in [Runs -> [Keys -> Rows]] /\ k \in Keys
  BY DEF TypeOK
<1>3. raw[r] \in [Keys -> Rows]
  BY <1>2
<1>4. c \in Rows
  <2>1. raw[r][k] \in Rows
    BY <1>2, <1>3
  <2> QED  BY <1>1, <2>1
<1>5. raw' = [raw EXCEPT ![r][k] = c]
  BY DEF Index
<1> HIDE DEF Rows, Keys, c
<1>6. [raw[r] EXCEPT ![k] = c] \in [Keys -> Rows]
  BY <1>3, <1>4
<1>7. raw' = [raw EXCEPT ![r] = [raw[r] EXCEPT ![k] = c]]
  BY <1>5
<1>8. raw' \in [Runs -> [Keys -> Rows]]
  BY <1>2, <1>6, <1>7
<1> QED  BY <1>1, <1>8 DEF Rows, Keys

\* A response indexed for a dataset leaves the others', and ticks for a schedule.
LEMMA IndexGrows ==
  ASSUME TypeOK, NEW r \in Runs, NEW k \in Datasets, NEW n \in Nat, Index(r, k, n),
         k = Schedule => n # 0
  PROVE  /\ \A s \in Runs : raw[s][Schedule].at # 0 => raw'[s][Schedule].at # 0
         /\ k = Schedule => raw'[r][Schedule].at # 0
<1>1. /\ raw \in [Runs -> [Datasets \cup {Unowned} -> [rows : Nat, at : Nat]]]
      /\ clock \in Nat /\ k \in Datasets \cup {Unowned}
      /\ Schedule \in Datasets \cup {Unowned}
  BY Bounds DEF TypeOK
<1> DEFINE c == IF n = 0 THEN raw[r][k] ELSE [rows |-> raw[r][k].rows + n, at |-> clock']
<1>2. raw' = [raw EXCEPT ![r] = [raw[r] EXCEPT ![k] = c]]
  BY <1>1 DEF Index
<1>3. k = Schedule => c.at # 0
  BY <1>1 DEF Index
<1> HIDE DEF c
<1>4. \A s \in Runs \ {r} : raw'[s] = raw[s]
  BY <1>1, <1>2
<1>5. raw'[r] = [raw[r] EXCEPT ![k] = c] /\ raw[r] \in [Datasets \cup {Unowned} -> [rows : Nat, at : Nat]]
  BY <1>1, <1>2
<1>6. CASE k = Schedule
  BY <1>1, <1>3, <1>4, <1>5, <1>6
<1>7. CASE k # Schedule
  <2>1. raw'[r][Schedule] = raw[r][Schedule]
    BY <1>1, <1>5, <1>7
  <2> QED  BY <1>4, <1>7, <2>1
<1> QED  BY <1>6, <1>7

LEMMA ScopeOfDays ==
  ASSUME NEW q \in Request
  PROVE  Scope(q) \subseteq Days
BY Bounds DEF Scope, Request, Days

\* What the executor of a run has while it collects a dataset.
LEMMA AtDataset ==
  ASSUME IInv, NEW e \in Executors, proc[e].at \in {"collect", "persist", "complete"},
         NEW r \in Runs, r = Run(e), NEW k \in Datasets, k = proc[e].key
  PROVE  /\ proc[e].at \in Executing /\ proc[e].at \in Collecting
         /\ outer[r] # "absent" /\ RunOK(r)
         /\ RequestOf[r] \in Request /\ Asked(e) = RequestOf[r]
         /\ checkpoint[r][k].status \notin {"absent", "completed"}
         /\ k # Schedule => Scheduled(r)
         /\ k = Schedule =>
              \A j \in Datasets \ {Schedule} : checkpoint[r][j].status = "absent"
         /\ proc[e].at # "collect" \/ k # Schedule =>
              proc[e].final = finals[r] /\ proc[e].cancelled = cancels[r]
         /\ proc[e].at = "persist" /\ k = Schedule =>
              /\ raw[r][Schedule].at # 0
              /\ proc[e].cancelled \subseteq Scope(Asked(e)) \ proc[e].final
         /\ proc[e].at # "persist" \/ k # Schedule => proc[e].cancelled \subseteq Cancelled
         /\ proc[e].at # "persist" => proc[e].covered \subseteq statcast
         /\ proc[e].covered \ {DayOf(k)} \subseteq statcast
         /\ proc[e] \in Process
<1>1. /\ OrderOK(e) /\ MemoryOK(e) /\ StatusOK(e) /\ RunOK(r) /\ proc[e] \in Process
  BY DEF IInv, TypeOK
<1>2. RequestOf[r] \in Request
  BY Bounds
<1>3. /\ checkpoint[r][k].status \notin {"absent", "completed"}
      /\ k # Schedule => Scheduled(r)
      /\ k = Schedule => \A j \in Datasets \ {Schedule} : checkpoint[r][j].status = "absent"
  BY <1>1 DEF OrderOK, Mine, Collecting
<1> QED  BY <1>1, <1>2, <1>3 DEF MemoryOK, StatusOK, Collecting, Executing, Asked, Run

\* The dataset in hand goes on to its next phase: its checkpoint is still open.
LEMMA DatasetGoesOn ==
  ASSUME IInv, NEW e \in Executors, proc[e].at \in {"collect", "persist", "complete"},
         NEW r \in Runs, r = Run(e), NEW k \in Datasets, k = proc[e].key,
         NEW p \in Process, p.run = r, p.key = k, p.at \in {"persist", "complete"},
         p.final = finals'[r], p.cancelled = cancels'[r],
         p.at = "persist" /\ k = Schedule => raw'[r][Schedule].at # 0,
         p.at = "persist" /\ k = Schedule =>
           p.cancelled \subseteq Scope(RequestOf[r]) \ p.final,
         p.at # "persist" \/ k # Schedule => p.cancelled \subseteq Cancelled',
         p.at = "persist" => p.covered \ {DayOf(k)} \subseteq statcast',
         p.at # "persist" => p.covered \subseteq statcast',
         proc' = [proc EXCEPT ![e] = p],
         checkpoint' = checkpoint, outer' = outer
  PROVE  /\ Moves(e) /\ Claims(e)
         /\ OrderOK(e)' /\ MemoryOK(e)' /\ StatusOK(e)'
<1>1. /\ proc[e].at \in Executing /\ outer[r] # "absent"
      /\ checkpoint[r][k].status \notin {"absent", "completed"}
      /\ k # Schedule => Scheduled(r)
      /\ k = Schedule =>
           \A j \in Datasets \ {Schedule} : checkpoint[r][j].status = "absent"
  BY AtDataset
<1>2. Moves(e) /\ proc'[e] = p
  BY DEF Moves, IInv, TypeOK
<1>3. (Run(e))' = r
  BY <1>2 DEF Run
<1>4. Claims(e)
  BY <1>1, <1>2 DEF Claims, Preparing, Creating
<1>5. OrderOK(e)'
  <2>1. (Mine(e))' = checkpoint[r][k]
    BY <1>2, <1>3 DEF Mine
  <2>2. Scheduled(r) => (Scheduled(Run(e)))'
    BY <1>3 DEF Scheduled
  <2> QED  BY <1>1, <1>2, <1>3, <2>1, <2>2 DEF OrderOK, Creating
<1>6. MemoryOK(e)'
  BY <1>2, <1>3 DEF MemoryOK, Asked
<1>7. StatusOK(e)'
  BY <1>1, <1>2, <1>3 DEF StatusOK, Preparing
<1> QED  BY <1>2, <1>4, <1>5, <1>6, <1>7

LEMMA CollectScheduleKeeps ==
  ASSUME IInv, NEW e \in Executors, CollectSchedule(e)
  PROVE  IInv'
<1>1. /\ proc[e].at = "collect" /\ proc[e].key = Schedule
      /\ Index(Run(e), Schedule, 1)
      /\ UNCHANGED <<outer, stats, checkpoint, seenAt, statcast, watermark, faults>>
  BY DEF CollectSchedule, At
<1>2. PICK r \in Runs : r = Run(e)
  BY <1>1, ExecutorsWork
<1> DEFINE Shows(final, cancelled) ==
             /\ finals' = [finals EXCEPT ![Run(e)] = final]
             /\ cancels' = [cancels EXCEPT ![Run(e)] = cancelled]
             /\ proc' = [proc EXCEPT ![e].at = "persist", ![e].final = final,
                                     ![e].cancelled = cancelled]
<1>17. PICK final \in SUBSET Scope(Asked(e)) :
         \E cancelled \in SUBSET (Scope(Asked(e)) \ final) : Shows(final, cancelled)
  BY DEF CollectSchedule
<1>3. PICK cancelled \in SUBSET (Scope(Asked(e)) \ final) : Shows(final, cancelled)
  BY <1>17
<1>4. Schedule \in Datasets
  BY Bounds
<1>5. /\ proc[e].at \in Executing /\ RequestOf[r] \in Request /\ Asked(e) = RequestOf[r]
      /\ \A j \in Datasets \ {Schedule} : checkpoint[r][j].status = "absent"
      /\ proc[e].covered \subseteq statcast /\ proc[e] \in Process
      /\ checkpoint[r][Schedule].status # "completed"
  BY <1>1, <1>2, <1>4, AtDataset
<1>6. final \in SUBSET Days /\ cancelled \in SUBSET Days
  BY <1>5, ScopeOfDays
<1>7. TypeOK /\ OuterFollowsStats /\ WatermarkIsBacked /\ \A s \in Runs : RunOK(s)
  BY DEF IInv
<1> DEFINE p == [proc[e] EXCEPT !.at = "persist", !.final = final,
                         !.cancelled = cancelled]
<1>8. /\ p \in Process /\ p.run = r /\ p.key = Schedule /\ p.at = "persist"
      /\ p.final = final /\ p.covered = proc[e].covered
      /\ p.cancelled = cancelled
  BY <1>1, <1>2, <1>5, <1>6 DEF Process, Phases, Executing, Collecting, Run
<1>9. proc' = [proc EXCEPT ![e] = p]
  BY <1>3
<1> HIDE DEF p
<1>10. /\ finals' \in [Runs -> SUBSET Days] /\ finals'[r] = final
       /\ cancels' \in [Runs -> SUBSET Days] /\ cancels'[r] = cancelled
       /\ \A s \in Runs \ {r} : finals'[s] = finals[s] /\ cancels'[s] = cancels[s]
  BY <1>2, <1>3, <1>6, <1>7 DEF TypeOK
<1>16. Grows /\ raw'[r][Schedule].at # 0
  BY <1>1, <1>2, <1>4, <1>7, IndexGrows DEF Grows, Cancelled
<1>18. p.cancelled \subseteq Scope(RequestOf[r]) \ p.final
  BY <1>5, <1>8
<1>11. /\ Moves(e) /\ Claims(e)
       /\ OrderOK(e)' /\ MemoryOK(e)' /\ StatusOK(e)'
  <2>1. /\ proc[e].at \in {"collect", "persist", "complete"} /\ Schedule = proc[e].key
        /\ p.at \in {"persist", "complete"}
        /\ p.final = finals'[r] /\ p.cancelled = cancels'[r]
        /\ checkpoint' = checkpoint /\ outer' = outer
    BY <1>1, <1>8, <1>10
  <2>2. p.covered \ {DayOf(Schedule)} \subseteq statcast' /\ p.at = "persist"
    BY <1>1, <1>5, <1>8
  <2> QED
    BY ZenonT(60), <1>2, <1>4, <1>8, <1>9, <1>16, <1>18, <2>1, <2>2, DatasetGoesOn
<1>12. TypeOK'
  BY <1>1, <1>2, <1>4, <1>7, <1>10, <1>11, IndexTyped DEF TypeOK, Moves
<1>13. Frame(e)
  BY <1>1, <1>2, <1>5, <1>10, <1>16, <1>11 DEF Frame, Scheduled
<1>14. \A s \in Runs : RunOK(s)'
  <2> TAKE s \in Runs
  <2>1. CASE s = r
    <3>1. \A j \in Datasets : j > Aggregates => j # Schedule
      BY Bounds DEF Schedule, Aggregates
    <3> QED  BY <1>1, <1>5, <1>7, <2>1, <3>1 DEF RunOK, Scheduled
  <2>2. CASE s # r
    BY <1>1, <1>7, <1>10, <1>16, <2>2 DEF RunOK, Scheduled, Grows
  <2> QED  BY <2>1, <2>2
<1>15. WatermarkIsBacked' /\ OuterFollowsStats'
  BY <1>1, <1>7 DEF WatermarkIsBacked, Cancelled, OuterFollowsStats
<1> QED  BY <1>11, <1>12, <1>13, <1>14, <1>15, StepKeeps

LEMMA CollectAggregatesKeeps ==
  ASSUME IInv, NEW e \in Executors, CollectAggregates(e)
  PROVE  IInv'
<1> DEFINE n == CaptureRanges(Asked(e).through, proc[e].effective)
<1>1. /\ proc[e].at = "collect" /\ proc[e].key = Aggregates
      /\ Index(Run(e), Aggregates, n)
      /\ UNCHANGED <<outer, stats, checkpoint, finals, cancels, seenAt, statcast, watermark, faults>>
  BY DEF CollectAggregates, At
<1>2. PICK r \in Runs : r = Run(e)
  BY <1>1, ExecutorsWork
<1>3. PICK rejected \in BOOLEAN :
        proc' = [proc EXCEPT ![e].at = "complete", ![e].windows = n,
                             ![e].rejected = rejected]
  BY DEF CollectAggregates
<1>4. Aggregates \in Datasets /\ Aggregates # Schedule
  BY Bounds DEF Aggregates, Schedule
<1>5. /\ RequestOf[r] \in Request /\ Asked(e) = RequestOf[r]
      /\ proc[e].final = finals[r] /\ proc[e].cancelled = cancels[r]
      /\ proc[e].cancelled \subseteq Cancelled
      /\ proc[e].covered \subseteq statcast /\ proc[e] \in Process
  BY <1>1, <1>2, <1>4, AtDataset
<1>6. n \in Nat
  BY <1>5, RangesTyped DEF Request, Process, Days
<1>7. TypeOK /\ \A s \in Runs : RunOK(s)
  BY DEF IInv
<1> HIDE DEF n
<1> DEFINE p == [proc[e] EXCEPT !.at = "complete", !.windows = n, !.rejected = rejected]
<1>8. /\ p \in Process /\ p.run = r /\ p.key = Aggregates /\ p.at = "complete"
      /\ p.final = finals[r] /\ p.covered = proc[e].covered
      /\ p.cancelled = proc[e].cancelled
  BY <1>1, <1>2, <1>5, <1>6 DEF Process, Phases, Executing, Collecting, Run
<1>9. proc' = [proc EXCEPT ![e] = p]
  BY <1>3
<1> HIDE DEF p
<1>15. Grows /\ Cancelled' = Cancelled
  BY <1>1, <1>2, <1>4, <1>6, <1>7, IndexGrows DEF Grows, Cancelled
<1>10. /\ Moves(e) /\ Claims(e)
       /\ OrderOK(e)' /\ MemoryOK(e)' /\ StatusOK(e)'
  BY <1>1, <1>2, <1>4, <1>5, <1>8, <1>9, <1>15, DatasetGoesOn
<1>11. TypeOK'
  BY <1>1, <1>2, <1>4, <1>6, <1>7, <1>10, IndexTyped DEF TypeOK, Moves
<1>12. RowsKept /\ WatermarkIsBacked'
  BY <1>1, <1>15, RowsUnchanged
<1>13. StatusesKept(e)
  BY <1>1, <1>7 DEF StatusesKept, RunOK
<1>14. OuterFollowsStats'
  BY <1>1 DEF OuterFollowsStats, IInv
<1> QED  BY <1>10, <1>11, <1>12, <1>13, <1>14, RowStepKeeps

LEMMA CollectDayKeeps ==
  ASSUME IInv, NEW e \in Executors, CollectDay(e)
  PROVE  IInv'
<1> DEFINE due == proc[e].final \cap {DayOf(proc[e].key)}
<1>1. /\ proc[e].at = "collect" /\ proc[e].key > Aggregates
      /\ Index(Run(e), proc[e].key, 1)
      /\ UNCHANGED <<outer, stats, checkpoint, finals, cancels, seenAt, statcast, watermark, faults>>
  BY DEF CollectDay, At
<1>2. PICK r \in Runs : r = Run(e)
  BY <1>1, ExecutorsWork
<1>3. PICK k \in Datasets : k = proc[e].key
  BY <1>1, ExecutorsWork
<1>4. PICK confirmed \in {due, {}} :
        proc' = [proc EXCEPT ![e].at = "persist",
                             ![e].covered = proc[e].covered \cup confirmed,
                             ![e].conflict = proc[e].conflict \/ confirmed # due]
  BY DEF CollectDay
<1>5. k # Schedule
  BY <1>1, <1>3, Bounds DEF Aggregates, Schedule
<1>6. /\ proc[e].final = finals[r] /\ proc[e].cancelled = cancels[r]
      /\ proc[e].cancelled \subseteq Cancelled
      /\ proc[e].covered \subseteq statcast /\ proc[e] \in Process
  BY <1>1, <1>2, <1>3, <1>5, AtDataset
<1>7. TypeOK /\ \A s \in Runs : RunOK(s)
  BY DEF IInv
<1>8. ASSUME NEW b \in BOOLEAN
      PROVE  LET p == [proc[e] EXCEPT !.at = "persist",
                                      !.covered = proc[e].covered \cup confirmed,
                                      !.conflict = b]
             IN  /\ p \in Process /\ p.run = r /\ p.key = k /\ p.at = "persist"
                 /\ p.final = finals[r] /\ p.covered = proc[e].covered \cup confirmed
                 /\ p.cancelled = proc[e].cancelled
  <2>1. confirmed \subseteq Days
    BY <1>6 DEF Process
  <2> HIDE DEF due
  <2> QED  BY <1>1, <1>2, <1>3, <1>6, <2>1 DEF Process, Phases, Executing, Collecting, Run
<1> DEFINE p == [proc[e] EXCEPT !.at = "persist",
                                !.covered = proc[e].covered \cup confirmed,
                                !.conflict = proc[e].conflict \/ confirmed # due]
<1>9. /\ p \in Process /\ p.run = r /\ p.key = k /\ p.at = "persist"
      /\ p.final = finals[r] /\ p.covered = proc[e].covered \cup confirmed
      /\ p.cancelled = proc[e].cancelled
  <2>1. (proc[e].conflict \/ confirmed # due) \in BOOLEAN
    OBVIOUS
  <2> QED  BY <1>8, <2>1
<1>10. p.covered \ {DayOf(k)} \subseteq statcast
  <2>1. confirmed \subseteq {DayOf(k)}
    BY <1>3
  <2> HIDE DEF p
  <2> QED  BY <1>6, <1>9, <2>1
<1>11. proc' = [proc EXCEPT ![e] = p]
  BY <1>4
<1> HIDE DEF p
<1>17. Grows /\ Cancelled' = Cancelled
  BY <1>1, <1>2, <1>3, <1>5, <1>7, IndexGrows DEF Grows, Cancelled
<1>12. /\ Moves(e) /\ Claims(e)
       /\ OrderOK(e)' /\ MemoryOK(e)' /\ StatusOK(e)'
  BY <1>1, <1>2, <1>3, <1>5, <1>6, <1>9, <1>10, <1>11, <1>17, DatasetGoesOn
<1>13. TypeOK'
  BY <1>1, <1>2, <1>3, <1>7, <1>12, IndexTyped DEF TypeOK, Moves
<1>14. RowsKept /\ WatermarkIsBacked'
  BY <1>1, <1>17, RowsUnchanged
<1>15. StatusesKept(e)
  BY <1>1, <1>7 DEF StatusesKept, RunOK
<1>16. OuterFollowsStats'
  BY <1>1 DEF OuterFollowsStats, IInv
<1> QED  BY <1>12, <1>13, <1>14, <1>15, <1>16, RowStepKeeps

LEMMA CollectFailsKeeps ==
  ASSUME IInv, NEW e \in Executors, CollectFails(e)
  PROVE  IInv'
<1>1. /\ proc[e].at = "collect" /\ UNCHANGED database /\ clock' = clock
  BY DEF CollectFails, At
<1>2. PICK spare \in {0, 1} : Raise(e, spare)
  BY DEF CollectFails
<1>3. spare \in Nat /\ proc[e].at \in Executing
  BY <1>1 DEF Executing, Collecting
<1>4. TypeOK'
  BY <1>1, <1>2, <1>3, RaiseMoves DEF TypeOK, Moves, IInv, database
<1> QED  BY <1>1, <1>2, <1>3, <1>4, DatabaseKept, RaiseKeeps

LEMMA PersistScheduleKeeps ==
  ASSUME IInv, NEW e \in Executors, PersistSchedule(e)
  PROVE  IInv'
<1> DEFINE at == raw[Run(e)][Schedule].at
           status(d) == CASE d \in proc[e].final -> "final"
                          [] d \in proc[e].cancelled -> "cancelled"
                          [] OTHER -> "scheduled"
<1>1. /\ proc[e].at = "persist" /\ proc[e].key = Schedule
      /\ seenAt' = [d \in Days |->
                      IF d \in Scope(Asked(e)) /\ seenAt[d][status(d)] = 0
                      THEN [seenAt[d] EXCEPT ![status(d)] = at]
                      ELSE seenAt[d]]
      /\ Goto(e, "complete")
      /\ UNCHANGED <<outer, stats, checkpoint, raw, finals, cancels, statcast,
                     watermark, clock, faults>>
  BY DEF PersistSchedule, At
<1>2. PICK r \in Runs : r = Run(e)
  BY <1>1, ExecutorsWork
<1>3. Schedule \in Datasets /\ DayOf(Schedule) \notin Days
  BY Bounds DEF Schedule, DayOf
<1>4. /\ proc[e].final = finals[r] /\ proc[e].cancelled = cancels[r]
      /\ at # 0 /\ proc[e].cancelled \subseteq Scope(Asked(e)) \ proc[e].final
      /\ proc[e] \in Process
      /\ proc[e].covered \ {DayOf(Schedule)} \subseteq statcast
  BY <1>1, <1>2, <1>3, AtDataset
<1>5. proc[e].covered \subseteq statcast
  BY <1>3, <1>4 DEF Process
<1>6. TypeOK /\ \A s \in Runs : RunOK(s)
  BY DEF IInv
<1>7. seenAt' \in [Days -> [GameStatus -> Nat]]
  <2>1. at \in Nat
    BY <1>2, <1>3, <1>6 DEF TypeOK
  <2>2. \A d \in Days : status(d) \in GameStatus /\ seenAt[d] \in [GameStatus -> Nat]
    BY <1>6 DEF TypeOK, GameStatus
  <2> HIDE DEF at, status
  <2> QED  BY <1>1, <2>1, <2>2
<1>8. Moves(e) /\ SameWork(e) /\ proc'[e].at = "complete"
  BY <1>1, <1>6, GotoMoves DEF Phases, Executing, Collecting
<1> DEFINE p == [proc[e] EXCEPT !.at = "complete"]
<1>9. /\ p \in Process /\ p.run = r /\ p.key = Schedule /\ p.at = "complete"
      /\ p.final = finals[r] /\ p.cancelled = cancels[r] /\ p.covered = proc[e].covered
  BY <1>1, <1>2, <1>4 DEF Process, Phases, Executing, Collecting, Run
<1>10. proc' = [proc EXCEPT ![e] = p]
  BY <1>1 DEF Goto
<1> HIDE DEF p
<1>16. Grows
  <2>1. ASSUME NEW d \in Days, seenAt[d]["cancelled"] # 0
        PROVE  seenAt'[d]["cancelled"] # 0
    <3>1. /\ seenAt[d] \in [GameStatus -> Nat] /\ at # 0
          /\ "cancelled" \in GameStatus
      BY <1>4, <1>6 DEF TypeOK, GameStatus
    <3>2. seenAt'[d] \in {seenAt[d], [seenAt[d] EXCEPT ![status(d)] = at]}
      BY <1>1
    <3> HIDE DEF at, status
    <3> QED  BY <2>1, <3>1, <3>2
  <2> HIDE DEF at, status
  <2>2. Cancelled \subseteq Cancelled'
    BY <2>1 DEF Cancelled
  <2> QED  BY <1>1, <2>2 DEF Grows
<1>17. proc[e].cancelled \subseteq Cancelled'
  <2>1. ASSUME NEW d \in proc[e].cancelled
        PROVE  d \in Days /\ seenAt'[d]["cancelled"] # 0
    <3>1. d \in Days /\ d \in Scope(Asked(e)) /\ d \notin proc[e].final
      BY <1>4 DEF Process
    <3>2. status(d) = "cancelled"
      BY <2>1, <3>1
    <3>3. seenAt[d] \in [GameStatus -> Nat] /\ "cancelled" \in GameStatus
      BY <1>6, <3>1 DEF TypeOK, GameStatus
    <3>4. seenAt'[d] = IF seenAt[d]["cancelled"] = 0
                       THEN [seenAt[d] EXCEPT !["cancelled"] = at] ELSE seenAt[d]
      BY <1>1, <3>1, <3>2
    <3> HIDE DEF at, status
    <3> QED  BY <1>4, <3>1, <3>3, <3>4
  <2> QED  BY <2>1 DEF Cancelled
<1>11. /\ Moves(e) /\ Claims(e)
       /\ OrderOK(e)' /\ MemoryOK(e)' /\ StatusOK(e)'
  BY <1>1, <1>2, <1>3, <1>4, <1>5, <1>9, <1>10, <1>16, <1>17, DatasetGoesOn
<1>12. TypeOK'
  BY <1>1, <1>6, <1>7, <1>11 DEF TypeOK, Moves
<1>13. RowsKept /\ WatermarkIsBacked'
  BY <1>1, <1>16, RowsUnchanged
<1>14. StatusesKept(e)
  BY <1>1, <1>6 DEF StatusesKept, RunOK
<1>15. OuterFollowsStats'
  BY <1>1 DEF OuterFollowsStats, IInv
<1> QED  BY <1>11, <1>12, <1>13, <1>14, <1>15, RowStepKeeps

LEMMA PersistDayKeeps ==
  ASSUME IInv, NEW e \in Executors, PersistDay(e)
  PROVE  IInv'
<1>1. /\ proc[e].at = "persist" /\ proc[e].key > Aggregates
      /\ statcast' = statcast \cup (proc[e].covered \cap {DayOf(proc[e].key)})
      /\ Goto(e, "complete")
      /\ UNCHANGED <<outer, stats, checkpoint, raw, finals, cancels, seenAt,
                     watermark, clock, faults>>
  BY DEF PersistDay, At
<1>2. PICK r \in Runs : r = Run(e)
  BY <1>1, ExecutorsWork
<1>3. PICK k \in Datasets : k = proc[e].key
  BY <1>1, ExecutorsWork
<1>15. k # Schedule
  BY <1>1, <1>3, Bounds DEF Aggregates, Schedule
<1>4. /\ proc[e].final = finals[r] /\ proc[e].cancelled = cancels[r]
      /\ proc[e].cancelled \subseteq Cancelled /\ proc[e] \in Process
      /\ proc[e].covered \ {DayOf(k)} \subseteq statcast
  BY <1>1, <1>2, <1>3, <1>15, AtDataset
<1>5. /\ proc[e].covered \subseteq statcast' /\ statcast \subseteq statcast'
  BY <1>1, <1>3, <1>4
<1>6. TypeOK /\ WatermarkIsBacked /\ \A s \in Runs : RunOK(s)
  BY DEF IInv
<1>7. statcast' \in SUBSET Days
  BY <1>1, <1>4, <1>6 DEF TypeOK, Process
<1> DEFINE p == [proc[e] EXCEPT !.at = "complete"]
<1>8. /\ p \in Process /\ p.run = r /\ p.key = k /\ p.at = "complete"
      /\ p.final = finals[r] /\ p.covered = proc[e].covered
      /\ p.cancelled = proc[e].cancelled
  BY <1>1, <1>2, <1>3, <1>4 DEF Process, Phases, Executing, Collecting, Run
<1>9. proc' = [proc EXCEPT ![e] = p]
  BY <1>1 DEF Goto
<1> HIDE DEF p
<1>16. Grows /\ Cancelled' = Cancelled
  BY <1>1, GrowsUnchanged DEF Cancelled
<1>10. /\ Moves(e) /\ Claims(e)
       /\ OrderOK(e)' /\ MemoryOK(e)' /\ StatusOK(e)'
  BY <1>1, <1>2, <1>3, <1>4, <1>5, <1>8, <1>9, <1>15, <1>16, DatasetGoesOn
<1>11. TypeOK'
  BY <1>1, <1>6, <1>7, <1>10 DEF TypeOK, Moves
<1>12. RowsKept /\ WatermarkIsBacked'
  BY <1>1, <1>5, <1>6, <1>16 DEF RowsKept, WatermarkIsBacked, Cancelled
<1>13. StatusesKept(e)
  BY <1>1, <1>6 DEF StatusesKept, RunOK
<1>14. OuterFollowsStats'
  BY <1>1 DEF OuterFollowsStats, IInv
<1> QED  BY <1>10, <1>11, <1>12, <1>13, <1>14, RowStepKeeps

\* A running checkpoint is completed only where the day's game is confirmed.
LEMMA CompleteKeeps ==
  ASSUME IInv, NEW e \in Executors, Complete(e)
  PROVE  IInv'
<1>1. /\ proc[e].at = "complete"
      /\ UNCHANGED <<outer, stats, raw, finals, cancels, seenAt, statcast,
                     watermark, clock, faults>>
  BY DEF Complete, At
<1>2. PICK r \in Runs : r = Run(e)
  BY <1>1, ExecutorsWork
<1>3. PICK k \in Datasets : k = proc[e].key
  BY <1>1, ExecutorsWork
<1>4. /\ proc[e].at \in Executing /\ proc[e].at \in Collecting /\ proc[e] \in Process
      /\ checkpoint[r][k].status \notin {"absent", "completed"}
      /\ k # Schedule => Scheduled(r)
      /\ k = Schedule =>
           \A j \in Datasets \ {Schedule} : checkpoint[r][j].status = "absent"
      /\ proc[e].final = finals[r] /\ proc[e].covered \subseteq statcast
      /\ proc[e].cancelled = cancels[r] /\ proc[e].cancelled \subseteq Cancelled
      /\ outer[r] # "absent"
  BY <1>1, <1>2, <1>3, AtDataset
<1>5. /\ TypeOK /\ OuterFollowsStats /\ WatermarkIsBacked
      /\ \A s \in Runs : RunOK(s)
  BY DEF IInv
<1> DEFINE n == IF k = Aggregates THEN proc[e].windows ELSE 1
           status == IF IsPartial(proc[e]) THEN "partial" ELSE "completed"
           c == IF checkpoint[r][k].status = "running"
                THEN [status |-> status, captures |-> n] ELSE checkpoint[r][k]
<1>6. /\ checkpoint' = [checkpoint EXCEPT ![r][k] = c]
      /\ proc' = [proc EXCEPT ![e] = Absorbed(proc[e], Asked(e), n, raw[r][k].at)]
  BY <1>2, <1>3 DEF Complete
<1>7. checkpoint \in [Runs -> [Datasets -> Row]]
  BY <1>5 DEF TypeOK, RowStatus, Row
<1>8. n \in Nat /\ raw[r][k].at \in Nat
  BY <1>4, <1>5 DEF Process, TypeOK
<1>9. checkpoint[r][k] \in Row
  BY <1>7
<1>10. c \in Row /\ c.status \notin {"absent", "running"}
  BY <1>4, <1>8, <1>9 DEF Row, RowStatus
<1>11. c.status = "completed" => \/ checkpoint[r][k].status = "completed"
                                 \/ ~IsPartial(proc[e])
  BY <1>9 DEF Row
<1> HIDE DEF c, n
<1>12. /\ checkpoint' \in [Runs -> [Datasets -> Row]]
       /\ checkpoint'[r][k] = c
       /\ \A j \in Datasets \ {k} : checkpoint'[r][j] = checkpoint[r][j]
       /\ \A s \in Runs \ {r} : checkpoint'[s] = checkpoint[s]
  BY ONLY <1>7, <1>6, <1>10, RowReplaced, Zenon
<1>13. \A s \in Runs : Scheduled(s) => Scheduled(s)'
  BY <1>10, <1>12, Bounds DEF Scheduled
<1>14. Scheduled(r)'
  BY <1>4, <1>10, <1>12, <1>13 DEF Scheduled
<1>15. /\ Moves(e) /\ Claims(e)
       /\ OrderOK(e)' /\ MemoryOK(e)' /\ StatusOK(e)'
  <2>1. checkpoint'[Run(e)][Schedule].status \notin {"absent", "running"}
    BY <1>2, <1>14 DEF Scheduled
  <2>2. Cancelled' = Cancelled
    BY <1>1 DEF Cancelled
  <2> QED  BY <1>1, <1>2, <1>4, <1>6, <1>8, <2>1, <2>2, AbsorbedOK DEF Run
<1>16. TypeOK'
  BY <1>1, <1>5, <1>12, <1>15 DEF TypeOK, Moves, RowStatus, Row
<1>17. Frame(e)
  <2>1. \A s \in Runs, j \in Datasets :
          checkpoint[s][j].status # "absent" => checkpoint'[s][j].status # "absent"
    BY <1>10, <1>12
  <2>2. \A s \in Runs : \/ s = Run(e) /\ proc[e].at \in Executing
                        \/ /\ finals'[s] = finals[s] /\ cancels'[s] = cancels[s]
                           /\ checkpoint'[s] = checkpoint[s]
    BY <1>1, <1>2, <1>4, <1>12
  <2>3. Grows
    BY <1>1, GrowsUnchanged
  <2> QED  BY <1>1, <1>13, <1>15, <2>1, <2>2, <2>3 DEF Frame
<1>18. \A s \in Runs : RunOK(s)'
  <2> TAKE s \in Runs
  <2>1. RunOK(s)
    BY <1>5
  <2>2. (\E j \in Datasets \ {Schedule} : checkpoint'[s][j].status # "absent")
          => Scheduled(s)'
    <3>1. CASE s = r
      BY <1>14, <3>1
    <3>2. CASE s # r
      BY <1>12, <1>13, <2>1, <3>2 DEF RunOK
    <3> QED  BY <3>1, <3>2
  <2>3. ASSUME NEW j \in Datasets, j > Aggregates,
               checkpoint'[s][j].status = "completed", DayOf(j) \in finals[s]
        PROVE  DayOf(j) \in statcast
    <3>1. CASE checkpoint[s][j].status = "completed"
      BY <2>1, <2>3, <3>1 DEF RunOK
    <3>2. CASE checkpoint[s][j].status # "completed"
      <4>1. s = r /\ j = k
        BY <1>12, <2>3, <3>2
      <4>2. ~IsPartial(proc[e])
        BY <1>11, <1>12, <2>3, <3>2, <4>1
      <4>3. DayOf(k) \notin proc[e].final \ proc[e].covered
        BY <1>3, <2>3, <4>1, <4>2 DEF IsPartial
      <4> QED  BY <1>4, <2>3, <4>1, <4>3
    <3> QED  BY <3>1, <3>2
  <2>4. ASSUME checkpoint'[s][Schedule].status = "completed"
        PROVE  cancels[s] \subseteq Cancelled
    <3>1. Schedule \in Datasets
      BY Bounds
    <3>2. CASE checkpoint[s][Schedule].status = "completed"
      BY <2>1, <3>2 DEF RunOK
    <3>3. CASE checkpoint[s][Schedule].status # "completed"
      <4>1. s = r
        BY <1>12, <2>4, <3>1, <3>3
      <4> QED  BY <1>4, <4>1
    <3> QED  BY <3>2, <3>3
  <2>5. Cancelled' = Cancelled
    BY <1>1 DEF Cancelled
  <2> QED  BY <1>1, <2>1, <2>2, <2>3, <2>4, <2>5 DEF RunOK
<1>19. WatermarkIsBacked' /\ OuterFollowsStats'
  BY <1>1, <1>5 DEF WatermarkIsBacked, Cancelled, OuterFollowsStats
<1> QED  BY <1>15, <1>16, <1>17, <1>18, <1>19, StepKeeps

-----------------------------------------------------------------------------
(* The end of a run. *)

\* What a run judges its season by is evidence, its own or the database's.
LEMMA JudgedBacked ==
  ASSUME IInv, NEW e \in Executors, proc[e].at = "evaluate"
  PROVE  Judged(e) \in Completeness /\ Backed(Judged(e))
<1>1. PICK r \in Runs : r = Run(e)
  BY ExecutorsWork
<1>2. /\ TypeOK /\ WatermarkIsBacked /\ proc[e] \in Process
      /\ proc[e].covered \subseteq statcast /\ proc[e].cancelled \subseteq Cancelled
  BY DEF IInv, MemoryOK, TypeOK
<1>3. Asked(e) \in Request
  BY <1>1, Bounds DEF Asked, Run
<1> DEFINE q == Asked(e)
           complete == AggregateComplete(e)
           valid == ScheduleValid(proc[e].final, proc[e].covered, complete)
           cancelled == proc[e].cancelled
<1>4. complete \in Nat /\ q.through \in Nat
  BY <1>2, <1>3, Bounds DEF AggregateComplete, Process, Request
<1>5. valid \in SUBSET Days /\ valid \subseteq statcast /\ Scope(q) \in SUBSET Days
      /\ cancelled \in SUBSET Days /\ cancelled \subseteq Cancelled
  BY <1>2, <1>3, ScopeOfDays DEF ScheduleValid, Process
<1>6. Judged(e) = IF q.command = "daily" THEN MergeDaily(q.through, complete)
                  ELSE CalculateCompleteness(q.through, Scope(q), valid, cancelled)
  BY DEF Judged
<1> HIDE DEF q, complete, valid, cancelled
<1>7. /\ MergeDaily(q.through, complete) \in Completeness
      /\ Backed(MergeDaily(q.through, complete))
  BY <1>2, <1>4, MergeBacked
<1>8. /\ CalculateCompleteness(q.through, Scope(q), valid, cancelled) \in Completeness
      /\ Backed(CalculateCompleteness(q.through, Scope(q), valid, cancelled))
  BY <1>4, <1>5, CompletenessBacked
<1> QED  BY <1>6, <1>7, <1>8

LEMMA EvaluateKeeps ==
  ASSUME IInv, NEW e \in Executors, Evaluate(e)
  PROVE  IInv'
<1>1. proc[e].at = "evaluate" /\ UNCHANGED database /\ clock' = clock
  BY DEF Evaluate, At
<1>2. PICK eligible \in BOOLEAN :
        LET result == Judged(e)
            warned == \/ result.partial # 0 \/ proc[e].conflict
                      \/ proc[e].rejected \/ ~eligible
            dated == result.latest # 0 \/ result.contiguous # 0
        IN  proc' = [proc EXCEPT ![e].at = IF eligible /\ dated THEN "advance"
                                                               ELSE "complete_stats",
                                 ![e].result = result,
                                 ![e].outcome = IF warned
                                                THEN "completed_with_warnings"
                                                ELSE "completed"]
  BY DEF Evaluate
<1>3. PICK r \in Runs : r = Run(e)
  BY <1>1, ExecutorsWork
<1>4. /\ proc[e] \in Process /\ OrderOK(e) /\ MemoryOK(e) /\ outer[r] # "absent"
      /\ proc \in [Executors -> Process] /\ TypeOK /\ proc[e].at \in Executing
  BY <1>1, <1>3, ExecutorsWork DEF IInv, TypeOK, Executing, Finishing
<1> DEFINE result == Judged(e)
           phase == IF eligible /\ (result.latest # 0 \/ result.contiguous # 0)
                    THEN "advance" ELSE "complete_stats"
           outcome == IF \/ result.partial # 0 \/ proc[e].conflict
                         \/ proc[e].rejected \/ ~eligible
                      THEN "completed_with_warnings" ELSE "completed"
           p == [proc[e] EXCEPT !.at = phase, !.result = result, !.outcome = outcome]
<1>5. proc' = [proc EXCEPT ![e] = p]
  BY <1>2
<1>6. result \in Completeness /\ Backed(result)
  BY <1>1, JudgedBacked
<1>7. phase \in {"advance", "complete_stats"} /\ outcome \in Success
  BY DEF Success
<1> HIDE DEF result, phase, outcome
<1>8. /\ p \in Process /\ p.at = phase /\ p.run = r /\ p.result = result
      /\ p.outcome = outcome /\ p.covered = proc[e].covered
      /\ p.cancelled = proc[e].cancelled
  BY <1>3, <1>4, <1>6, <1>7 DEF Process, Phases, Executing, Finishing, Run
<1> HIDE DEF p
<1>9. Moves(e) /\ proc'[e] = p
  BY <1>4, <1>5, <1>8 DEF Moves
<1>10. /\ outer' = outer /\ stats' = stats /\ checkpoint' = checkpoint /\ raw' = raw
       /\ finals' = finals /\ cancels' = cancels /\ seenAt' = seenAt /\ statcast' = statcast
       /\ watermark' = watermark
  BY <1>1 DEF database
<1>11. TypeOK'
  BY <1>1, <1>4, <1>9, <1>10 DEF TypeOK, Moves
<1>12. Claims(e)
  BY <1>3, <1>4, <1>7, <1>8, <1>9 DEF Claims, Preparing, Creating
<1>13. OrderOK(e)'
  BY <1>7, <1>8, <1>9 DEF OrderOK, Creating, Collecting
<1>14. MemoryOK(e)'
  BY <1>1, <1>4, <1>6, <1>7, <1>8, <1>9, <1>10 DEF Cancelled, MemoryOK, Backed
<1>15. StatusOK(e)'
  BY <1>4, <1>7, <1>8, <1>9, <1>10 DEF StatusOK, Preparing, Run
<1> QED  BY <1>1, <1>9, <1>11, <1>12, <1>13, <1>14, <1>15, DatabaseKept, RowStepKeeps

LEMMA EvaluateFailsKeeps ==
  ASSUME IInv, NEW e \in Executors, EvaluateFails(e)
  PROVE  IInv'
<1>1. /\ proc[e].at = "evaluate" /\ UNCHANGED database /\ clock' = clock
      /\ Raise(e, 0)
  BY DEF EvaluateFails, At
<1>2. proc[e].at \in Executing
  BY <1>1 DEF Executing, Finishing
<1>3. TypeOK'
  BY <1>1, RaiseMoves DEF TypeOK, Moves, IInv, database
<1> QED  BY <1>1, <1>2, <1>3, DatabaseKept, RaiseKeeps

LEMMA AdvanceKeeps ==
  ASSUME IInv, NEW e \in Executors, Advance(e)
  PROVE  IInv'
<1>1. /\ proc[e].at = "advance"
      /\ watermark' = Advanced(watermark, proc[e].result, proc[e].observed, Run(e))
      /\ Goto(e, "complete_stats")
      /\ UNCHANGED <<outer, stats, checkpoint, raw, finals, cancels, seenAt, statcast,
                     clock, faults>>
  BY DEF Advance, At
<1>2. PICK r \in Runs : r = Run(e)
  BY <1>1, ExecutorsWork
<1>3. /\ proc[e] \in Process /\ MemoryOK(e) /\ StatusOK(e) /\ outer[r] # "absent"
      /\ TypeOK /\ WatermarkIsBacked /\ OuterFollowsStats /\ \A s \in Runs : RunOK(s)
  BY <1>1, <1>2, ExecutorsWork DEF IInv
<1>4. /\ Backed(proc[e].result) /\ proc[e].outcome \in Success
      /\ proc[e].cancelled \subseteq Cancelled
      /\ proc[e].covered \subseteq statcast /\ proc[e].at \in Executing
  BY <1>1, <1>3 DEF MemoryOK, StatusOK, Executing, Finishing
<1>5. r \in Nat
  BY Bounds DEF Runs
<1>6. /\ watermark' \in [requested : Nat, observed : Nat, latest : Nat,
                         contiguous : Nat, partial : Nat, source : Nat]
      /\ WatermarkIsBacked'
  <2>1. proc[e].result \in Completeness /\ proc[e].observed \in Nat
    BY <1>3 DEF Process
  <2>2. watermark' = Advanced(watermark, proc[e].result, proc[e].observed, r)
    BY <1>1, <1>2
  <2>3. statcast' = statcast /\ Cancelled' = Cancelled
    BY <1>1 DEF Cancelled
  <2> QED  BY <1>3, <1>4, <1>5, <2>1, <2>2, <2>3, AdvancedBacked DEF WatermarkIsBacked, Cancelled
<1>7. Moves(e) /\ SameWork(e) /\ proc'[e].at = "complete_stats"
  BY <1>1, <1>3, GotoMoves DEF Phases, Executing, Finishing
<1>8. TypeOK'
  BY <1>1, <1>3, <1>6, <1>7 DEF TypeOK, Moves
<1>9. Claims(e)
  BY <1>4, <1>7 DEF Claims, SameWork, Preparing, Creating
<1>10. OrderOK(e)' /\ MemoryOK(e)' /\ StatusOK(e)'
  BY <1>1, <1>2, <1>3, <1>4, <1>7, QuietOK DEF Cancelled, SameWork
<1>11. RowsKept
  BY <1>1, GrowsUnchanged DEF RowsKept
<1>12. StatusesKept(e)
  BY <1>1, <1>3 DEF StatusesKept, RunOK
<1>13. OuterFollowsStats'
  BY <1>1, <1>3 DEF OuterFollowsStats
<1> QED  BY <1>6, <1>7, <1>8, <1>9, <1>10, <1>11, <1>12, <1>13, RowStepKeeps

LEMMA CompleteStatsKeeps ==
  ASSUME IInv, NEW e \in Executors, CompleteStats(e)
  PROVE  IInv'
<1>1. /\ proc[e].at = "complete_stats"
      /\ UNCHANGED <<outer, checkpoint, raw, finals, cancels, seenAt, statcast,
                     watermark, clock, faults>>
  BY DEF CompleteStats, At
<1>2. PICK r \in Runs : r = Run(e)
  BY <1>1, ExecutorsWork
<1>3. /\ proc[e] \in Process /\ MemoryOK(e) /\ StatusOK(e) /\ outer[r] # "absent"
      /\ TypeOK /\ OuterFollowsStats /\ \A s \in Runs : RunOK(s)
      /\ RowsKept /\ WatermarkIsBacked'
  BY <1>1, <1>2, ExecutorsWork, RowsUnchanged, GrowsUnchanged DEF IInv
<1>4. /\ proc[e].outcome \in Success
      /\ proc[e].cancelled \subseteq Cancelled
      /\ proc[e].covered \subseteq statcast /\ proc[e].at \in Executing
  BY <1>1, <1>3 DEF MemoryOK, StatusOK, Executing, Finishing
<1>5. CASE /\ stats[Run(e)] \in {"running", proc[e].outcome}
           /\ stats' = [stats EXCEPT ![Run(e)] = proc[e].outcome]
           /\ Goto(e, "complete_outer")
  <2> DEFINE outcome == proc[e].outcome
  <2>1. /\ stats[r] \in {"running", outcome}
        /\ stats' = [stats EXCEPT ![r] = outcome] /\ outcome \in Success
    BY <1>2, <1>4, <1>5
  <2> HIDE DEF outcome
  <2>2. Moves(e) /\ SameWork(e) /\ proc'[e].at = "complete_outer"
    BY <1>3, <1>5, GotoMoves DEF Phases, Executing, Finishing
  <2>3. outcome \in Statuses
    BY <2>1 DEF Statuses, Terminal
  <2>4. TypeOK'
    BY <1>1, <1>3, <2>1, <2>2, <2>3 DEF TypeOK, Moves
  <2>5. stats \in [Runs -> Statuses] /\ stats' \in [Runs -> Statuses]
    BY <1>3, <2>4 DEF TypeOK
  <2>6. Claims(e)
    BY <1>4, <2>2 DEF Claims, SameWork, Preparing, Creating
  <2>7. OrderOK(e)' /\ MemoryOK(e)'
    BY <1>1, <1>4, <2>2 DEF Cancelled, OrderOK, MemoryOK, SameWork, Creating, Collecting
  <2>8. StatusOK(e)'
    <3>1. (Run(e))' = r /\ proc'[e].outcome = outcome
      BY <1>2, <2>2 DEF SameWork, Run, outcome
    <3>2. stats'[r] = outcome
      BY <2>1, <2>5
    <3> QED  BY <1>1, <1>3, <2>1, <2>2, <3>1, <3>2 DEF StatusOK, Preparing
  <2>9. StatusesKept(e)
    BY <1>1, <1>3, <2>1, <2>5 DEF StatusesKept, RunOK, Success
  <2>10. OuterFollowsStats'
    BY <1>1, <1>3, <2>1, <2>5 DEF OuterFollowsStats, Success
  <2> QED  BY <1>3, <2>2, <2>4, <2>6, <2>7, <2>8, <2>9, <2>10, RowStepKeeps
<1>6. CASE stats' = stats /\ Raise(e, 0)
  <2>1. UNCHANGED database
    BY <1>1, <1>6 DEF database
  <2>2. TypeOK'
    BY <1>1, <1>3, <1>6, RaiseMoves DEF TypeOK, Moves
  <2> QED  BY <1>4, <1>6, <2>1, <2>2, DatabaseKept, RaiseKeeps
<1> QED  BY <1>5, <1>6 DEF CompleteStats

LEMMA CompleteOuterKeeps ==
  ASSUME IInv, NEW e \in Executors, CompleteOuter(e)
  PROVE  IInv'
<1>1. /\ proc[e].at = "complete_outer"
      /\ UNCHANGED <<stats, checkpoint, raw, finals, cancels, seenAt, statcast,
                     watermark, clock, faults>>
  BY DEF CompleteOuter, At
<1>2. PICK r \in Runs : r = Run(e)
  BY <1>1, ExecutorsWork
<1>3. /\ proc[e] \in Process /\ StatusOK(e) /\ outer[r] # "absent"
      /\ TypeOK /\ OuterFollowsStats /\ \A s \in Runs : RunOK(s)
      /\ RowsKept /\ WatermarkIsBacked'
  BY <1>1, <1>2, ExecutorsWork, RowsUnchanged, GrowsUnchanged DEF IInv
<1>4. /\ proc[e].outcome \in Success /\ stats[r] = proc[e].outcome
      /\ proc[e].at \in Executing
  BY <1>1, <1>2, <1>3 DEF StatusOK, Executing, Finishing
<1>5. CASE /\ outer[Run(e)] = "running"
           /\ outer' = [outer EXCEPT ![Run(e)] = OuterStatus(proc[e].outcome)]
           /\ Leave(e)
  <2> DEFINE outcome == proc[e].outcome
  <2>1. /\ outer[r] = "running" /\ outer' = [outer EXCEPT ![r] = outcome]
        /\ outcome \in Success /\ stats[r] = outcome
    BY <1>2, <1>4, <1>5 DEF OuterStatus
  <2> HIDE DEF outcome
  <2>2. outcome \in Statuses /\ outcome # "absent"
    BY <2>1 DEF Statuses, Terminal, Success
  <2>3. TypeOK'
    BY <1>1, <1>3, <1>5, <2>1, <2>2, LeaveMoves DEF TypeOK, Moves
  <2>4. outer \in [Runs -> Statuses] /\ outer' \in [Runs -> Statuses]
    BY <1>3, <2>3 DEF TypeOK
  <2>5. StatusesKept(e)
    BY <1>1, <1>3, <2>1, <2>2, <2>4 DEF StatusesKept, RunOK
  <2>6. OuterFollowsStats'
    BY <1>1, <1>3, <2>1, <2>4 DEF OuterFollowsStats
  <2> QED  BY <1>3, <1>5, <2>3, <2>5, <2>6, LeaveKeeps
<1>6. CASE outer' = outer /\ Raise(e, 0)
  <2>1. UNCHANGED database
    BY <1>1, <1>6 DEF database
  <2>2. TypeOK'
    BY <1>1, <1>3, <1>6, RaiseMoves DEF TypeOK, Moves
  <2> QED  BY <1>4, <1>6, <2>1, <2>2, DatabaseKept, RaiseKeeps
<1> QED  BY <1>5, <1>6 DEF CompleteOuter

-----------------------------------------------------------------------------
(* The failure of a run, and what may happen at any time. *)

LEMMA FailCheckpointsKeeps ==
  ASSUME IInv, NEW e \in Executors, FailCheckpoints(e)
  PROVE  IInv'
<1>1. /\ proc[e].at = "fail_checkpoints"
      /\ raw' = [raw EXCEPT ![Run(e)][Unowned].rows = @ + proc[e].spare]
      /\ checkpoint' = [checkpoint EXCEPT ![Run(e)] = FailedCheckpoints(Run(e))]
      /\ proc' = [proc EXCEPT ![e].at = "fail_stats", ![e].spare = 0]
      /\ UNCHANGED <<outer, stats, finals, cancels, seenAt, statcast, watermark, clock, faults>>
  BY DEF FailCheckpoints, At
<1>2. PICK r \in Runs : r = Run(e)
  BY <1>1, ExecutorsWork
<1>3. /\ proc[e] \in Process /\ MemoryOK(e) /\ outer[r] # "absent"
      /\ TypeOK /\ OuterFollowsStats /\ WatermarkIsBacked /\ \A s \in Runs : RunOK(s)
      /\ proc \in [Executors -> Process]
  BY <1>1, <1>2, ExecutorsWork DEF IInv, TypeOK
<1> DEFINE p == [proc[e] EXCEPT !.at = "fail_stats", !.spare = 0]
<1>4. /\ p \in Process /\ p.at = "fail_stats" /\ p.run = r /\ p.covered = proc[e].covered
      /\ p.cancelled = proc[e].cancelled
  BY <1>2, <1>3 DEF Process, Phases, Executing, Failing, Run
<1>5. proc' = [proc EXCEPT ![e] = p]
  BY <1>1
<1> HIDE DEF p
<1>6. Moves(e) /\ proc'[e] = p
  BY <1>3, <1>4, <1>5 DEF Moves
<1>7. checkpoint \in [Runs -> [Datasets -> Row]]
  BY <1>3 DEF TypeOK, RowStatus, Row
<1>8. /\ FailedCheckpoints(r) \in [Datasets -> Row]
      /\ \A k \in Datasets : FailedCheckpoints(r)[k] = Ended(checkpoint[r][k])
  <2>1. ASSUME NEW c \in Row
        PROVE  Ended(c) \in Row
    BY DEF Ended, Row, RowStatus
  <2>2. \A k \in Datasets : checkpoint[r][k] \in Row
    BY <1>7
  <2> QED  BY <2>1, <2>2 DEF FailedCheckpoints
<1>9. checkpoint' = [checkpoint EXCEPT ![r] = FailedCheckpoints(r)]
  BY <1>1, <1>2
<1>10. checkpoint' \in [Runs -> [Datasets -> Row]]
  BY <1>7, <1>8, <1>9
<1>18. Grows
  <2>1. /\ raw \in [Runs -> [Datasets \cup {Unowned} -> [rows : Nat, at : Nat]]]
        /\ Schedule \in Datasets
    BY <1>3, Bounds DEF TypeOK
  <2>3. Schedule # Unowned
    BY Bounds DEF Schedule, Unowned
  <2>2. \A s \in Runs : raw'[s][Schedule] = raw[s][Schedule]
    BY <1>1, <1>2, <2>1, <2>3
  <2> QED  BY <1>1, <2>2 DEF Grows, Cancelled
<1>11. RowsKept
  BY <1>1, <1>7, <1>8, <1>9, <1>18 DEF RowsKept
<1>12. raw' \in [Runs -> [Datasets \cup {Unowned} -> [rows : Nat, at : Nat]]]
  <2> DEFINE Keys == Datasets \cup {Unowned}
             Rows == [rows : Nat, at : Nat]
             c == [raw[r][Unowned] EXCEPT !.rows = raw[r][Unowned].rows + proc[e].spare]
  <2>1. raw \in [Runs -> [Keys -> Rows]] /\ Unowned \in Keys
    BY <1>3 DEF TypeOK
  <2>2. c \in Rows
    BY <1>3, <2>1 DEF Process
  <2>3. raw' = [raw EXCEPT ![r] = [raw[r] EXCEPT ![Unowned] = c]]
    BY <1>1, <1>2
  <2> HIDE DEF Keys, Rows, c
  <2>4. raw' \in [Runs -> [Keys -> Rows]]
    BY <2>1, <2>2, <2>3
  <2> QED  BY <2>4 DEF Keys, Rows
<1>13. TypeOK'
  BY <1>1, <1>3, <1>6, <1>10, <1>12 DEF TypeOK, Moves, Row, RowStatus
<1>14. Claims(e)
  BY <1>1, <1>2, <1>4, <1>6 DEF Claims, Preparing, Creating, Executing, Failing
<1>15. OrderOK(e)' /\ MemoryOK(e)' /\ StatusOK(e)'
  BY <1>1, <1>3, <1>4, <1>6, QuietOK DEF Cancelled, Failing, MemoryOK
<1>16. StatusesKept(e)
  BY <1>1, <1>3 DEF StatusesKept, RunOK
<1>17. WatermarkIsBacked' /\ OuterFollowsStats'
  BY <1>1, <1>3 DEF WatermarkIsBacked, Cancelled, OuterFollowsStats
<1> QED  BY <1>6, <1>11, <1>13, <1>14, <1>15, <1>16, <1>17, RowStepKeeps

LEMMA FailStatsKeeps ==
  ASSUME IInv, NEW e \in Executors, FailStats(e)
  PROVE  IInv'
<1>1. /\ proc[e].at = "fail_stats"
      /\ stats' = [stats EXCEPT ![Run(e)] = IF @ \in Active THEN "failed" ELSE @]
      /\ Goto(e, "fail_outer")
      /\ UNCHANGED <<outer, checkpoint, raw, finals, cancels, seenAt, statcast,
                     watermark, clock, faults>>
  BY DEF FailStats, At
<1>2. PICK r \in Runs : r = Run(e)
  BY <1>1, ExecutorsWork
<1>3. /\ MemoryOK(e) /\ outer[r] # "absent"
      /\ TypeOK /\ OuterFollowsStats /\ \A s \in Runs : RunOK(s)
      /\ RowsKept /\ WatermarkIsBacked'
  BY <1>1, <1>2, ExecutorsWork, RowsUnchanged, GrowsUnchanged DEF IInv
<1>4. stats' = [stats EXCEPT ![r] = IF stats[r] \in Active THEN "failed" ELSE stats[r]]
  BY <1>1, <1>2
<1>5. Moves(e) /\ SameWork(e) /\ proc'[e].at = "fail_outer"
  BY <1>1, <1>3, GotoMoves DEF Phases, Executing, Failing
<1>6. stats \in [Runs -> Statuses] /\ stats' \in [Runs -> Statuses]
  BY <1>3, <1>4 DEF TypeOK, Statuses, Terminal
<1>7. TypeOK'
  BY <1>1, <1>3, <1>5, <1>6 DEF TypeOK, Moves
<1>8. Claims(e)
  BY <1>1, <1>5 DEF Claims, SameWork, Preparing, Creating, Executing, Failing
<1>9. OrderOK(e)' /\ MemoryOK(e)' /\ StatusOK(e)'
  BY <1>1, <1>2, <1>3, <1>5, QuietOK DEF Cancelled, Failing, MemoryOK, SameWork
<1>10. StatusesKept(e)
  BY <1>1, <1>3, <1>4, <1>6 DEF StatusesKept, RunOK, Success, Active
<1>11. OuterFollowsStats'
  BY <1>1, <1>3, <1>4, <1>6 DEF OuterFollowsStats, Success, Active
<1> QED  BY <1>3, <1>5, <1>7, <1>8, <1>9, <1>10, <1>11, RowStepKeeps

LEMMA FailOuterKeeps ==
  ASSUME IInv, NEW e \in Executors, FailOuter(e)
  PROVE  IInv'
<1>1. /\ proc[e].at = "fail_outer"
      /\ outer' = [outer EXCEPT ![Run(e)] = IF @ \in Active THEN "failed" ELSE @]
      /\ Leave(e)
      /\ UNCHANGED <<stats, checkpoint, raw, finals, cancels, seenAt, statcast,
                     watermark, clock, faults>>
  BY DEF FailOuter, At
<1>2. PICK r \in Runs : r = Run(e)
  BY <1>1, ExecutorsWork
<1>3. /\ TypeOK /\ OuterFollowsStats /\ \A s \in Runs : RunOK(s)
      /\ RowsKept /\ WatermarkIsBacked'
  BY <1>1, RowsUnchanged, GrowsUnchanged DEF IInv
<1>4. outer' = [outer EXCEPT ![r] = IF outer[r] \in Active THEN "failed" ELSE outer[r]]
  BY <1>1, <1>2
<1>5. outer \in [Runs -> Statuses] /\ outer' \in [Runs -> Statuses]
  BY <1>3, <1>4 DEF TypeOK, Statuses, Terminal
<1>6. TypeOK'
  BY <1>1, <1>3, <1>5, LeaveMoves DEF TypeOK, Moves
<1>7. StatusesKept(e)
  BY <1>1, <1>3, <1>4, <1>5 DEF StatusesKept, RunOK, Active
<1>8. OuterFollowsStats'
  BY <1>1, <1>3, <1>4, <1>5 DEF OuterFollowsStats, Success
<1> QED  BY <1>1, <1>3, <1>6, <1>7, <1>8, LeaveKeeps

LEMMA CrashKeeps ==
  ASSUME IInv, NEW e \in Executors, Crash(e)
  PROVE  IInv'
<1>1. Leave(e) /\ UNCHANGED database /\ clock' = clock
  BY DEF Crash
<1>2. TypeOK'
  BY <1>1, LeaveMoves DEF TypeOK, Moves, IInv, database
<1> QED  BY <1>1, <1>2, DatabaseKept, LeaveKeeps

\* A startup of the service touches the owning rows and nothing else.
LEMMA ServiceStartsKeeps ==
  ASSUME IInv, ServiceStarts
  PROVE  IInv'
<1>1. /\ outer' = [r \in Runs |-> IF outer[r] \in Active THEN "failed" ELSE outer[r]]
      /\ UNCHANGED <<stats, checkpoint, raw, finals, cancels, seenAt, statcast,
                     watermark, clock, proc>>
  BY DEF ServiceStarts
<1>2. /\ TypeOK /\ Exclusive /\ OuterFollowsStats /\ WatermarkIsBacked
      /\ \A r \in Runs : RunOK(r)
      /\ \A e \in Executors : OrderOK(e) /\ MemoryOK(e) /\ StatusOK(e)
  BY DEF IInv
<1>3. /\ outer \in [Runs -> Statuses] /\ outer' \in [Runs -> Statuses]
      /\ \A r \in Runs : \/ outer'[r] = outer[r]
                         \/ outer'[r] = "failed" /\ outer[r] \in Active
  BY <1>1, <1>2 DEF TypeOK, Statuses, Terminal
<1>4. TypeOK'
  BY <1>1, <1>2, <1>3 DEF TypeOK
<1>5. Exclusive'
  BY <1>1, <1>2 DEF Exclusive, Run
<1>6. ASSUME NEW e \in Executors
      PROVE  OrderOK(e)' /\ MemoryOK(e)' /\ StatusOK(e)'
  <2>1. OrderOK(e)'
    BY <1>1, <1>2 DEF OrderOK, Mine, Run, Scheduled
  <2>2. MemoryOK(e)'
    BY <1>1, <1>2 DEF Cancelled, MemoryOK, Run, Asked, Backed
  <2>3. StatusOK(e)'
    BY <1>1, <1>2, <1>3 DEF StatusOK, Run, Active
  <2> QED  BY <2>1, <2>2, <2>3
<1>7. ASSUME NEW r \in Runs
      PROVE  RunOK(r)'
  <2>1. RunOK(r) /\ (outer'[r] = "absent" => outer[r] = "absent")
    BY <1>2, <1>3 DEF Active
  <2> QED  BY <1>1, <2>1 DEF RunOK, Scheduled, Cancelled
<1>8. WatermarkIsBacked' /\ OuterFollowsStats'
  BY <1>1, <1>2, <1>3 DEF WatermarkIsBacked, Cancelled, OuterFollowsStats, Success
<1> QED  BY <1>4, <1>5, <1>6, <1>7, <1>8 DEF IInv

-----------------------------------------------------------------------------
(* The theorems. *)

LEMMA Initially == Init => IInv
<1> SUFFICES ASSUME Init PROVE IInv
  OBVIOUS
<1>1. \A e \in Executors : proc[e] = Idle
  BY DEF Init
<1>2. TypeOK
  BY IdleTyped DEF Init, TypeOK, Statuses, NoCheckpoint, NoRows
<1>3. Exclusive
  BY <1>1 DEF Exclusive, Idle, Executing, Collecting, Finishing, Failing, Creating
<1>4. \A e \in Executors : OrderOK(e) /\ MemoryOK(e) /\ StatusOK(e)
  BY <1>1 DEF OrderOK, MemoryOK, StatusOK, Idle, Collecting, Preparing
<1>5. \A r \in Runs : RunOK(r)
  BY DEF Init, RunOK, NoCheckpoint
<1>6. WatermarkIsBacked
  BY DEF Init, WatermarkIsBacked, Cancelled
<1>7. OuterFollowsStats
  BY DEF Init, OuterFollowsStats, Success
<1> QED  BY <1>2, <1>3, <1>4, <1>5, <1>6, <1>7 DEF IInv

LEMMA Stuttering ==
  ASSUME IInv, UNCHANGED vars
  PROVE  IInv'
<1>1. /\ TypeOK /\ Exclusive /\ OuterFollowsStats /\ WatermarkIsBacked
      /\ \A r \in Runs : RunOK(r)
      /\ \A e \in Executors : OrderOK(e) /\ MemoryOK(e) /\ StatusOK(e)
  BY DEF IInv
<1> USE DEF vars
<1>2. TypeOK'
  BY <1>1 DEF TypeOK
<1>6. Exclusive'
  BY <1>1 DEF Exclusive, Run
<1>3. ASSUME NEW e \in Executors
      PROVE  OrderOK(e)' /\ MemoryOK(e)' /\ StatusOK(e)'
  <2>1. OrderOK(e)'
    BY <1>1 DEF OrderOK, Mine, Run, Scheduled
  <2>2. MemoryOK(e)'
    BY <1>1 DEF MemoryOK, Run, Asked, Backed, Cancelled
  <2>3. StatusOK(e)'
    BY <1>1 DEF StatusOK, Run
  <2> QED  BY <2>1, <2>2, <2>3
<1>4. \A r \in Runs : RunOK(r)'
  BY <1>1 DEF RunOK, Scheduled, Cancelled
<1>5. WatermarkIsBacked' /\ OuterFollowsStats'
  BY <1>1 DEF WatermarkIsBacked, Cancelled, OuterFollowsStats
<1> QED  BY <1>2, <1>3, <1>4, <1>5, <1>6 DEF IInv

LEMMA Inductive == IInv /\ [Next]_vars => IInv'
<1> SUFFICES ASSUME IInv, [Next]_vars PROVE IInv'
  OBVIOUS
<1>1. ASSUME NEW e \in Executors, Starting(e)
      PROVE  IInv'
  BY <1>1, CreateRunKeeps, StartOuterKeeps, CreateStatsKeeps, StartStatsKeeps,
     LockKeeps, ResumeKeeps DEF Starting
<1>2. ASSUME NEW e \in Executors, Collection(e)
      PROVE  IInv'
  BY <1>2, OpenKeeps, CollectScheduleKeeps, CollectAggregatesKeeps, CollectDayKeeps,
     CollectFailsKeeps, PersistScheduleKeeps, PersistDayKeeps, CompleteKeeps
     DEF Collection
<1>3. ASSUME NEW e \in Executors, Ending(e)
      PROVE  IInv'
  BY <1>3, EvaluateKeeps, EvaluateFailsKeeps, AdvanceKeeps, CompleteStatsKeeps,
     CompleteOuterKeeps, FailCheckpointsKeeps, FailStatsKeeps, FailOuterKeeps
     DEF Ending
<1> QED  BY <1>1, <1>2, <1>3, CrashKeeps, ServiceStartsKeeps, Stuttering DEF Next

\* The inductive invariant holds in every state of every acquisition.
THEOREM Invariance == Spec => []IInv
BY Initially, Inductive, PTL DEF Spec

\* The latest day of the watermark has Statcast's rows of its game; the day the
\* season is complete through has them too, or its game was shown cancelled, and
\* stands beyond the latest day only in the second case; neither is beyond the day
\* asked for (calculate_completeness, _merge_daily_completeness,
\* advance_completeness_watermark).
THEOREM WatermarkStandsOnEvidence == Spec => []WatermarkIsBacked
<1>1. IInv => WatermarkIsBacked
  BY DEF IInv
<1> QED  BY <1>1, Invariance, PTL

\* No order of runs, resumes and crashes moves the shared watermark back
\* (advance_completeness_watermark).
THEOREM WatermarkOnlyAdvances == Spec => WatermarkNeverRegresses
<1> DEFINE Forward == /\ watermark.requested <= watermark'.requested
                      /\ watermark.observed <= watermark'.observed
                      /\ watermark.latest <= watermark'.latest
                      /\ watermark.contiguous <= watermark'.contiguous
<1>1. ASSUME IInv, watermark' = watermark
      PROVE  Forward
  BY <1>1 DEF IInv, TypeOK
<1>2. ASSUME IInv, NEW e \in Executors, Advance(e)
      PROVE  Forward
  <2>1. /\ proc[e].at = "advance"
        /\ watermark' = Advanced(watermark, proc[e].result, proc[e].observed, Run(e))
    BY <1>2 DEF Advance, At
  <2>2. /\ TypeOK /\ WatermarkIsBacked /\ proc[e] \in Process
        /\ Backed(proc[e].result)
    BY <1>2, <2>1 DEF IInv, MemoryOK, TypeOK
  <2>3. PICK r \in Nat : r = Run(e)
    BY <2>2 DEF Process, Run
  <2>4. proc[e].result \in Completeness /\ proc[e].observed \in Nat
    BY <2>2 DEF Process
  <2>5. watermark' = Advanced(watermark, proc[e].result, proc[e].observed, r)
    BY <2>1, <2>3
  <2> QED  BY <2>2, <2>4, <2>5, AdvancedBacked
<1>3. IInv /\ [Next]_vars => [Forward]_vars
  <2> SUFFICES ASSUME IInv, [Next]_vars PROVE Forward
    OBVIOUS
  <2>1. ASSUME NEW e \in Executors, Starting(e) \/ Collection(e) \/ Crash(e)
        PROVE  watermark' = watermark
    <3>1. CASE Starting(e)
      BY <3>1 DEF Starting, CreateRun, StartOuter, CreateStats, StartStats, Lock,
         Resume, database
    <3>2. CASE Collection(e)
      BY <3>2 DEF Collection, Open, CollectSchedule, CollectAggregates, CollectDay,
         CollectFails, PersistSchedule, PersistDay, Complete, database
    <3>3. CASE Crash(e)
      BY <3>3 DEF Crash, database
    <3> QED  BY <2>1, <3>1, <3>2, <3>3
  <2>2. ASSUME NEW e \in Executors, Ending(e)
        PROVE  watermark' = watermark \/ Advance(e)
    BY <2>2 DEF Ending, Evaluate, EvaluateFails, CompleteStats, CompleteOuter,
       FailCheckpoints, FailStats, FailOuter, database
  <2>3. ServiceStarts \/ UNCHANGED vars => watermark' = watermark
    BY DEF ServiceStarts, vars
  <2>4. Next \/ UNCHANGED vars
    OBVIOUS
  <2> HIDE DEF Forward
  <2> QED  BY <1>1, <1>2, <2>1, <2>2, <2>3, <2>4 DEF Next
<1> QED  BY <1>3, Invariance, PTL DEF Spec, WatermarkNeverRegresses

\* A collection run is reported complete only as its statistics run is, whoever
\* executed and re-executed it (CompleteOuter, Resume).
THEOREM OuterReportsStats == Spec => []OuterFollowsStats
<1>1. IInv => OuterFollowsStats
  BY DEF IInv
<1> QED  BY <1>1, Invariance, PTL

-----------------------------------------------------------------------------
(***************************************************************************)
(* The counts of a run.  CompletedRunReconciles is not inductive, and IInv *)
(* says nothing of it.  A run completes because two numbers agree: the     *)
(* rows it owns and what its last execution counted.  CountInv says why    *)
(* that settles every dataset: what an execution counts is, dataset by     *)
(* dataset, all or none of what a checkpoint names and never more than the *)
(* rows there are (Tally), so equal totals leave no dataset with a row too *)
(* many (CountsAgree, Exact).  Nobody adds rows afterwards: a process that *)
(* gets the lock of a run that is already complete (LockedOut, Untouched)  *)
(* can only finish a dataset nobody had begun, with the rows it counts.    *)
(***************************************************************************)

Keys == Datasets \cup {Unowned}

\* c[k] rows for every checkpoint k.
Counted(c) == UNION {{k} \X (1 .. c[k]) : k \in Keys}

LEMMA KeysFinite == IsFiniteSet(Keys)
<1>1. 0 \in Int /\ MaxDay + 1 \in Int
  BY Bounds
<1>2. IsFiniteSet(0 .. MaxDay + 1)
  BY <1>1, FS_Interval
<1>3. IsFiniteSet(Datasets) /\ IsFiniteSet({Unowned})
  BY <1>2, Bounds, FS_Singleton
<1> QED  BY <1>3, FS_Union DEF Keys

LEMMA RowsOfOne ==
  ASSUME NEW k, NEW n \in Nat
  PROVE  IsFiniteSet({k} \X (1 .. n)) /\ Cardinality({k} \X (1 .. n)) = n
<1>1. IsFiniteSet({k}) /\ Cardinality({k}) = 1
  BY FS_Singleton
<1>2. 1 \in Int /\ n \in Int /\ (IF 1 > n THEN 0 ELSE n - 1 + 1) = n
  OBVIOUS
<1>3. IsFiniteSet(1 .. n) /\ Cardinality(1 .. n) = n
  <2>1. /\ IsFiniteSet(1 .. n)
        /\ Cardinality(1 .. n) = IF 1 > n THEN 0 ELSE n - 1 + 1
    BY ONLY <1>2, FS_Interval
  <2> QED  BY <1>2, <2>1
<1>4. /\ IsFiniteSet({k} \X (1 .. n))
      /\ Cardinality({k} \X (1 .. n)) = Cardinality({k}) * Cardinality(1 .. n)
  BY ONLY <1>1, <1>3, FS_Product
<1>5. 1 * n = n
  OBVIOUS
<1> QED  BY <1>1, <1>3, <1>4, <1>5

LEMMA CountedFinite ==
  ASSUME NEW c \in [Keys -> Nat]
  PROVE  IsFiniteSet(Counted(c)) /\ Cardinality(Counted(c)) \in Nat
<1> DEFINE T == {{k} \X (1 .. c[k]) : k \in Keys}
           f == [k \in Keys |-> {k} \X (1 .. c[k])]
<1>1. f \in Surjection(Keys, T)
  <2>1. f \in [Keys -> T] /\ \A t \in T : \E k \in Keys : f[k] = t
    OBVIOUS
  <2> QED  BY <2>1 DEF Surjection
<1>2. \A t \in T : IsFiniteSet(t)
  <2> TAKE t \in T
  <2>1. PICK k \in Keys : t = {k} \X (1 .. c[k])
    OBVIOUS
  <2>2. c[k] \in Nat
    BY <2>1
  <2> QED  BY <2>1, <2>2, RowsOfOne
<1> HIDE DEF f, T
<1>3. IsFiniteSet(T)
  BY <1>1, KeysFinite, FS_Surjection
<1>4. IsFiniteSet(UNION T)
  BY <1>2, <1>3, FS_UNION
<1>5. IsFiniteSet(Counted(c))
  BY <1>4 DEF Counted, T
<1> QED  BY <1>5, FS_CardinalityType

LEMMA InCounted ==
  ASSUME NEW c \in [Keys -> Nat], NEW x
  PROVE  x \in Counted(c) <=> \E k \in Keys, i \in Nat : x = <<k, i>> /\ 1 <= i /\ i <= c[k]
<1>1. ASSUME x \in Counted(c)
      PROVE  \E k \in Keys, i \in Nat : x = <<k, i>> /\ 1 <= i /\ i <= c[k]
  <2>1. PICK k \in Keys : x \in {k} \X (1 .. c[k])
    BY <1>1 DEF Counted
  <2>2. PICK i \in 1 .. c[k] : x = <<k, i>>
    BY <2>1
  <2>3. i \in Nat /\ 1 <= i /\ i <= c[k]
    BY <2>2
  <2> QED  BY <2>2, <2>3
<1>2. ASSUME NEW k \in Keys, NEW i \in Nat, x = <<k, i>>, 1 <= i, i <= c[k]
      PROVE  x \in Counted(c)
  <2>1. i \in 1 .. c[k]
    BY <1>2
  <2>2. x \in {k} \X (1 .. c[k])
    BY <1>2, <2>1
  <2> QED  BY <2>2 DEF Counted
<1> QED  BY <1>1, <1>2

\* Nothing is counted of nothing.
LEMMA NoneCounted ==
  ASSUME NEW c \in [Keys -> Nat], \A k \in Keys : c[k] = 0
  PROVE  Cardinality(Counted(c)) = 0
<1>1. Counted(c) = {}
  <2>1. ASSUME NEW x \in Counted(c) PROVE FALSE
    <3>1. PICK k \in Keys, i \in Nat : x = <<k, i>> /\ 1 <= i /\ i <= c[k]
      BY <2>1, InCounted
    <3> QED  BY <3>1
  <2> QED  BY <2>1
<1> QED  BY <1>1, FS_EmptySet

\* A dataset not counted before adds its rows.
LEMMA CountsAdd ==
  ASSUME NEW c \in [Keys -> Nat], NEW d \in [Keys -> Nat], NEW k \in Keys,
         c[k] = 0, \A j \in Keys \ {k} : d[j] = c[j]
  PROVE  Cardinality(Counted(d)) = Cardinality(Counted(c)) + d[k]
<1> DEFINE new == {k} \X (1 .. d[k])
<1>1. IsFiniteSet(new) /\ Cardinality(new) = d[k]
  BY RowsOfOne
<1>2. Counted(d) = Counted(c) \cup new
  <2>1. ASSUME NEW x \in Counted(d) PROVE x \in Counted(c) \cup new
    <3>1. PICK j \in Keys, i \in Nat : x = <<j, i>> /\ 1 <= i /\ i <= d[j]
      BY <2>1, InCounted
    <3>2. CASE j = k
      BY <3>1, <3>2
    <3>3. CASE j # k
      BY <3>1, <3>3, InCounted
    <3> QED  BY <3>2, <3>3
  <2>2. ASSUME NEW x \in Counted(c) PROVE x \in Counted(d)
    <3>1. PICK j \in Keys, i \in Nat : x = <<j, i>> /\ 1 <= i /\ i <= c[j]
      BY <2>2, InCounted
    <3>2. j # k
      BY <3>1
    <3> QED  BY <3>1, <3>2, InCounted
  <2>3. ASSUME NEW x \in new PROVE x \in Counted(d)
    BY <2>3 DEF Counted
  <2> HIDE DEF new
  <2> QED  BY <2>1, <2>2, <2>3
<1>3. Counted(c) \cap new = {}
  <2>1. ASSUME NEW x \in Counted(c), x \in new PROVE FALSE
    <3>1. PICK j \in Keys, i \in Nat : x = <<j, i>> /\ 1 <= i /\ i <= c[j]
      BY <2>1, InCounted
    <3>2. j = k
      BY <2>1, <3>1
    <3> QED  BY <3>1, <3>2
  <2> HIDE DEF new
  <2> QED  BY <2>1
<1>4. IsFiniteSet(Counted(c)) /\ Cardinality(Counted(c)) \in Nat
  BY CountedFinite
<1> HIDE DEF new
<1>5. Cardinality(Counted(c) \cup new) =
        Cardinality(Counted(c)) + Cardinality(new) - Cardinality(Counted(c) \cap new)
  BY <1>1, <1>4, FS_Union
<1>6. Cardinality(Counted(c) \cap new) = 0
  BY <1>3, FS_EmptySet
<1> QED  BY <1>1, <1>2, <1>4, <1>5, <1>6

\* Two counts that agree agree in every dataset, if one is never above the other.
LEMMA CountsAgree ==
  ASSUME NEW c \in [Keys -> Nat], NEW d \in [Keys -> Nat],
         \A k \in Keys : c[k] <= d[k],
         Cardinality(Counted(c)) = Cardinality(Counted(d))
  PROVE  \A k \in Keys : c[k] = d[k]
<1>1. Counted(c) \subseteq Counted(d)
  <2>1. ASSUME NEW x \in Counted(c) PROVE x \in Counted(d)
    <3>1. PICK k \in Keys, i \in Nat : x = <<k, i>> /\ 1 <= i /\ i <= c[k]
      BY <2>1, InCounted
    <3>2. c[k] \in Nat /\ d[k] \in Nat /\ c[k] <= d[k]
      BY <3>1
    <3>3. i <= d[k]
      BY <3>1, <3>2
    <3> QED  BY <3>1, <3>3, InCounted
  <2> QED  BY <2>1
<1>2. Counted(c) = Counted(d)
  BY <1>1, CountedFinite, FS_Subset
<1>3. ASSUME NEW k \in Keys, c[k] # d[k] PROVE FALSE
  <2>1. c[k] \in Nat /\ d[k] \in Nat /\ c[k] < d[k]
    BY <1>3
  <2>2. <<k, d[k]>> \in Counted(d)
    BY <2>1, InCounted
  <2>3. PICK j \in Keys, i \in Nat : <<k, d[k]>> = <<j, i>> /\ 1 <= i /\ i <= c[j]
    BY <1>2, <2>2, InCounted
  <2> QED  BY <2>1, <2>3
<1> QED  BY <1>3

-----------------------------------------------------------------------------
\* A dataset that was finished, and one that nobody has finished or given up.
Finished(c) == c.status \in {"completed", "partial"}
Pending(c) == c.status \in {"absent", "running"}

\* The responses a process holds of its dataset.
Held(p) == IF p.key = Aggregates THEN p.windows ELSE 1

AtDatabase == {"collect", "persist", "complete"}

\* Every row is accounted for by the checkpoint that was completed with it.
Exact(cps, rows) ==
  \A k \in Datasets : /\ Finished(cps[k]) => rows[k] = cps[k].captures
                      /\ Pending(cps[k]) => rows[k] = 0

\* n[k] of the rows of k are counted in p.expected: all or none of a finished
\* dataset, none of one that is still ahead.
Tally(p, cps, rows, n) ==
  /\ p.expected = Cardinality(Counted(n))
  /\ \A k \in Keys : n[k] <= rows[k]
  /\ \A k \in Datasets : /\ Finished(cps[k]) => n[k] \in {0, cps[k].captures}
                         /\ Pending(cps[k]) => n[k] = 0
                         /\ p.at \in Collecting /\ p.key <= k => n[k] = 0

\* What a process p at work on a run has counted, by the run's checkpoints, rows
\* and status.
Fresh(p) == p.at = "idle" \/ p.at \in Creating => p.expected = 0
Holds(p, cps, rows) ==
  /\ p.at \in {"persist", "complete"} => Held(p) <= rows[p.key]
  /\ p.at \in AtDatabase => cps[p.key].status \in {"running", "failed"}
Tallied(p, cps, rows) ==
  p.at \in Collecting \cup {"evaluate"} =>
    \E n \in [Keys -> Nat] : Tally(p, cps, rows, n)
ExactAt(p, cps, rows) ==
  p.at \in {"advance", "complete_stats"} => Exact(cps, rows)
\* Of a run that is complete, only the dataset in hand may have rows in advance.
Untouched(p, cps, rows) ==
  \A k \in Datasets : Pending(cps[k]) =>
    \/ rows[k] = 0
    \/ p.at \in {"persist", "complete"} /\ k = p.key /\ rows[k] = Held(p)

Work(p, cps, rows, status) ==
  /\ Fresh(p)
  /\ Holds(p, cps, rows)
  /\ Tallied(p, cps, rows)
  /\ ExactAt(p, cps, rows)
  /\ status \in Success /\ p.at \in {"lock"} \cup Collecting => Untouched(p, cps, rows)

\* What a checkpoint promises of its rows.
RunCounts(cps, rows, status) ==
  \A k \in Datasets : Finished(cps[k]) =>
    /\ cps[k].captures <= rows[k]
    /\ status \in Success => rows[k] = cps[k].captures

Softer(cps, cps2) == \A k \in Datasets : cps2[k] \in {cps[k], Ended(cps[k])}

-----------------------------------------------------------------------------
LEMMA CountPhases ==
  /\ "lock" \in Creating /\ Collecting \subseteq Executing
  /\ AtDatabase \subseteq Collecting /\ {"persist", "complete"} \subseteq AtDatabase
  /\ (Collecting \cup {"evaluate"}) \cap ({"idle"} \cup Creating \cup {"advance", "complete_stats"}) = {}
  /\ Creating \cap {"idle", "advance", "complete_stats"} = {}
  /\ (Failing \cup {"complete_outer"}) \cap
       ({"idle"} \cup Creating \cup Collecting \cup {"evaluate", "advance", "complete_stats"}) = {}
BY DEF Creating, Collecting, Executing, AtDatabase, Failing

LEMMA SofterStatus ==
  ASSUME NEW cps \in [Datasets -> Row], NEW cps2 \in [Datasets -> Row],
         Softer(cps, cps2), NEW k \in Datasets
  PROVE  /\ Finished(cps[k]) \/ Finished(cps2[k]) => cps2[k] = cps[k]
         /\ Pending(cps2[k]) => Pending(cps[k])
         /\ cps[k].status \in {"running", "failed"} => cps2[k].status \in {"running", "failed"}
<1>1. cps[k] \in Row /\ cps2[k] \in {cps[k], Ended(cps[k])}
  BY DEF Softer
<1>2. CASE cps2[k] = cps[k]
  BY <1>2
<1>3. CASE cps[k].status = "running" /\ cps2[k].status = "failed"
  BY <1>3 DEF Finished, Pending
<1>4. cps[k].status = "running" => Ended(cps[k]).status = "failed"
  BY <1>1 DEF Ended, Row, RowStatus
<1>5. cps[k].status # "running" => Ended(cps[k]) = cps[k]
  BY DEF Ended
<1> QED  BY <1>1, <1>2, <1>3, <1>4, <1>5

\* What a process has counted stands while its run only loses hope.
LEMMA WorkSoftens ==
  ASSUME NEW p \in Process, NEW cps \in [Datasets -> Row],
         NEW cps2 \in [Datasets -> Row], Softer(cps, cps2),
         NEW rows \in [Keys -> Nat], NEW rows2 \in [Keys -> Nat],
         \A k \in Datasets : rows2[k] = rows[k],
         \A k \in Keys : rows[k] <= rows2[k],
         NEW status, NEW status2, status2 \in Success => status \in Success,
         Work(p, cps, rows, status)
  PROVE  Work(p, cps2, rows2, status2)
<1>1. p.key \in Datasets
  BY DEF Process
<1>2. \A k \in Datasets :
         /\ Finished(cps[k]) \/ Finished(cps2[k]) => cps2[k] = cps[k]
         /\ Pending(cps2[k]) => Pending(cps[k])
         /\ cps[k].status \in {"running", "failed"} => cps2[k].status \in {"running", "failed"}
  BY SofterStatus
<1>3. Fresh(p) /\ Holds(p, cps2, rows2)
  BY <1>1, <1>2, CountPhases DEF Work, Holds
<1>4. ASSUME NEW n \in [Keys -> Nat], Tally(p, cps, rows, n)
      PROVE  Tally(p, cps2, rows2, n)
  <2>1. \A k \in Keys : n[k] <= rows2[k]
    <3> TAKE k \in Keys
    <3>1. n[k] \in Nat /\ rows[k] \in Nat /\ rows2[k] \in Nat /\ rows[k] <= rows2[k] /\ n[k] <= rows[k]
      BY <1>4 DEF Tally
    <3> QED  BY <3>1
  <2>2. \A k \in Datasets : /\ Finished(cps2[k]) => n[k] \in {0, cps2[k].captures}
                            /\ Pending(cps2[k]) => n[k] = 0
    BY <1>2, <1>4 DEF Tally
  <2> QED  BY <1>4, <2>1, <2>2 DEF Tally
<1>5. Tallied(p, cps2, rows2)
  BY <1>4 DEF Work, Tallied
<1>6. ExactAt(p, cps2, rows2)
  BY <1>2 DEF Work, ExactAt, Exact
<1>7. Untouched(p, cps, rows) => Untouched(p, cps2, rows2)
  BY <1>2 DEF Untouched
<1> QED  BY <1>3, <1>5, <1>6, <1>7 DEF Work

LEMMA CountsSoften ==
  ASSUME NEW cps \in [Datasets -> Row],
         NEW cps2 \in [Datasets -> Row], Softer(cps, cps2),
         NEW rows \in [Keys -> Nat], NEW rows2 \in [Keys -> Nat],
         \A k \in Datasets : rows2[k] = rows[k],
         NEW status, NEW status2,
         status2 \in Success => status \in Success \/ Exact(cps, rows),
         RunCounts(cps, rows, status)
  PROVE  RunCounts(cps2, rows2, status2)
<1>1. \A k \in Datasets : Finished(cps[k]) \/ Finished(cps2[k]) => cps2[k] = cps[k]
  BY SofterStatus
<1> QED  BY <1>1 DEF RunCounts, Exact

-----------------------------------------------------------------------------
LEMMA WorkElsewhere ==
  ASSUME NEW p, NEW cps, NEW rows, NEW status,
         p.at \in Failing \cup {"complete_outer"}
  PROVE  Work(p, cps, rows, status)
<1>1. p.at \notin {"idle"} \cup Creating \cup Collecting \cup {"evaluate", "advance", "complete_stats"}
  BY CountPhases
<1>2. p.at \notin AtDatabase /\ p.at # "lock"
  BY <1>1, CountPhases
<1>3. Holds(p, cps, rows)
  BY <1>2, CountPhases DEF Holds
<1>4. Fresh(p) /\ Tallied(p, cps, rows) /\ ExactAt(p, cps, rows)
  BY <1>1 DEF Fresh, Tallied, ExactAt
<1> QED  BY <1>1, <1>2, <1>3, <1>4 DEF Work

LEMMA WorkCreates ==
  ASSUME NEW p, NEW cps, NEW rows, NEW status,
         p.at \in Creating, p.expected = 0,
         p.at = "lock" /\ status \in Success => Untouched(p, cps, rows)
  PROVE  Work(p, cps, rows, status)
<1>1. p.at \notin {"idle"} \cup Collecting \cup {"evaluate", "advance", "complete_stats"}
  BY CountPhases
<1>2. p.at \notin AtDatabase
  BY <1>1, CountPhases
<1>3. Holds(p, cps, rows)
  BY <1>2, CountPhases DEF Holds
<1>4. Fresh(p) /\ Tallied(p, cps, rows) /\ ExactAt(p, cps, rows)
  BY <1>1 DEF Fresh, Tallied, ExactAt
<1> QED  BY <1>1, <1>3, <1>4 DEF Work

\* A process that enters a run has counted nothing yet.
LEMMA WorkBegins ==
  ASSUME NEW p, NEW cps, NEW rows \in [Keys -> Nat], NEW status,
         p.at = "open", p.expected = 0,
         status \in Success => Untouched(p, cps, rows)
  PROVE  Work(p, cps, rows, status)
<1> DEFINE n == [k \in Keys |-> 0]
<1>1. n \in [Keys -> Nat] /\ \A k \in Keys : n[k] = 0
  OBVIOUS
<1> HIDE DEF n
<1>2. Cardinality(Counted(n)) = 0
  BY <1>1, NoneCounted
<1>3. \A k \in Keys : n[k] <= rows[k]
  BY <1>1
<1>4. Tally(p, cps, rows, n)
  BY <1>1, <1>2, <1>3 DEF Tally, Keys
<1>5. Tallied(p, cps, rows)
  BY <1>1, <1>4 DEF Tallied
<1>6. Fresh(p) /\ Holds(p, cps, rows) /\ ExactAt(p, cps, rows)
  BY DEF Fresh, Holds, ExactAt, Creating, AtDatabase
<1> QED  BY <1>5, <1>6 DEF Work

-----------------------------------------------------------------------------
\* An interrupted or new dataset is taken in hand.
LEMMA WorkOpens ==
  ASSUME NEW p \in Process, NEW p2 \in Process, p.at = "open", p2.at = "collect",
         p2.key = p.key, p2.expected = p.expected,
         NEW cps \in [Datasets -> Row], NEW cps2 \in [Datasets -> Row],
         Pending(cps[p.key]), cps2[p.key].status = "running",
         \A k \in Datasets \ {p.key} : cps2[k] = cps[k],
         NEW rows, NEW status, Work(p, cps, rows, status)
  PROVE  Work(p2, cps2, rows, status)
<1>1. p.key \in Datasets /\ {"open", "collect"} \subseteq Collecting /\ "collect" \in AtDatabase
      /\ ~Finished(cps2[p.key]) /\ Pending(cps2[p.key])
  BY DEF Process, Collecting, AtDatabase, Finished, Pending
<1>2. \A k \in Datasets : /\ Pending(cps2[k]) => Pending(cps[k])
                          /\ Finished(cps2[k]) => cps2[k] = cps[k]
  BY <1>1
<1>3. PICK n \in [Keys -> Nat] : Tally(p, cps, rows, n)
  BY <1>1 DEF Work, Tallied
<1>4. Tally(p2, cps2, rows, n)
  BY <1>1, <1>2, <1>3 DEF Tally
<1>5. Tallied(p2, cps2, rows)
  BY <1>4 DEF Tallied
<1>6. Fresh(p2) /\ Holds(p2, cps2, rows) /\ ExactAt(p2, cps2, rows)
  BY DEF Fresh, Holds, ExactAt, Creating
<1>7. Untouched(p, cps, rows) => Untouched(p2, cps2, rows)
  BY <1>2 DEF Untouched
<1> QED  BY <1>1, <1>5, <1>6, <1>7 DEF Work

\* What one more dataset, finished with n responses, adds to the count.
LEMMA TallyGrows ==
  ASSUME NEW p \in Process, NEW p2 \in Process, p.at \in Collecting,
         NEW m \in Nat, p2.expected = p.expected + m,
         p2.at \in Collecting => p.key < p2.key,
         NEW cps \in [Datasets -> Row], NEW cps2 \in [Datasets -> Row],
         ~Pending(cps2[p.key]),
         Finished(cps2[p.key]) => cps2[p.key].captures = m,
         \A k \in Datasets \ {p.key} : cps2[k] = cps[k],
         NEW rows \in [Keys -> Nat], m <= rows[p.key],
         NEW n \in [Keys -> Nat], Tally(p, cps, rows, n)
  PROVE  \E n2 \in [Keys -> Nat] : Tally(p2, cps2, rows, n2)
<1> DEFINE n2 == [n EXCEPT ![p.key] = m]
<1>1. p.key \in Datasets /\ p.key \in Keys /\ p.key \in Nat /\ p2.key \in Nat
  BY Bounds DEF Process, Keys
<1>2. n2 \in [Keys -> Nat] /\ n2[p.key] = m /\ \A k \in Keys \ {p.key} : n2[k] = n[k]
  BY <1>1
<1> HIDE DEF n2
<1>3. n[p.key] = 0
  BY <1>1 DEF Tally
<1>4. Cardinality(Counted(n2)) = Cardinality(Counted(n)) + n2[p.key]
  BY <1>1, <1>2, <1>3, CountsAdd
<1>5. p2.expected = Cardinality(Counted(n2))
  BY <1>2, <1>4 DEF Tally
<1>6. \A k \in Keys : n2[k] <= rows[k]
  BY <1>2 DEF Tally
<1>7. ASSUME NEW k \in Datasets
      PROVE  /\ Finished(cps2[k]) => n2[k] \in {0, cps2[k].captures}
             /\ Pending(cps2[k]) => n2[k] = 0
             /\ p2.at \in Collecting /\ p2.key <= k => n2[k] = 0
  <2>1. k \in Keys /\ k \in Nat
    BY <1>7, Bounds DEF Keys
  <2>2. CASE k = p.key
    BY <1>1, <1>2, <2>2
  <2>3. CASE k # p.key
    <3>1. n2[k] = n[k] /\ cps2[k] = cps[k]
      BY <1>2, <2>1, <2>3
    <3>2. /\ Finished(cps[k]) => n[k] \in {0, cps[k].captures}
          /\ Pending(cps[k]) => n[k] = 0
          /\ p.key <= k => n[k] = 0
      BY DEF Tally
    <3>3. p2.at \in Collecting /\ p2.key <= k => p.key <= k
      BY <1>1, <2>1
    <3> QED  BY <3>1, <3>2, <3>3
  <2> QED  BY <2>2, <2>3
<1>8. Tally(p2, cps2, rows, n2)
  BY <1>5, <1>6, <1>7 DEF Tally
<1> QED  BY <1>2, <1>8

\* A process turns from a dataset that ended to the next one.
LEMMA WorkTurns ==
  ASSUME NEW p \in Process, NEW p2 \in Process, p.at \in Collecting,
         NEW m \in Nat, p2.expected = p.expected + m,
         \/ p2.at = "evaluate"
         \/ p2.at = "open" /\ p.key < p2.key,
         NEW cps \in [Datasets -> Row], NEW cps2 \in [Datasets -> Row],
         ~Pending(cps2[p.key]),
         Finished(cps2[p.key]) => cps2[p.key].captures = m,
         \A k \in Datasets \ {p.key} : cps2[k] = cps[k],
         NEW rows \in [Keys -> Nat], m <= rows[p.key],
         NEW status, Work(p, cps, rows, status)
  PROVE  Work(p2, cps2, rows, status)
<1>1. p.key \in Datasets
  BY DEF Process
<1>2. PICK n \in [Keys -> Nat] : Tally(p, cps, rows, n)
  BY DEF Work, Tallied
<1>3. p2.at \in Collecting => p.key < p2.key
  BY DEF Collecting
<1>4. \E n2 \in [Keys -> Nat] : Tally(p2, cps2, rows, n2)
  BY <1>2, <1>3, TallyGrows
<1>5. Tallied(p2, cps2, rows)
  BY <1>4 DEF Tallied
<1>6. Fresh(p2) /\ Holds(p2, cps2, rows) /\ ExactAt(p2, cps2, rows)
  BY DEF Fresh, Holds, ExactAt, Creating, AtDatabase
<1>7. Untouched(p, cps, rows) => Untouched(p2, cps2, rows)
  <2> SUFFICES ASSUME Untouched(p, cps, rows), NEW k \in Datasets, Pending(cps2[k])
               PROVE  rows[k] = 0
    BY DEF Untouched
  <2>1. k # p.key /\ cps2[k] = cps[k]
    BY <1>1
  <2> QED  BY <2>1 DEF Untouched
<1> QED  BY <1>5, <1>6, <1>7 DEF Work

\* A response is retained for the dataset in hand, or its rows are stored.
LEMMA WorkHolds ==
  ASSUME NEW p \in Process, NEW p2 \in Process,
         p2.at \in {"persist", "complete"},
         p2.key = p.key, p2.expected = p.expected,
         NEW cps \in [Datasets -> Row],
         NEW rows \in [Keys -> Nat], NEW rows2 \in [Keys -> Nat],
         \A k \in Keys \ {p.key} : rows2[k] = rows[k],
         \/ p.at = "collect" /\ rows2[p.key] = rows[p.key] + Held(p2)
         \/ p.at = "persist" /\ rows2[p.key] = rows[p.key] /\ Held(p2) = Held(p),
         NEW status, Work(p, cps, rows, status)
  PROVE  Work(p2, cps, rows2, status)
<1>1. /\ p.key \in Datasets /\ p.key \in Keys
      /\ {p.at, p2.at} \subseteq Collecting /\ {p.at, p2.at} \subseteq AtDatabase
      /\ Held(p) \in Nat /\ Held(p2) \in Nat
  BY DEF Process, Keys, Collecting, AtDatabase, Held
<1>2. \A k \in Keys : rows[k] \in Nat /\ rows2[k] \in Nat /\ rows[k] <= rows2[k]
  BY <1>1
<1>3. PICK n \in [Keys -> Nat] : Tally(p, cps, rows, n)
  BY <1>1 DEF Work, Tallied
<1>4. \A k \in Keys : n[k] <= rows2[k]
  <2> TAKE k \in Keys
  <2>1. n[k] \in Nat /\ n[k] <= rows[k]
    BY <1>3 DEF Tally
  <2> QED  BY <1>2, <2>1
<1>5. Tally(p2, cps, rows2, n)
  BY <1>1, <1>3, <1>4 DEF Tally
<1>6. Tallied(p2, cps, rows2)
  BY <1>5 DEF Tallied
<1>7. Holds(p2, cps, rows2)
  <2>1. cps[p.key].status \in {"running", "failed"}
    BY <1>1 DEF Work, Holds
  <2>2. Held(p2) <= rows2[p.key]
    BY <1>1, <1>2 DEF Work, Holds
  <2> QED  BY <2>1, <2>2 DEF Holds
<1>8. Fresh(p2) /\ ExactAt(p2, cps, rows2)
  BY DEF Fresh, ExactAt, Creating
<1>9. Untouched(p, cps, rows) => Untouched(p2, cps, rows2)
  <2> SUFFICES ASSUME Untouched(p, cps, rows), NEW k \in Datasets, Pending(cps[k])
               PROVE  rows2[k] = 0 \/ (k = p2.key /\ rows2[k] = Held(p2))
    BY DEF Untouched
  <2>1. k \in Keys /\ rows[k] \in Nat
    BY DEF Keys
  <2>2. rows[k] = 0 \/ (p.at = "persist" /\ k = p.key /\ rows[k] = Held(p))
    BY DEF Untouched
  <2>3. CASE k # p.key
    BY <2>1, <2>2, <2>3
  <2>4. CASE k = p.key /\ p.at = "collect"
    <3>1. rows[k] = 0 /\ rows2[k] = rows[k] + Held(p2)
      BY <2>2, <2>4
    <3> QED  BY <1>1, <2>4, <3>1
  <2>5. CASE k = p.key /\ p.at = "persist"
    BY <2>1, <2>2, <2>5
  <2> QED  BY <2>3, <2>4, <2>5
<1> QED  BY <1>1, <1>6, <1>7, <1>8, <1>9 DEF Work

\* Equal numbers account for every row.
LEMMA WorkReconciles ==
  ASSUME NEW p \in Process, p.at = "evaluate",
         NEW cps \in [Datasets -> Row], NEW rows \in [Keys -> Nat],
         NEW status, Work(p, cps, rows, status), RunCounts(cps, rows, status),
         Cardinality(Counted(rows)) = p.expected
  PROVE  Exact(cps, rows)
<1>1. PICK n \in [Keys -> Nat] : Tally(p, cps, rows, n)
  BY DEF Work, Tallied
<1>2. \A k \in Keys : n[k] = rows[k]
  BY <1>1, CountsAgree DEF Tally
<1>3. ASSUME NEW k \in Datasets, Finished(cps[k])
      PROVE  rows[k] = cps[k].captures
  <2>1. k \in Keys /\ rows[k] \in Nat /\ cps[k].captures \in Nat
    BY DEF Keys, Row, RowStatus
  <2>2. rows[k] \in {0, cps[k].captures} /\ cps[k].captures <= rows[k]
    BY <1>1, <1>2, <1>3, <2>1 DEF Tally, RunCounts
  <2> QED  BY <2>1, <2>2
<1>4. ASSUME NEW k \in Datasets, Pending(cps[k])
      PROVE  rows[k] = 0
  BY <1>1, <1>2, <1>4 DEF Tally, Keys
<1> QED  BY <1>3, <1>4 DEF Exact

LEMMA WorkEnds ==
  ASSUME NEW p, p.at \in {"advance", "complete_stats"},
         NEW cps, NEW rows, NEW status, Exact(cps, rows)
  PROVE  Work(p, cps, rows, status)
BY DEF Work, Fresh, Holds, Tallied, ExactAt, Creating, AtDatabase, Collecting

-----------------------------------------------------------------------------
(* The invariant of the counts, and what a step may do to it. *)

RowsOf(r) == [k \in Keys |-> raw[r][k].rows]

CountsOK(r) == RunCounts(checkpoint[r], RowsOf(r), stats[r])

WorkOK(e) ==
  /\ Fresh(proc[e])
  /\ proc[e].at # "idle" =>
       Work(proc[e], checkpoint[Run(e)], RowsOf(Run(e)), stats[Run(e)])

\* A run completes under a process that waits for its lock only when nobody
\* collects for it any more.
LockedOut ==
  \A e, f \in Executors :
    Run(e) = Run(f) /\ proc[e].at = "lock" /\ proc[f].at \in Collecting
      => stats[Run(e)] \notin Success

CountInv ==
  /\ \A r \in Runs : CountsOK(r)
  /\ \A e \in Executors : WorkOK(e)
  /\ LockedOut

\* What a step of e leaves alone: the datasets of every run it is not collecting,
\* and success, which only the end of a run announces and nobody starts from.
Counts(e) ==
  /\ Moves(e)
  /\ \A r \in Runs :
       \/ r = Run(e) /\ proc[e].at \in Collecting
       \/ /\ Softer(checkpoint[r], checkpoint'[r])
          /\ \A k \in Datasets : raw'[r][k].rows = raw[r][k].rows
          /\ raw[r][Unowned].rows <= raw'[r][Unowned].rows
  /\ \A r \in Runs :
       stats'[r] \in Success =>
         \/ stats[r] \in Success
         \/ r = Run(e) /\ proc[e].at = "complete_stats"
  /\ proc'[e].at = "lock" => stats'[proc'[e].run] \notin Success
  /\ proc'[e].at \in Collecting =>
       \/ proc'[e].run = Run(e) /\ proc[e].at \in {"lock"} \cup Collecting
       \/ stats'[proc'[e].run] \notin Success

-----------------------------------------------------------------------------
LEMMA RowsTyped ==
  ASSUME TypeOK, NEW r \in Runs
  PROVE  /\ RowsOf(r) \in [Keys -> Nat] /\ checkpoint[r] \in [Datasets -> Row]
         /\ \A k \in Keys : RowsOf(r)[k] = raw[r][k].rows
<1>1. raw[r] \in [Keys -> [rows : Nat, at : Nat]]
  BY DEF TypeOK, Keys
<1>2. \A k \in Keys : raw[r][k].rows \in Nat
  BY <1>1
<1>3. checkpoint[r] \in [Datasets -> Row]
  BY DEF TypeOK, Row, RowStatus
<1> QED  BY <1>2, <1>3 DEF RowsOf

LEMMA RowsTypedNext ==
  ASSUME TypeOK', NEW r \in Runs
  PROVE  /\ RowsOf(r)' \in [Keys -> Nat] /\ checkpoint'[r] \in [Datasets -> Row]
         /\ \A k \in Keys : RowsOf(r)'[k] = raw'[r][k].rows
<1>1. raw'[r] \in [Keys -> [rows : Nat, at : Nat]]
  BY DEF TypeOK, Keys
<1>2. \A k \in Keys : raw'[r][k].rows \in Nat
  BY <1>1
<1>3. checkpoint'[r] \in [Datasets -> Row]
  BY DEF TypeOK, Row, RowStatus
<1> QED  BY <1>2, <1>3 DEF RowsOf

\* Where e is not collecting, the rows stand.
LEMMA RowsStand ==
  ASSUME TypeOK, TypeOK', NEW e \in Executors, Counts(e), NEW r \in Runs,
         ~(r = Run(e) /\ proc[e].at \in Collecting)
  PROVE  /\ Softer(checkpoint[r], checkpoint'[r])
         /\ \A k \in Datasets : RowsOf(r)'[k] = RowsOf(r)[k]
         /\ \A k \in Keys : RowsOf(r)[k] <= RowsOf(r)'[k]
<1>1. /\ Softer(checkpoint[r], checkpoint'[r])
      /\ \A k \in Datasets : raw'[r][k].rows = raw[r][k].rows
      /\ raw[r][Unowned].rows <= raw'[r][Unowned].rows
  BY DEF Counts
<1>2. /\ \A k \in Keys : RowsOf(r)[k] = raw[r][k].rows
      /\ \A k \in Keys : RowsOf(r)'[k] = raw'[r][k].rows
      /\ \A k \in Keys : RowsOf(r)[k] \in Nat
  BY RowsTyped, RowsTypedNext
<1>3. \A k \in Keys : k \in Datasets \/ k = Unowned
  BY DEF Keys
<1>4. \A k \in Datasets : k \in Keys
  BY DEF Keys
<1>5. ASSUME NEW k \in Keys
      PROVE  RowsOf(r)[k] <= RowsOf(r)'[k]
  <2>1. CASE k \in Datasets
    BY <1>1, <1>2, <2>1
  <2>2. CASE k = Unowned
    BY <1>1, <1>2, <2>2
  <2> QED  BY <1>3, <2>1, <2>2
<1> QED  BY <1>1, <1>2, <1>4, <1>5

LEMMA CountKept ==
  ASSUME IInv, IInv', CountInv, NEW e \in Executors, Counts(e), WorkOK(e)',
         \A r \in Runs : r = Run(e) /\ proc[e].at \in Collecting => CountsOK(r)'
  PROVE  CountInv'
<1>1. TypeOK /\ TypeOK' /\ Exclusive /\ LockedOut
  BY DEF IInv, CountInv
<1>2. ASSUME NEW r \in Runs, stats'[r] \in Success
      PROVE  stats[r] \in Success \/ (r = Run(e) /\ proc[e].at = "complete_stats")
  BY <1>2 DEF Counts
<1>3. proc[e].at = "complete_stats" /\ Run(e) \in Runs =>
        Exact(checkpoint[Run(e)], RowsOf(Run(e)))
  BY DEF CountInv, WorkOK, Work, ExactAt
<1>4. "complete_stats" \notin Collecting /\ "complete_stats" \in Executing
      /\ Collecting \subseteq Executing /\ "lock" \in Creating
      /\ (Creating \cup {"idle"}) \cap Executing = {}
  BY DEF Collecting, Executing, Finishing, Failing, Creating
<1>5. ASSUME NEW r \in Runs
      PROVE  CountsOK(r)'
  <2>1. CASE r = Run(e) /\ proc[e].at \in Collecting
    BY <2>1
  <2>2. CASE ~(r = Run(e) /\ proc[e].at \in Collecting)
    <3>1. /\ Softer(checkpoint[r], checkpoint'[r])
          /\ \A k \in Datasets : RowsOf(r)'[k] = RowsOf(r)[k]
      BY <1>1, <2>2, RowsStand
    <3>2. /\ RowsOf(r) \in [Keys -> Nat] /\ RowsOf(r)' \in [Keys -> Nat]
          /\ checkpoint[r] \in [Datasets -> Row] /\ checkpoint'[r] \in [Datasets -> Row]
      BY <1>1, RowsTyped, RowsTypedNext
    <3>3. stats'[r] \in Success =>
            stats[r] \in Success \/ Exact(checkpoint[r], RowsOf(r))
      BY <1>2, <1>3
    <3>4. RunCounts(checkpoint[r], RowsOf(r), stats[r])
      BY DEF CountInv, CountsOK
    <3>5. RunCounts(checkpoint'[r], RowsOf(r)', stats'[r])
      BY <3>1, <3>2, <3>3, <3>4, CountsSoften
    <3> QED  BY <3>5 DEF CountsOK
  <2> QED  BY <2>1, <2>2
<1>6. ASSUME NEW f \in Executors, f # e
      PROVE  WorkOK(f)'
  <2>1. proc'[f] = proc[f] /\ (Run(f))' = Run(f) /\ proc[f] \in Process
    BY <1>1, <1>6 DEF Counts, Moves, Run, TypeOK
  <2>2. CASE proc[f].at = "idle"
    BY <2>1, <2>2 DEF WorkOK, CountInv
  <2>3. CASE proc[f].at # "idle"
    <3>1. PICK r \in Runs : r = Run(f)
      BY <2>3 DEF IInv, StatusOK
    <3>2. Fresh(proc[f]) /\ Work(proc[f], checkpoint[r], RowsOf(r), stats[r])
      BY <2>3, <3>1 DEF CountInv, WorkOK
    <3>3. /\ RowsOf(r) \in [Keys -> Nat] /\ RowsOf(r)' \in [Keys -> Nat]
          /\ checkpoint[r] \in [Datasets -> Row] /\ checkpoint'[r] \in [Datasets -> Row]
      BY <1>1, RowsTyped, RowsTypedNext
    <3>4. ASSUME r = Run(e), proc[e].at \in Executing
          PROVE  proc[f].at \notin Executing
      BY <1>1, <1>6, <3>1, <3>4 DEF Exclusive
    <3>5. ASSUME r = Run(e), proc[e].at \in Collecting, proc[f].at = "lock"
          PROVE  stats'[r] \notin Success
      BY <1>1, <1>2, <1>4, <3>1, <3>5 DEF LockedOut
    <3>6. Work(proc[f], checkpoint'[r], RowsOf(r)', stats'[r])
      <4>1. CASE r = Run(e) /\ proc[e].at \in Collecting
        <5>1. proc[f].at \in Creating
          BY <1>1, <1>4, <2>1, <2>3, <3>4, <4>1 DEF Process, Phases
        <5>2. proc[f].expected = 0
          BY <3>2, <5>1 DEF Fresh
        <5> QED  BY <3>5, <4>1, <5>1, <5>2, WorkCreates
      <4>2. CASE r = Run(e) /\ proc[e].at = "complete_stats"
        <5>1. proc[f].at \in Creating
          BY <1>1, <1>4, <2>1, <2>3, <3>4, <4>2 DEF Process, Phases
        <5>2. proc[f].expected = 0
          BY <3>2, <5>1 DEF Fresh
        <5>3. /\ Softer(checkpoint[r], checkpoint'[r])
              /\ \A k \in Datasets : RowsOf(r)'[k] = RowsOf(r)[k]
          BY <1>1, <1>4, <4>2, RowsStand
        <5>4. Exact(checkpoint[r], RowsOf(r))
          BY <1>3, <4>2
        <5>5. Untouched(proc[f], checkpoint'[r], RowsOf(r)')
          <6> SUFFICES ASSUME NEW k \in Datasets, Pending(checkpoint'[r][k])
                       PROVE  RowsOf(r)'[k] = 0
            BY DEF Untouched
          <6>1. Pending(checkpoint[r][k])
            BY <3>3, <5>3, SofterStatus
          <6> QED  BY <5>3, <5>4, <6>1 DEF Exact
        <5> QED  BY <5>1, <5>2, <5>5, WorkCreates
      <4>3. CASE ~(r = Run(e) /\ proc[e].at \in {"complete_stats"} \cup Collecting)
        <5>1. /\ Softer(checkpoint[r], checkpoint'[r])
              /\ \A k \in Datasets : RowsOf(r)'[k] = RowsOf(r)[k]
              /\ \A k \in Keys : RowsOf(r)[k] <= RowsOf(r)'[k]
          BY <1>1, <4>3, RowsStand
        <5>2. stats'[r] \in Success => stats[r] \in Success
          BY <1>2, <4>3
        <5> QED  BY <2>1, <3>2, <3>3, <5>1, <5>2, WorkSoftens
      <4> QED  BY <4>1, <4>2, <4>3
    <3> QED  BY <2>1, <3>1, <3>2, <3>6 DEF WorkOK
  <2> QED  BY <2>2, <2>3
<1>7. LockedOut'
  <2> SUFFICES ASSUME NEW g \in Executors, NEW h \in Executors,
                      proc'[g].run = proc'[h].run,
                      proc'[g].at = "lock", proc'[h].at \in Collecting,
                      stats'[proc'[g].run] \in Success
               PROVE  FALSE
    BY DEF LockedOut, Run
  <2>1. g # e
    BY DEF Counts
  <2>2. proc'[g] = proc[g]
    BY <2>1 DEF Counts, Moves
  <2>3. PICK r \in Runs : r = Run(g)
    BY <2>2 DEF IInv, StatusOK, Run
  <2>4. stats[r] \in Success \/ (r = Run(e) /\ proc[e].at = "complete_stats")
    BY <1>2, <2>2, <2>3 DEF Run
  <2>5. CASE h # e
    <3>1. proc'[h] = proc[h]
      BY <2>5 DEF Counts, Moves
    <3>2. stats[r] \notin Success
      BY <1>1, <2>2, <2>3, <3>1 DEF LockedOut, Run
    <3>3. r = Run(e) /\ proc[e].at = "complete_stats"
      BY <2>4, <3>2
    <3> QED  BY <1>1, <1>4, <2>2, <2>3, <2>5, <3>1, <3>3 DEF Exclusive, Run
  <2>6. CASE h = e
    <3>1. proc'[e].run = Run(e) /\ proc[e].at \in {"lock"} \cup Collecting
      BY <2>6 DEF Counts
    <3>2. Run(e) = Run(g) /\ proc[g].at = "lock"
      BY <2>2, <2>6, <3>1 DEF Run
    <3>3. CASE proc[e].at = "lock"
      BY <1>1, <1>4, <2>1, <3>2, <3>3 DEF Exclusive
    <3>4. CASE proc[e].at \in Collecting
      <4>1. stats[r] \notin Success
        BY <1>1, <2>3, <3>2, <3>4 DEF LockedOut
      <4> QED  BY <1>4, <2>4, <3>4, <4>1
    <3> QED  BY <3>1, <3>3, <3>4
  <2> QED  BY <2>5, <2>6
<1> QED  BY <1>5, <1>6, <1>7 DEF CountInv

-----------------------------------------------------------------------------
(* Four kinds of steps: a process withdraws from a run, enters one, works on  *)
(* a dataset, or closes the run.                                             *)

\* The rows of every run stand.
RowsHold ==
  /\ \A r \in Runs : Softer(checkpoint[r], checkpoint'[r])
  /\ \A r \in Runs, k \in Datasets : raw'[r][k].rows = raw[r][k].rows
  /\ \A r \in Runs : raw[r][Unowned].rows <= raw'[r][Unowned].rows

LEMMA RowsHoldUnchanged ==
  ASSUME TypeOK, UNCHANGED <<checkpoint, raw>>
  PROVE  RowsHold
<1>1. \A r \in Runs : raw[r][Unowned].rows \in Nat
  BY RowsTyped DEF Keys
<1> QED  BY <1>1 DEF RowsHold, Softer

LEMMA RowsHoldRepaired ==
  ASSUME TypeOK, checkpoint' = Repaired, raw' = raw
  PROVE  RowsHold
<1>1. \A r \in Runs : raw[r][Unowned].rows \in Nat
  BY RowsTyped DEF Keys
<1>2. \A r \in Runs : Softer(checkpoint[r], checkpoint'[r])
  BY RepairedRows DEF Softer
<1> QED  BY <1>1, <1>2 DEF RowsHold

LEMMA CountsOKStand ==
  ASSUME TypeOK, TypeOK', CountInv, RowsHold, NEW r \in Runs,
         stats'[r] \in Success => stats[r] \in Success
  PROVE  CountsOK(r)'
<1>1. /\ Softer(checkpoint[r], checkpoint'[r])
      /\ \A k \in Datasets : raw'[r][k].rows = raw[r][k].rows
  BY DEF RowsHold
<1>2. /\ RowsOf(r) \in [Keys -> Nat] /\ RowsOf(r)' \in [Keys -> Nat]
      /\ checkpoint[r] \in [Datasets -> Row] /\ checkpoint'[r] \in [Datasets -> Row]
      /\ \A k \in Keys : RowsOf(r)[k] = raw[r][k].rows
      /\ \A k \in Keys : RowsOf(r)'[k] = raw'[r][k].rows
  BY RowsTyped, RowsTypedNext
<1>3. \A k \in Datasets : RowsOf(r)'[k] = RowsOf(r)[k]
  BY <1>1, <1>2 DEF Keys
<1>4. RunCounts(checkpoint[r], RowsOf(r), stats[r])
  BY DEF CountInv, CountsOK
<1>5. RunCounts(checkpoint'[r], RowsOf(r)', stats'[r])
  BY <1>1, <1>2, <1>3, <1>4, CountsSoften
<1> QED  BY <1>5 DEF CountsOK

\* A process leaves a run, fails it, or has closed its statistics row.
LEMMA Withdraws ==
  ASSUME IInv, IInv', CountInv, NEW e \in Executors, Moves(e), RowsHold,
         proc'[e].at \in {"idle", "complete_outer"} \cup Failing,
         proc'[e].at = "idle" => proc'[e].expected = 0,
         \A r \in Runs : stats'[r] \in Success =>
           \/ stats[r] \in Success
           \/ r = Run(e) /\ proc[e].at = "complete_stats"
  PROVE  CountInv'
<1>1. proc'[e].at \notin Creating /\ proc'[e].at \notin Collecting /\ proc'[e].at # "lock"
  BY CountPhases DEF Creating, Collecting
<1>2. Counts(e)
  BY <1>1 DEF Counts, RowsHold
<1>3. WorkOK(e)'
  <2>1. Fresh(proc'[e])
    BY <1>1 DEF Fresh
  <2>2. proc'[e].at # "idle" =>
          Work(proc'[e], checkpoint'[proc'[e].run], RowsOf(Run(e))', stats'[proc'[e].run])
    BY WorkElsewhere
  <2> QED  BY <2>1, <2>2 DEF WorkOK, Run
<1>4. \A r \in Runs : r = Run(e) /\ proc[e].at \in Collecting => CountsOK(r)'
  <2> SUFFICES ASSUME NEW r \in Runs, r = Run(e), proc[e].at \in Collecting
               PROVE  CountsOK(r)'
    OBVIOUS
  <2>1. proc[e].at # "complete_stats"
    BY DEF Collecting
  <2> QED  BY <2>1, CountsOKStand DEF IInv
<1> QED  BY <1>2, <1>3, <1>4, CountKept

\* A process that creates or resumes a run goes on.
LEMMA Enters ==
  ASSUME IInv, IInv', CountInv, NEW e \in Executors, Moves(e), RowsHold,
         proc[e].at \in {"idle"} \cup Creating,
         proc'[e].at \in {"open"} \cup Creating,
         proc'[e].expected = proc[e].expected,
         \A r \in Runs : stats'[r] \in Success => stats[r] \in Success,
         proc'[e].at = "lock" => stats'[proc'[e].run] \notin Success,
         proc'[e].at = "open" =>
           \/ proc'[e].run = Run(e) /\ proc[e].at = "lock"
           \/ stats'[proc'[e].run] \notin Success
  PROVE  CountInv'
<1>1. /\ proc[e].at \notin Collecting /\ proc[e].at # "complete_stats"
      /\ proc'[e].at # "idle"
      /\ proc'[e].at \in Collecting => proc'[e].at = "open"
  BY DEF Creating, Collecting
<1>2. Counts(e)
  BY <1>1 DEF Counts, RowsHold
<1>3. proc'[e].expected = 0
  BY DEF CountInv, WorkOK, Fresh
<1>4. PICK r \in Runs : r = proc'[e].run
  BY <1>1 DEF IInv, StatusOK, Run
<1>5. TypeOK /\ TypeOK'
  BY DEF IInv
<1>6. /\ RowsOf(r) \in [Keys -> Nat] /\ RowsOf(r)' \in [Keys -> Nat]
      /\ checkpoint[r] \in [Datasets -> Row] /\ checkpoint'[r] \in [Datasets -> Row]
  BY <1>5, RowsTyped, RowsTypedNext
<1>7. Work(proc'[e], checkpoint'[r], RowsOf(r)', stats'[r])
  <2>1. CASE proc'[e].at \in Creating
    BY <1>3, <1>4, <2>1, WorkCreates
  <2>2. CASE proc'[e].at = "open"
    <3>1. SUFFICES ASSUME stats'[r] \in Success
                   PROVE  Untouched(proc'[e], checkpoint'[r], RowsOf(r)')
      BY <1>3, <1>6, <2>2, WorkBegins
    <3>2. r = Run(e) /\ proc[e].at = "lock" /\ stats[r] \in Success
      BY <1>4, <2>2, <3>1
    <3>3. Untouched(proc[e], checkpoint[r], RowsOf(r))
      BY <3>2 DEF CountInv, WorkOK, Work
    <3>4. /\ Softer(checkpoint[r], checkpoint'[r])
          /\ \A k \in Datasets : RowsOf(r)'[k] = RowsOf(r)[k]
      BY <1>1, <1>2, <1>5, RowsStand
    <3>5. \A k \in Datasets : Pending(checkpoint'[r][k]) => Pending(checkpoint[r][k])
      BY <1>6, <3>4, SofterStatus
    <3> QED  BY <3>2, <3>3, <3>4, <3>5 DEF Untouched
  <2> QED  BY <2>1, <2>2
<1>8. WorkOK(e)'
  <2>1. Fresh(proc'[e])
    BY <1>7 DEF Work
  <2> QED  BY <1>4, <1>7, <2>1 DEF WorkOK, Run, RowsOf
<1> QED  BY <1>1, <1>2, <1>8, CountKept

\* A process at work on a dataset changes the rows of its run, and only those.
LEMMA Collects ==
  ASSUME IInv, IInv', CountInv, NEW e \in Executors, Moves(e),
         proc[e].at \in Collecting, proc'[e].at \in Collecting \cup {"evaluate"},
         NEW r \in Runs, r = Run(e), proc'[e].run = r, stats' = stats,
         \A s \in Runs \ {r} : checkpoint'[s] = checkpoint[s] /\ raw'[s] = raw[s],
         Work(proc'[e], checkpoint'[r], RowsOf(r)', stats[r]), CountsOK(r)'
  PROVE  CountInv'
<1>1. /\ proc'[e].at # "lock" /\ proc'[e].at # "idle"
  BY DEF Collecting
<1>2. ASSUME NEW s \in Runs, s # r
      PROVE  /\ Softer(checkpoint[s], checkpoint'[s])
             /\ \A k \in Datasets : raw'[s][k].rows = raw[s][k].rows
             /\ raw[s][Unowned].rows <= raw'[s][Unowned].rows
  <2>1. raw[s][Unowned].rows \in Nat
    BY RowsTyped DEF Keys, IInv
  <2> QED  BY <1>2, <2>1 DEF Softer
<1>3. Counts(e)
  BY <1>1, <1>2 DEF Counts
<1>4. WorkOK(e)'
  <2>1. Fresh(proc'[e])
    BY DEF Work
  <2> QED  BY <2>1 DEF WorkOK, Run, RowsOf
<1> QED  BY <1>3, <1>4, CountKept

\* A process closes its run step by step.
LEMMA Closes ==
  ASSUME IInv, IInv', CountInv, NEW e \in Executors, Moves(e),
         proc[e].at \notin Collecting, proc'[e].at \in {"advance", "complete_stats"},
         NEW r \in Runs, proc'[e].run = r, UNCHANGED <<stats, checkpoint, raw>>,
         Exact(checkpoint[r], RowsOf(r))
  PROVE  CountInv'
<1>1. /\ proc'[e].at # "lock" /\ proc'[e].at # "idle"
      /\ proc'[e].at \notin Collecting
  BY DEF Collecting
<1>2. RowsHold
  BY RowsHoldUnchanged DEF IInv
<1>3. Counts(e)
  BY <1>1, <1>2 DEF Counts, RowsHold
<1>4. RowsOf(r)' = RowsOf(r)
  BY DEF RowsOf
<1>5. Work(proc'[e], checkpoint'[r], RowsOf(r)', stats'[r])
  BY <1>4, WorkEnds
<1>6. WorkOK(e)'
  <2>1. Fresh(proc'[e])
    BY <1>5 DEF Work
  <2> QED  BY <1>5, <2>1 DEF WorkOK, Run, RowsOf
<1> QED  BY <1>3, <1>6, CountKept

-----------------------------------------------------------------------------
LEMMA GotoCounts ==
  ASSUME TypeOK, NEW e \in Executors, NEW phase \in Phases, Goto(e, phase)
  PROVE  /\ proc'[e].expected = proc[e].expected
         /\ Held(proc'[e]) = Held(proc[e])
<1> DEFINE p == [proc[e] EXCEPT !.at = phase]
<1>1. proc[e] \in Process /\ proc \in [Executors -> Process]
  BY DEF TypeOK
<1>2. p.expected = proc[e].expected /\ p.key = proc[e].key /\ p.windows = proc[e].windows
  BY <1>1 DEF Process
<1>3. proc' = [proc EXCEPT ![e] = p]
  BY DEF Goto
<1> HIDE DEF p
<1> QED  BY <1>1, <1>2, <1>3 DEF Held

LEMMA LeaveCounts ==
  ASSUME IInv, IInv', CountInv, NEW e \in Executors, Leave(e), RowsHold, stats' = stats
  PROVE  CountInv'
<1>1. Moves(e) /\ proc'[e] = Idle
  BY LeaveMoves DEF IInv
<1>2. proc'[e].at = "idle" /\ proc'[e].expected = 0
  BY <1>1 DEF Idle
<1> QED  BY <1>1, <1>2, Withdraws

LEMMA RaiseCounts ==
  ASSUME IInv, IInv', CountInv, NEW e \in Executors, NEW spare \in Nat, Raise(e, spare),
         RowsHold, stats' = stats
  PROVE  CountInv'
<1>1. Moves(e) /\ proc'[e].at = "fail_checkpoints"
  BY RaiseMoves DEF IInv
<1>2. proc'[e].at \in Failing /\ proc'[e].at # "idle"
  BY <1>1 DEF Failing
<1> QED  BY <1>1, <1>2, Withdraws

LEMMA FollowingAbove ==
  ASSUME NEW p \in Process, NEW q \in Request, Following(p, q) # Schedule
  PROVE  p.key < Following(p, q)
<1> DEFINE last == IF q.command = "daily" THEN q.through ELSE p.effective
           first == IF q.command = "daily" THEN q.through ELSE 1
<1>1. /\ q.through \in 1 .. MaxDay /\ p.effective \in 0 .. MaxDay
      /\ p.key \in 0 .. MaxDay + 1 /\ MaxDay \in Nat
  BY Bounds DEF Process, Request
<1>2. first \in 1 .. MaxDay
  BY <1>1, Bounds
<1>3. Following(p, q) =
        CASE p.key = Schedule -> Aggregates
          [] p.key = Aggregates /\ last # 0 -> StatcastDay(first)
          [] p.key > Aggregates /\ DayOf(p.key) < last -> p.key + 1
          [] OTHER -> Schedule
  BY DEF Following
<1> HIDE DEF first, last
<1>4. CASE p.key = 0
  BY <1>1, <1>3, <1>4 DEF Schedule, Aggregates
<1>5. CASE p.key = 1
  BY <1>1, <1>2, <1>3, <1>5 DEF Schedule, Aggregates, StatcastDay
<1>6. CASE p.key > 1
  <2>1. Following(p, q) = p.key + 1 \/ Following(p, q) = Schedule
    BY <1>1, <1>3, <1>6 DEF Schedule, Aggregates
  <2> QED  BY <1>1, <2>1
<1> QED  BY <1>1, <1>4, <1>5, <1>6

LEMMA AbsorbedCounts ==
  ASSUME NEW p \in Process, NEW q \in Request, NEW n \in Nat, NEW at \in Nat
  PROVE  LET next == Absorbed(p, q, n, at)
         IN  /\ next.expected = p.expected + n
             /\ \/ next.at = "evaluate"
                \/ next.at = "open" /\ p.key < next.key
<1> DEFINE key == Following(p, q)
           windows == IF p.key = Aggregates THEN n ELSE p.windows
           phase == IF key = Schedule THEN "evaluate" ELSE "open"
           j == [p EXCEPT !.expected = p.expected + n, !.windows = windows,
                          !.observed = Later(p.observed, at), !.key = key,
                          !.at = phase]
<1>1. Absorbed(p, q, n, at) = j
  BY DEF Absorbed
<1>2. phase = "evaluate" \/ (phase = "open" /\ p.key < key)
  BY FollowingAbove
<1> HIDE DEF key, windows, phase
<1>3. j.expected = p.expected + n /\ j.at = phase /\ j.key = key
  BY DEF Process
<1> HIDE DEF j
<1> QED  BY <1>1, <1>2, <1>3

-----------------------------------------------------------------------------
(* The start of a run, and the steps that end one. *)

LEMMA CreateRunCounts ==
  ASSUME IInv, IInv', CountInv, NEW e \in Executors, CreateRun(e)
  PROVE  CountInv'
<1>1. PICK r \in Runs :
        proc' = [proc EXCEPT ![e].at = "start_outer", ![e].run = r]
  BY DEF CreateRun
<1>2. proc[e].at = "idle" /\ checkpoint' = Repaired /\ UNCHANGED <<stats, raw>>
  BY DEF CreateRun, At
<1>3. /\ TypeOK /\ proc[e] \in Process /\ proc \in [Executors -> Process]
      /\ r \in Nat
  <2>1. r \in Nat
    BY Bounds DEF Runs
  <2> QED  BY <2>1 DEF IInv, TypeOK
<1> DEFINE p == [proc[e] EXCEPT !.at = "start_outer", !.run = r]
<1>4. p \in Process /\ p.at = "start_outer" /\ p.expected = proc[e].expected
  BY <1>3 DEF Process, Phases, Creating
<1>5. proc' = [proc EXCEPT ![e] = p]
  BY <1>1
<1> HIDE DEF p
<1>6. Moves(e) /\ proc'[e] = p
  BY <1>3, <1>4, <1>5 DEF Moves
<1>7. RowsHold
  BY <1>2, <1>3, RowsHoldRepaired
<1>8. proc'[e].at \in {"open"} \cup Creating /\ proc'[e].at \notin {"lock", "open"}
  BY <1>4, <1>6 DEF Creating
<1> QED  BY <1>2, <1>4, <1>6, <1>7, <1>8, Enters

LEMMA ResumeCounts ==
  ASSUME IInv, IInv', CountInv, NEW e \in Executors, Resume(e)
  PROVE  CountInv'
<1>1. PICK r \in Runs :
        /\ stats' = [stats EXCEPT ![r] = "running"]
        /\ proc' = [proc EXCEPT ![e].at = "open", ![e].run = r]
  BY DEF Resume
<1>2. proc[e].at = "idle" /\ checkpoint' = Repaired /\ raw' = raw
  BY DEF Resume, At
<1>3. /\ TypeOK /\ proc[e] \in Process /\ proc \in [Executors -> Process]
      /\ r \in Nat /\ stats \in [Runs -> Statuses]
  <2>1. r \in Nat
    BY Bounds DEF Runs
  <2> QED  BY <2>1 DEF IInv, TypeOK
<1> DEFINE p == [proc[e] EXCEPT !.at = "open", !.run = r]
<1>4. p \in Process /\ p.at = "open" /\ p.run = r /\ p.expected = proc[e].expected
  BY <1>3 DEF Process, Phases, Executing, Collecting
<1>5. proc' = [proc EXCEPT ![e] = p]
  BY <1>1
<1> HIDE DEF p
<1>6. Moves(e) /\ proc'[e] = p
  BY <1>3, <1>4, <1>5 DEF Moves
<1>7. RowsHold
  BY <1>2, <1>3, RowsHoldRepaired
<1>8. stats'[r] \notin Success /\ \A s \in Runs : stats'[s] \in Success => stats[s] \in Success
  BY <1>1, <1>3 DEF Success
<1> QED  BY <1>2, <1>4, <1>6, <1>7, <1>8, Enters

\* The transactions between the creation of a run and its lock.
LEMMA StartingCounts ==
  ASSUME IInv, IInv', CountInv, NEW e \in Executors,
         StartOuter(e) \/ CreateStats(e) \/ StartStats(e) \/ Lock(e)
  PROVE  CountInv'
<1>1. /\ UNCHANGED <<checkpoint, raw>> /\ TypeOK /\ stats \in [Runs -> Statuses]
      /\ proc[e].at \in Creating
  BY DEF StartOuter, CreateStats, StartStats, Lock, At, database, Creating, IInv, TypeOK
<1>2. RowsHold
  BY <1>1, RowsHoldUnchanged
<1>3. CASE Leave(e) /\ stats' = stats
  BY <1>2, <1>3, LeaveCounts
<1>4. ASSUME NEW phase \in {"open"} \cup Creating, Goto(e, phase),
             \A r \in Runs : stats'[r] \in Success => stats[r] \in Success,
             phase = "lock" => stats'[Run(e)] \notin Success,
             phase = "open" => proc[e].at = "lock"
      PROVE  CountInv'
  <2>1. phase \in Phases
    BY <1>4 DEF Phases, Executing, Collecting
  <2>2. /\ Moves(e) /\ proc'[e].at = phase /\ proc'[e].run = Run(e)
        /\ proc'[e].expected = proc[e].expected
    BY <1>1, <1>4, <2>1, GotoMoves, GotoCounts DEF SameWork
  <2> QED  BY <1>1, <1>2, <1>4, <2>2, Enters
<1>5. {"create_stats", "start_stats", "lock"} \subseteq Creating
      /\ Run(e) \in Runs
  BY <1>1, ExecutorsWork DEF Creating
<1>6. CASE StartOuter(e)
  <2>1. CASE Goto(e, "create_stats")
    BY <1>4, <1>5, <1>6, <2>1 DEF StartOuter
  <2> QED  BY <1>3, <1>6, <2>1 DEF StartOuter
<1>7. CASE CreateStats(e)
  <2>1. stats' = [stats EXCEPT ![Run(e)] = "queued"] /\ Goto(e, "start_stats")
    BY <1>7 DEF CreateStats
  <2>2. \A r \in Runs : stats'[r] \in Success => stats[r] \in Success
    BY <1>1, <2>1 DEF Success
  <2> QED  BY <1>4, <1>5, <2>1, <2>2
<1>8. CASE StartStats(e)
  <2>1. CASE stats' = [stats EXCEPT ![Run(e)] = "running"] /\ Goto(e, "lock")
    <3>1. /\ \A r \in Runs : stats'[r] \in Success => stats[r] \in Success
          /\ stats'[Run(e)] \notin Success
      BY <1>1, <1>5, <2>1 DEF Success
    <3> QED  BY <1>4, <1>5, <2>1, <3>1
  <2> QED  BY <1>3, <1>8, <2>1 DEF StartStats
<1>9. CASE Lock(e)
  <2>1. proc[e].at = "lock" /\ stats' = stats
    BY <1>9 DEF Lock, At, database
  <2>2. CASE Goto(e, "open")
    BY <1>4, <2>1, <2>2
  <2> QED  BY <1>3, <1>9, <2>1, <2>2 DEF Lock
<1> QED  BY <1>6, <1>7, <1>8, <1>9

LEMMA EvaluateCounts ==
  ASSUME IInv, IInv', CountInv, NEW e \in Executors, Evaluate(e)
  PROVE  CountInv'
<1>1. /\ proc[e].at = "evaluate" /\ Reconciles(e) /\ UNCHANGED <<stats, checkpoint, raw>>
  BY DEF Evaluate, At, database
<1>2. PICK r \in Runs : r = Run(e)
  BY <1>1, ExecutorsWork
<1>3. /\ TypeOK /\ proc[e] \in Process /\ proc \in [Executors -> Process]
  BY DEF IInv, TypeOK
<1>4. PICK eligible \in BOOLEAN :
        LET result == Judged(e)
            warned == \/ result.partial # 0 \/ proc[e].conflict
                      \/ proc[e].rejected \/ ~eligible
            dated == result.latest # 0 \/ result.contiguous # 0
        IN  proc' = [proc EXCEPT ![e].at = IF eligible /\ dated THEN "advance"
                                                              ELSE "complete_stats",
                                 ![e].result = result,
                                 ![e].outcome = IF warned
                                                THEN "completed_with_warnings"
                                                ELSE "completed"]
  BY DEF Evaluate
<1> DEFINE result == Judged(e)
           dated == result.latest # 0 \/ result.contiguous # 0
           phase == IF eligible /\ dated THEN "advance" ELSE "complete_stats"
           warned == \/ result.partial # 0 \/ proc[e].conflict
                     \/ proc[e].rejected \/ ~eligible
           outcome == IF warned THEN "completed_with_warnings" ELSE "completed"
           p == [proc[e] EXCEPT !.at = phase, !.result = result, !.outcome = outcome]
<1>5. phase \in {"advance", "complete_stats"} /\ p.at = phase /\ p.run = r
  BY <1>2, <1>3 DEF Process, Run
<1>6. proc' = [proc EXCEPT ![e] = p]
  BY <1>4
<1> HIDE DEF p, phase
<1>7. Moves(e) /\ proc'[e].at = phase /\ proc'[e].run = r
  BY <1>3, <1>5, <1>6 DEF Moves, IInv, TypeOK
<1>8. RawRows(r) = Counted(RowsOf(r))
  BY DEF RawRows, Counted, RowsOf, Keys
<1>9. Cardinality(Counted(RowsOf(r))) = proc[e].expected
  BY <1>1, <1>2, <1>8 DEF Reconciles
<1>10. /\ RowsOf(r) \in [Keys -> Nat] /\ checkpoint[r] \in [Datasets -> Row]
       /\ Work(proc[e], checkpoint[r], RowsOf(r), stats[r])
       /\ RunCounts(checkpoint[r], RowsOf(r), stats[r])
  BY <1>1, <1>2, <1>3, RowsTyped DEF CountInv, WorkOK, CountsOK
<1>11. Exact(checkpoint[r], RowsOf(r))
  BY <1>1, <1>3, <1>9, <1>10, WorkReconciles
<1>12. proc[e].at \notin Collecting
  BY <1>1 DEF Collecting
<1> QED  BY <1>1, <1>5, <1>7, <1>11, <1>12, Closes

LEMMA AdvanceCounts ==
  ASSUME IInv, IInv', CountInv, NEW e \in Executors, Advance(e)
  PROVE  CountInv'
<1>1. /\ proc[e].at = "advance" /\ Goto(e, "complete_stats")
      /\ UNCHANGED <<stats, checkpoint, raw>>
  BY DEF Advance, At
<1>2. PICK r \in Runs : r = Run(e)
  BY <1>1, ExecutorsWork
<1>3. Moves(e) /\ proc'[e].at = "complete_stats" /\ proc'[e].run = r
  BY <1>1, <1>2, GotoMoves DEF IInv, Phases, Executing, Finishing, SameWork
<1>4. Exact(checkpoint[r], RowsOf(r))
  BY <1>1, <1>2 DEF CountInv, WorkOK, Work, ExactAt
<1>5. proc[e].at \notin Collecting
  BY <1>1 DEF Collecting
<1> QED  BY <1>1, <1>3, <1>4, <1>5, Closes

\* The transactions that fail a run, its last one, and an executor's failure.
LEMMA EndingCounts ==
  ASSUME IInv, IInv', CountInv, NEW e \in Executors,
         \/ CompleteOuter(e) \/ FailOuter(e) \/ FailStats(e) \/ CompleteStats(e)
         \/ EvaluateFails(e) \/ CollectFails(e) \/ Crash(e)
  PROVE  CountInv'
<1>1. UNCHANGED <<checkpoint, raw>> /\ TypeOK /\ stats \in [Runs -> Statuses]
  BY DEF CompleteOuter, FailOuter, FailStats, CompleteStats, EvaluateFails, CollectFails,
         Crash, database, IInv, TypeOK
<1>2. RowsHold
  BY <1>1, RowsHoldUnchanged
<1>3. CASE Leave(e) /\ stats' = stats
  BY <1>2, <1>3, LeaveCounts
<1>4. ASSUME NEW spare \in Nat, Raise(e, spare), stats' = stats
      PROVE  CountInv'
  BY <1>2, <1>4, RaiseCounts
<1>5. CASE CompleteOuter(e)
  BY <1>3, <1>4, <1>5 DEF CompleteOuter
<1>6. CASE FailOuter(e)
  BY <1>3, <1>6 DEF FailOuter
<1>7. CASE EvaluateFails(e)
  BY <1>4, <1>7 DEF EvaluateFails, database
<1>8. CASE CollectFails(e)
  BY <1>4, <1>8 DEF CollectFails, database
<1>9. CASE Crash(e)
  BY <1>3, <1>9 DEF Crash, database
<1>10. CASE FailStats(e)
  <2>1. /\ proc[e].at = "fail_stats" /\ Goto(e, "fail_outer")
        /\ stats' = [stats EXCEPT ![Run(e)] = IF stats[Run(e)] \in Active THEN "failed" ELSE stats[Run(e)]]
    BY <1>10 DEF FailStats, At
  <2>2. "fail_outer" \in Phases /\ "fail_outer" \in Failing
    BY DEF Phases, Executing, Failing
  <2>3. Moves(e) /\ proc'[e].at = "fail_outer"
    BY <1>1, <2>1, <2>2, GotoMoves
  <2>4. \A r \in Runs : stats'[r] \in Success => stats[r] \in Success
    BY <1>1, <2>1 DEF Success
  <2> QED  BY <1>2, <2>2, <2>3, <2>4, Withdraws
<1>11. CASE CompleteStats(e)
  <2>1. proc[e].at = "complete_stats"
    BY <1>11 DEF CompleteStats, At
  <2>2. CASE stats' = [stats EXCEPT ![Run(e)] = proc[e].outcome] /\ Goto(e, "complete_outer")
    <3>1. "complete_outer" \in Phases
      BY DEF Phases, Executing, Finishing
    <3>2. Moves(e) /\ proc'[e].at = "complete_outer"
      BY <1>1, <2>2, <3>1, GotoMoves
    <3>3. \A r \in Runs : stats'[r] \in Success => stats[r] \in Success \/ r = Run(e)
      BY <1>1, <2>2
    <3> QED  BY <1>2, <2>1, <3>2, <3>3, Withdraws
  <2> QED  BY <1>4, <1>11, <2>2 DEF CompleteStats
<1> QED  BY <1>5, <1>6, <1>7, <1>8, <1>9, <1>10, <1>11

LEMMA FailCheckpointsCounts ==
  ASSUME IInv, IInv', CountInv, NEW e \in Executors, FailCheckpoints(e)
  PROVE  CountInv'
<1>1. /\ proc[e].at = "fail_checkpoints"
      /\ raw' = [raw EXCEPT ![Run(e)][Unowned].rows = raw[Run(e)][Unowned].rows + proc[e].spare]
      /\ checkpoint' = [checkpoint EXCEPT ![Run(e)] = FailedCheckpoints(Run(e))]
      /\ proc' = [proc EXCEPT ![e].at = "fail_stats", ![e].spare = 0]
      /\ stats' = stats
  BY DEF FailCheckpoints, At
<1>2. PICK r \in Runs : r = Run(e)
  BY <1>1, ExecutorsWork
<1>3. /\ TypeOK /\ proc[e] \in Process /\ proc \in [Executors -> Process]
      /\ checkpoint \in [Runs -> [Datasets -> Row]]
      /\ raw \in [Runs -> [Keys -> [rows : Nat, at : Nat]]]
  BY DEF IInv, TypeOK, Row, RowStatus, Keys
<1> DEFINE p == [proc[e] EXCEPT !.at = "fail_stats", !.spare = 0]
<1>4. p.at = "fail_stats" /\ proc[e].spare \in Nat
  BY <1>3 DEF Process
<1>5. proc' = [proc EXCEPT ![e] = p]
  BY <1>1
<1> HIDE DEF p
<1>6. Moves(e) /\ proc'[e].at = "fail_stats"
  BY <1>3, <1>4, <1>5 DEF Moves, IInv, TypeOK
<1>7. proc'[e].at \in Failing /\ proc'[e].at # "idle"
  BY <1>6 DEF Failing
<1>8. \A s \in Runs : Softer(checkpoint[s], checkpoint'[s])
  BY <1>1, <1>2, <1>3 DEF Softer, FailedCheckpoints
<1>9. Unowned \notin Datasets /\ Unowned \in Keys
  BY Bounds DEF Unowned, Keys
<1>10. ASSUME NEW s \in Runs, NEW k \in Keys
       PROVE  /\ k \in Datasets => raw'[s][k].rows = raw[s][k].rows
              /\ k = Unowned => raw[s][k].rows <= raw'[s][k].rows
  <2>1. raw[s][k] \in [rows : Nat, at : Nat] /\ raw[r] \in [Keys -> [rows : Nat, at : Nat]]
    BY <1>3
  <2>2. raw' = [raw EXCEPT ![r] = [raw[r] EXCEPT ![Unowned] =
                  [raw[r][Unowned] EXCEPT !.rows = raw[r][Unowned].rows + proc[e].spare]]]
    BY <1>1, <1>2
  <2>3. CASE s # r
    BY <1>3, <2>1, <2>2, <2>3
  <2>4. CASE s = r /\ k # Unowned
    BY <1>3, <2>1, <2>2, <2>4
  <2>5. CASE s = r /\ k = Unowned
    <3>1. raw'[s][k] = [raw[r][Unowned] EXCEPT !.rows = raw[r][Unowned].rows + proc[e].spare]
      BY <1>3, <1>9, <2>1, <2>2, <2>5
    <3>2. raw'[s][k].rows = raw[s][k].rows + proc[e].spare
      BY <2>1, <2>5, <3>1
    <3> QED  BY <1>4, <1>9, <2>1, <2>5, <3>2
  <2> QED  BY <2>3, <2>4, <2>5
<1>11. RowsHold
  BY <1>8, <1>9, <1>10 DEF RowsHold, Keys
<1> QED  BY <1>1, <1>6, <1>7, <1>11, Withdraws

-----------------------------------------------------------------------------
(* The collection of a dataset. *)

LEMMA IndexCounts ==
  ASSUME TypeOK, NEW r \in Runs, NEW k \in Datasets, NEW n \in Nat, Index(r, k, n)
  PROVE  /\ raw'[r][k].rows = raw[r][k].rows + n
         /\ \A j \in Keys \ {k} : raw'[r][j].rows = raw[r][j].rows
         /\ \A s \in Runs \ {r} : raw'[s] = raw[s]
<1> DEFINE c == IF n = 0 THEN raw[r][k] ELSE [rows |-> raw[r][k].rows + n, at |-> clock']
<1>1. raw \in [Runs -> [Keys -> [rows : Nat, at : Nat]]] /\ k \in Keys
  BY DEF TypeOK, Keys
<1>2. raw[r] \in [Keys -> [rows : Nat, at : Nat]] /\ raw[r][k].rows \in Nat
  BY <1>1
<1>3. c.rows = raw[r][k].rows + n
  BY <1>2
<1>4. raw' = [raw EXCEPT ![r][k] = c]
  BY DEF Index
<1> HIDE DEF c
<1>5. raw' = [raw EXCEPT ![r] = [raw[r] EXCEPT ![k] = c]]
  BY <1>4
<1>6. raw'[r] = [raw[r] EXCEPT ![k] = c] /\ \A s \in Runs \ {r} : raw'[s] = raw[s]
  BY <1>1, <1>5
<1>7. raw'[r][k] = c /\ \A j \in Keys \ {k} : raw'[r][j] = raw[r][j]
  BY <1>1, <1>2, <1>6
<1> QED  BY <1>3, <1>6, <1>7

\* The dataset in hand goes on to its next phase with what it retained.
LEMMA HoldsOn ==
  ASSUME IInv, IInv', CountInv, NEW e \in Executors, NEW r \in Runs, r = Run(e),
         NEW k \in Datasets, k = proc[e].key, Moves(e),
         proc[e].at \in {"collect", "persist"}, proc'[e].at \in {"persist", "complete"},
         proc'[e].run = r, proc'[e].key = k, proc'[e].expected = proc[e].expected,
         checkpoint' = checkpoint, stats' = stats,
         \A s \in Runs \ {r} : raw'[s] = raw[s],
         \A j \in Keys \ {k} : raw'[r][j].rows = raw[r][j].rows,
         \/ /\ proc[e].at = "collect"
            /\ raw'[r][k].rows = raw[r][k].rows + Held(proc'[e])
         \/ /\ proc[e].at = "persist" /\ Held(proc'[e]) = Held(proc[e])
            /\ raw'[r][k].rows = raw[r][k].rows
  PROVE  CountInv'
<1>1. TypeOK /\ TypeOK' /\ proc[e] \in Process /\ proc'[e] \in Process
  BY DEF IInv, TypeOK, Moves
<1>2. /\ RowsOf(r) \in [Keys -> Nat] /\ RowsOf(r)' \in [Keys -> Nat]
      /\ checkpoint[r] \in [Datasets -> Row]
      /\ \A j \in Keys : RowsOf(r)[j] = raw[r][j].rows
      /\ \A j \in Keys : RowsOf(r)'[j] = raw'[r][j].rows
  BY <1>1, RowsTyped, RowsTypedNext
<1>3. k \in Keys
  BY DEF Keys
<1>4. /\ Work(proc[e], checkpoint[r], RowsOf(r), stats[r])
      /\ RunCounts(checkpoint[r], RowsOf(r), stats[r])
  BY DEF CountInv, WorkOK, CountsOK
<1>5. \A j \in Keys \ {k} : RowsOf(r)'[j] = RowsOf(r)[j]
  BY <1>2
<1>6. \/ proc[e].at = "collect" /\ RowsOf(r)'[k] = RowsOf(r)[k] + Held(proc'[e])
      \/ proc[e].at = "persist" /\ RowsOf(r)'[k] = RowsOf(r)[k] /\ Held(proc'[e]) = Held(proc[e])
  BY <1>2, <1>3
<1>7. Work(proc'[e], checkpoint[r], RowsOf(r)', stats[r])
  BY <1>1, <1>2, <1>4, <1>5, <1>6, WorkHolds
<1>8. CountsOK(r)'
  <2>1. ~Finished(checkpoint[r][k])
    BY <1>4 DEF Work, Holds, AtDatabase, Finished
  <2>2. \A j \in Datasets : Finished(checkpoint[r][j]) => RowsOf(r)'[j] = RowsOf(r)[j]
    BY <1>5, <2>1 DEF Keys
  <2>3. RunCounts(checkpoint[r], RowsOf(r)', stats[r])
    BY <1>4, <2>2 DEF RunCounts
  <2> QED  BY <2>3 DEF CountsOK, RowsOf
<1>9. proc[e].at \in Collecting /\ proc'[e].at \in Collecting
  BY DEF Collecting
<1> QED  BY <1>7, <1>8, <1>9, Collects

LEMMA CollectScheduleCounts ==
  ASSUME IInv, IInv', CountInv, NEW e \in Executors, CollectSchedule(e)
  PROVE  CountInv'
<1>1. /\ proc[e].at = "collect" /\ proc[e].key = Schedule
      /\ Index(Run(e), Schedule, 1) /\ UNCHANGED <<stats, checkpoint>>
  BY DEF CollectSchedule, At
<1>2. PICK r \in Runs : r = Run(e)
  BY <1>1, ExecutorsWork
<1>3. PICK final \in SUBSET Scope(Asked(e)) :
        \E cancelled \in SUBSET (Scope(Asked(e)) \ final) :
           proc' = [proc EXCEPT ![e].at = "persist", ![e].final = final,
                                ![e].cancelled = cancelled]
  BY DEF CollectSchedule
<1>4. TypeOK /\ proc[e] \in Process /\ proc \in [Executors -> Process]
  BY DEF IInv, TypeOK
<1>31. PICK cancelled \in SUBSET (Scope(Asked(e)) \ final) :
         proc' = [proc EXCEPT ![e].at = "persist", ![e].final = final,
                              ![e].cancelled = cancelled]
  BY <1>3
<1> DEFINE p == [proc[e] EXCEPT !.at = "persist", !.final = final,
                                !.cancelled = cancelled]
<1>5. /\ p.run = r /\ p.key = Schedule /\ p.at = "persist" /\ p.expected = proc[e].expected
  BY <1>1, <1>2, <1>4 DEF Process, Run
<1>6. proc' = [proc EXCEPT ![e] = p]
  BY <1>31
<1> HIDE DEF p
<1>7. Moves(e) /\ proc'[e] = p
  BY <1>4, <1>6 DEF Moves, IInv, TypeOK
<1>8. Held(proc'[e]) = 1
  BY <1>5, <1>7 DEF Held, Schedule, Aggregates
<1>9. Schedule \in Datasets
  BY Bounds
<1>10. /\ raw'[r][Schedule].rows = raw[r][Schedule].rows + 1
       /\ \A j \in Keys \ {Schedule} : raw'[r][j].rows = raw[r][j].rows
       /\ \A s \in Runs \ {r} : raw'[s] = raw[s]
  BY <1>1, <1>2, <1>4, <1>9, IndexCounts
<1> QED  BY <1>1, <1>2, <1>5, <1>7, <1>8, <1>9, <1>10, HoldsOn

LEMMA CollectAggregatesCounts ==
  ASSUME IInv, IInv', CountInv, NEW e \in Executors, CollectAggregates(e)
  PROVE  CountInv'
<1> DEFINE n == CaptureRanges(Asked(e).through, proc[e].effective)
<1>1. /\ proc[e].at = "collect" /\ proc[e].key = Aggregates
      /\ Index(Run(e), Aggregates, n) /\ UNCHANGED <<stats, checkpoint>>
  BY DEF CollectAggregates, At
<1>2. PICK r \in Runs : r = Run(e)
  BY <1>1, ExecutorsWork
<1>3. PICK rejected \in BOOLEAN :
        proc' = [proc EXCEPT ![e].at = "complete", ![e].windows = n,
                             ![e].rejected = rejected]
  BY DEF CollectAggregates
<1>4. TypeOK /\ proc[e] \in Process /\ proc \in [Executors -> Process]
  BY DEF IInv, TypeOK
<1>5. n \in Nat
  <2>1. Asked(e) \in Request
    BY <1>2, Bounds DEF Asked, Run
  <2> QED  BY <1>4, <2>1, RangesTyped DEF Request, Process, Days
<1> HIDE DEF n
<1> DEFINE p == [proc[e] EXCEPT !.at = "complete", !.windows = n, !.rejected = rejected]
<1>6. /\ p.run = r /\ p.key = Aggregates /\ p.at = "complete"
      /\ p.expected = proc[e].expected /\ p.windows = n
  BY <1>1, <1>2, <1>4 DEF Process, Run
<1>7. proc' = [proc EXCEPT ![e] = p]
  BY <1>3
<1> HIDE DEF p
<1>8. Moves(e) /\ proc'[e] = p
  BY <1>4, <1>7 DEF Moves, IInv, TypeOK
<1>9. Held(proc'[e]) = n
  BY <1>6, <1>8 DEF Held
<1>10. Aggregates \in Datasets
  BY Bounds
<1>11. /\ raw'[r][Aggregates].rows = raw[r][Aggregates].rows + n
       /\ \A j \in Keys \ {Aggregates} : raw'[r][j].rows = raw[r][j].rows
       /\ \A s \in Runs \ {r} : raw'[s] = raw[s]
  BY <1>1, <1>2, <1>4, <1>5, <1>10, IndexCounts
<1> QED  BY <1>1, <1>2, <1>6, <1>8, <1>9, <1>10, <1>11, HoldsOn

LEMMA CollectDayCounts ==
  ASSUME IInv, IInv', CountInv, NEW e \in Executors, CollectDay(e)
  PROVE  CountInv'
<1> DEFINE due == proc[e].final \cap {DayOf(proc[e].key)}
<1>1. /\ proc[e].at = "collect" /\ proc[e].key > Aggregates
      /\ Index(Run(e), proc[e].key, 1) /\ UNCHANGED <<stats, checkpoint>>
  BY DEF CollectDay, At
<1>2. PICK r \in Runs : r = Run(e)
  BY <1>1, ExecutorsWork
<1>3. PICK k \in Datasets : k = proc[e].key
  BY <1>1, ExecutorsWork
<1>4. PICK confirmed \in {due, {}} :
        proc' = [proc EXCEPT ![e].at = "persist",
                             ![e].covered = proc[e].covered \cup confirmed,
                             ![e].conflict = proc[e].conflict \/ confirmed # due]
  BY DEF CollectDay
<1>5. TypeOK /\ proc[e] \in Process /\ proc \in [Executors -> Process]
  BY DEF IInv, TypeOK
<1> DEFINE p == [proc[e] EXCEPT !.at = "persist",
                                !.covered = proc[e].covered \cup confirmed,
                                !.conflict = proc[e].conflict \/ confirmed # due]
<1>6. /\ p.run = r /\ p.key = k /\ p.at = "persist" /\ p.expected = proc[e].expected
  BY <1>2, <1>3, <1>5 DEF Process, Run
<1>7. proc' = [proc EXCEPT ![e] = p]
  BY <1>4
<1> HIDE DEF p, due
<1>8. Moves(e) /\ proc'[e] = p
  BY <1>5, <1>7 DEF Moves, IInv, TypeOK
<1>9. k # Aggregates
  BY <1>1, <1>3, Bounds DEF Aggregates
<1>10. Held(proc'[e]) = 1
  BY <1>6, <1>8, <1>9 DEF Held
<1>11. /\ raw'[r][k].rows = raw[r][k].rows + 1
       /\ \A j \in Keys \ {k} : raw'[r][j].rows = raw[r][j].rows
       /\ \A s \in Runs \ {r} : raw'[s] = raw[s]
  BY <1>1, <1>2, <1>3, <1>5, IndexCounts
<1> QED  BY <1>1, <1>2, <1>3, <1>6, <1>8, <1>10, <1>11, HoldsOn

LEMMA PersistCounts ==
  ASSUME IInv, IInv', CountInv, NEW e \in Executors, PersistSchedule(e) \/ PersistDay(e)
  PROVE  CountInv'
<1>1. /\ proc[e].at = "persist" /\ Goto(e, "complete")
      /\ UNCHANGED <<stats, checkpoint, raw>>
  BY DEF PersistSchedule, PersistDay, At
<1>2. PICK r \in Runs : r = Run(e)
  BY <1>1, ExecutorsWork
<1>3. PICK k \in Datasets : k = proc[e].key
  BY <1>1, ExecutorsWork
<1>4. TypeOK /\ "complete" \in Phases
  BY DEF IInv, Phases, Executing, Collecting
<1>5. /\ Moves(e) /\ proc'[e].at = "complete" /\ proc'[e].run = r /\ proc'[e].key = k
  BY <1>1, <1>2, <1>3, <1>4, GotoMoves DEF SameWork
<1>6. proc'[e].expected = proc[e].expected /\ Held(proc'[e]) = Held(proc[e])
  BY <1>1, <1>4, GotoCounts
<1> QED  BY <1>1, <1>2, <1>3, <1>5, <1>6, HoldsOn

\* The executor turns to the next dataset: what it counted is what it holds.
LEMMA TurnsOn ==
  ASSUME IInv, IInv', CountInv, NEW e \in Executors, proc[e].at \in Collecting,
         NEW r \in Runs, r = Run(e), NEW k \in Datasets, k = proc[e].key,
         NEW p \in Process, NEW n \in Nat, NEW at \in Nat,
         p.run = r, p.key = k, p.expected = proc[e].expected,
         proc' = [proc EXCEPT ![e] = Absorbed(p, Asked(e), n, at)],
         UNCHANGED <<stats, raw>>,
         \A s \in Runs \ {r} : checkpoint'[s] = checkpoint[s],
         \A j \in Datasets \ {k} : checkpoint'[r][j] = checkpoint[r][j],
         ~Pending(checkpoint'[r][k]),
         Finished(checkpoint'[r][k]) => checkpoint'[r][k].captures = n,
         n <= raw[r][k].rows, CountsOK(r)'
  PROVE  CountInv'
<1>1. TypeOK /\ TypeOK' /\ proc[e] \in Process /\ proc \in [Executors -> Process]
  BY DEF IInv, TypeOK
<1>2. Asked(e) \in Request
  BY Bounds DEF Asked, Run
<1> DEFINE j == Absorbed(p, Asked(e), n, at)
<1>3. /\ j \in Process /\ j.run = r /\ j.expected = proc[e].expected + n
      /\ \/ j.at = "evaluate"
         \/ j.at = "open" /\ k < j.key
  BY <1>2, AbsorbedTyped, AbsorbedCounts
<1>4. proc' = [proc EXCEPT ![e] = j]
  OBVIOUS
<1> HIDE DEF j
<1>5. Moves(e) /\ proc'[e] = j
  BY <1>1, <1>3, <1>4 DEF Moves
<1>6. /\ RowsOf(r) \in [Keys -> Nat] /\ RowsOf(r)' = RowsOf(r)
      /\ checkpoint[r] \in [Datasets -> Row] /\ checkpoint'[r] \in [Datasets -> Row]
      /\ \A i \in Keys : RowsOf(r)[i] = raw[r][i].rows
  BY <1>1, RowsTyped, RowsTypedNext DEF RowsOf
<1>7. n <= RowsOf(r)[k]
  BY <1>6 DEF Keys
<1>8. Work(proc[e], checkpoint[r], RowsOf(r), stats[r])
  BY DEF CountInv, WorkOK, Collecting
<1>9. Work(j, checkpoint'[r], RowsOf(r), stats[r])
  BY <1>1, <1>3, <1>6, <1>7, <1>8, WorkTurns
<1>10. j.at \in Collecting \cup {"evaluate"}
  BY <1>3 DEF Collecting
<1> QED  BY <1>3, <1>5, <1>6, <1>9, <1>10, Collects

LEMMA CompleteCounts ==
  ASSUME IInv, IInv', CountInv, NEW e \in Executors, Complete(e)
  PROVE  CountInv'
<1>1. proc[e].at = "complete" /\ UNCHANGED <<stats, raw>>
  BY DEF Complete, At
<1>2. PICK r \in Runs : r = Run(e)
  BY <1>1, ExecutorsWork
<1>3. PICK k \in Datasets : k = proc[e].key
  BY <1>1, ExecutorsWork
<1> DEFINE n == Held(proc[e])
           status == IF IsPartial(proc[e]) THEN "partial" ELSE "completed"
           c == IF checkpoint[r][k].status = "running"
                THEN [status |-> status, captures |-> n] ELSE checkpoint[r][k]
<1>4. /\ checkpoint' = [checkpoint EXCEPT ![r][k] = c]
      /\ proc' = [proc EXCEPT ![e] = Absorbed(proc[e], Asked(e), n, raw[r][k].at)]
  BY <1>2, <1>3 DEF Complete, Held
<1>5. TypeOK /\ TypeOK' /\ proc[e] \in Process /\ n \in Nat
  BY DEF IInv, TypeOK, Process, Held
<1>6. /\ RowsOf(r) \in [Keys -> Nat] /\ RowsOf(r)' = RowsOf(r)
      /\ checkpoint[r] \in [Datasets -> Row] /\ checkpoint \in [Runs -> [Datasets -> Row]]
      /\ \A i \in Keys : RowsOf(r)[i] = raw[r][i].rows
      /\ raw[r][k].at \in Nat
  <2>1. raw[r][k].at \in Nat
    BY <1>5 DEF TypeOK
  <2>2. checkpoint \in [Runs -> [Datasets -> Row]]
    BY <1>5 DEF TypeOK, Row, RowStatus
  <2> QED  BY <1>1, <1>5, <2>1, <2>2, RowsTyped DEF RowsOf
<1>7. /\ Work(proc[e], checkpoint[r], RowsOf(r), stats[r])
      /\ RunCounts(checkpoint[r], RowsOf(r), stats[r])
  BY <1>1, <1>2 DEF CountInv, WorkOK, CountsOK
<1>8. /\ checkpoint[r][k].status \in {"running", "failed"} /\ n <= RowsOf(r)[k]
  BY <1>1, <1>3, <1>7 DEF Work, Holds, AtDatabase
<1>9. status \in {"partial", "completed"}
  OBVIOUS
<1> HIDE DEF n, status
<1>10. /\ c \in Row /\ ~Pending(c)
       /\ Finished(c) => c.captures = n /\ checkpoint[r][k].status = "running"
  BY <1>5, <1>6, <1>8, <1>9 DEF Row, RowStatus, Pending, Finished
<1> HIDE DEF c
<1>11. /\ checkpoint'[r][k] = c
       /\ \A j \in Datasets \ {k} : checkpoint'[r][j] = checkpoint[r][j]
       /\ \A s \in Runs \ {r} : checkpoint'[s] = checkpoint[s]
  BY ONLY <1>4, <1>6, <1>10, RowReplaced, Zenon
<1>12. CountsOK(r)'
  <2>1. ASSUME NEW j \in Datasets, Finished(checkpoint'[r][j])
        PROVE  /\ checkpoint'[r][j].captures <= RowsOf(r)[j]
               /\ stats[r] \in Success => RowsOf(r)[j] = checkpoint'[r][j].captures
    <3>1. CASE j # k
      BY <1>7, <1>11, <2>1, <3>1 DEF RunCounts
    <3>2. CASE j = k
      <4>1. c.captures = n /\ Pending(checkpoint[r][k])
        BY <1>10, <1>11, <2>1, <3>2 DEF Pending
      <4>2. ASSUME stats[r] \in Success PROVE RowsOf(r)[k] = n
        <5>1. Untouched(proc[e], checkpoint[r], RowsOf(r))
          BY <1>1, <1>7, <4>2 DEF Work, Collecting
        <5>2. RowsOf(r)[k] = 0 \/ RowsOf(r)[k] = n
          BY <4>1, <5>1 DEF Untouched, n
        <5>3. RowsOf(r)[k] \in Nat
          BY <1>6 DEF Keys
        <5> QED  BY <1>5, <1>8, <5>2, <5>3
      <4> QED  BY <1>8, <1>11, <3>2, <4>1, <4>2
    <3> QED  BY <3>1, <3>2
  <2>2. RunCounts(checkpoint'[r], RowsOf(r)', stats'[r])
    BY <1>1, <1>6, <2>1 DEF RunCounts
  <2> QED  BY <2>2 DEF CountsOK
<1>13. n <= raw[r][k].rows
  BY <1>6, <1>8 DEF Keys
<1>14. proc[e].at \in Collecting /\ proc[e].run = r
  BY <1>1, <1>2 DEF Collecting, Run
<1>15. /\ ~Pending(checkpoint'[r][k])
       /\ Finished(checkpoint'[r][k]) => checkpoint'[r][k].captures = n
  BY <1>10, <1>11
<1>16. proc[e] \in Process /\ n \in Nat /\ raw[r][k].at \in Nat
  BY <1>5, <1>6
<1>17. /\ \A s \in Runs \ {r} : checkpoint'[s] = checkpoint[s]
       /\ \A j \in Datasets \ {k} : checkpoint'[r][j] = checkpoint[r][j]
  BY <1>11
<1>18. proc' = [proc EXCEPT ![e] = Absorbed(proc[e], Asked(e), n, raw[r][k].at)]
  BY <1>4
<1> QED
  BY <1>1, <1>2, <1>3, <1>12, <1>13, <1>14, <1>15, <1>16, <1>17, <1>18, TurnsOn

LEMMA OpenCounts ==
  ASSUME IInv, IInv', CountInv, NEW e \in Executors, Open(e)
  PROVE  CountInv'
<1>1. proc[e].at = "open" /\ UNCHANGED <<stats, raw>>
  BY DEF Open, At
<1>2. PICK r \in Runs : r = Run(e)
  BY <1>1, ExecutorsWork
<1>3. PICK k \in Datasets : k = proc[e].key
  BY <1>1, ExecutorsWork
<1>4. TypeOK /\ TypeOK' /\ proc[e] \in Process /\ proc \in [Executors -> Process]
  BY DEF IInv, TypeOK
<1>5. EffectiveFinal(proc[e], Asked(e)) \in 0 .. MaxDay
  BY <1>2, <1>4, Bounds, EffectiveTyped DEF Asked, Run
<1> DEFINE p == IF k = Aggregates
                THEN [proc[e] EXCEPT !.effective = EffectiveFinal(proc[e], Asked(e))]
                ELSE proc[e]
<1>6. p \in Process /\ p.run = r /\ p.key = k /\ p.expected = proc[e].expected
  BY <1>2, <1>3, <1>4, <1>5 DEF Process, Run
<1>7. \/ /\ Mine(e).status \in {"absent", "running"}
         /\ checkpoint' = [checkpoint EXCEPT ![r][k].status = "running"]
         /\ proc' = [proc EXCEPT ![e] = [p EXCEPT !.at = "collect"]]
      \/ /\ Restorable(r, k)
         /\ proc' = [proc EXCEPT ![e] = Restored(p, Asked(e))]
         /\ UNCHANGED checkpoint
      \/ Raise(e, 0) /\ UNCHANGED checkpoint
  BY <1>2, <1>3 DEF Open
<1> HIDE DEF p
<1>8. /\ RowsOf(r) \in [Keys -> Nat] /\ RowsOf(r)' = RowsOf(r)
      /\ checkpoint[r] \in [Datasets -> Row] /\ checkpoint \in [Runs -> [Datasets -> Row]]
      /\ \A i \in Keys : RowsOf(r)[i] = raw[r][i].rows
      /\ raw[r][k].at \in Nat /\ raw[r][k].rows \in Nat
  <2>1. raw[r][k].at \in Nat /\ raw[r][k].rows \in Nat
    BY <1>4 DEF TypeOK
  <2>2. checkpoint \in [Runs -> [Datasets -> Row]]
    BY <1>4 DEF TypeOK, Row, RowStatus
  <2> QED  BY <1>1, <1>4, <2>1, <2>2, RowsTyped DEF RowsOf
<1>9. /\ Work(proc[e], checkpoint[r], RowsOf(r), stats[r])
      /\ RunCounts(checkpoint[r], RowsOf(r), stats[r])
  BY <1>1, <1>2 DEF CountInv, WorkOK, CountsOK
<1>10. proc[e].at \in Collecting
  BY <1>1 DEF Collecting
<1>11. CASE /\ Mine(e).status \in {"absent", "running"}
            /\ checkpoint' = [checkpoint EXCEPT ![r][k].status = "running"]
            /\ proc' = [proc EXCEPT ![e] = [p EXCEPT !.at = "collect"]]
  <2> DEFINE j == [p EXCEPT !.at = "collect"]
             c == [checkpoint[r][k] EXCEPT !.status = "running"]
  <2>1. /\ j \in Process /\ j.run = r /\ j.key = k /\ j.at = "collect"
        /\ j.expected = proc[e].expected
    BY <1>6 DEF Process, Phases, Executing, Collecting
  <2>2. proc' = [proc EXCEPT ![e] = j]
    BY <1>11
  <2>3. c \in Row /\ c.status = "running" /\ ~Finished(c)
    BY <1>8 DEF Row, RowStatus, Finished
  <2>4. checkpoint' = [checkpoint EXCEPT ![r][k] = c]
    BY <1>11
  <2>5. Pending(checkpoint[r][k])
    BY <1>2, <1>3, <1>11 DEF Mine, Pending
  <2> HIDE DEF j, c
  <2>6. Moves(e) /\ proc'[e] = j
    BY <1>4, <2>1, <2>2 DEF Moves
  <2>7. /\ checkpoint'[r][k] = c /\ checkpoint' \in [Runs -> [Datasets -> Row]]
        /\ \A i \in Datasets \ {k} : checkpoint'[r][i] = checkpoint[r][i]
        /\ \A s \in Runs \ {r} : checkpoint'[s] = checkpoint[s]
    BY ONLY <1>8, <2>3, <2>4, RowReplaced, Zenon
  <2>8. Work(j, checkpoint'[r], RowsOf(r), stats[r])
    BY <1>1, <1>3, <1>4, <1>8, <1>9, <2>1, <2>3, <2>5, <2>7, WorkOpens
  <2>9. CountsOK(r)'
    <3>1. \A i \in Datasets : Finished(checkpoint'[r][i]) => checkpoint'[r][i] = checkpoint[r][i]
      BY <2>3, <2>7
    <3>2. RunCounts(checkpoint'[r], RowsOf(r)', stats'[r])
      BY <1>1, <1>8, <1>9, <3>1 DEF RunCounts
    <3> QED  BY <3>2 DEF CountsOK
  <2>10. j.at \in Collecting
    BY <2>1 DEF Collecting
  <2> QED  BY <1>1, <1>2, <1>8, <1>10, <2>1, <2>6, <2>7, <2>8, <2>9, <2>10, Collects
<1>12. CASE /\ Restorable(r, k)
            /\ proc' = [proc EXCEPT ![e] = Restored(p, Asked(e))]
            /\ UNCHANGED checkpoint
  <2> DEFINE row == raw[r][k]
             held == CASE k = Schedule ->
                            [p EXCEPT !.final = finals[r], !.cancelled = cancels[r]]
                       [] k > Aggregates ->
                            [p EXCEPT !.covered = p.covered \cup (p.final \cap {DayOf(k)})]
                       [] OTHER -> p
  <2>1. Restored(p, Asked(e)) = Absorbed(held, Asked(e), row.rows, row.at)
    BY <1>6 DEF Restored
  <2>2. /\ held \in Process /\ held.run = r /\ held.key = k
        /\ held.expected = proc[e].expected
    <3>1. CASE k = Schedule
      <4>1. held = [p EXCEPT !.final = finals[r], !.cancelled = cancels[r]]
        BY <3>1 DEF Schedule, Aggregates
      <4>2. finals[r] \in SUBSET Days /\ cancels[r] \in SUBSET Days
        BY <1>4 DEF TypeOK
      <4> QED  BY <1>6, <4>1, <4>2 DEF Process
    <3>2. CASE k # Schedule /\ k > Aggregates
      <4>1. held = [p EXCEPT !.covered = p.covered \cup (p.final \cap {DayOf(k)})]
        BY <3>2
      <4>2. p.covered \cup (p.final \cap {DayOf(k)}) \in SUBSET Days
        BY <1>6 DEF Process
      <4> QED  BY <1>6, <4>1, <4>2 DEF Process
    <3>3. CASE k # Schedule /\ ~(k > Aggregates)
      BY <1>6, <3>3
    <3> QED  BY <3>1, <3>2, <3>3
  <2> HIDE DEF held
  <2>3. /\ checkpoint[r][k].status = "completed" /\ checkpoint[r][k].captures = row.rows
        /\ ~Pending(checkpoint[r][k])
    BY <1>12 DEF Restorable, Pending
  <2>4. row.rows <= raw[r][k].rows
    BY <1>8
  <2>5. RowsHold
    BY <1>1, <1>4, <1>12, RowsHoldUnchanged
  <2>6. CountsOK(r)'
    BY <1>1, <1>4, <2>5, CountsOKStand
  <2> HIDE DEF row
  <2>7. row.rows \in Nat /\ row.at \in Nat
    BY <1>8 DEF row
  <2>8. /\ ~Pending(checkpoint'[r][k])
        /\ Finished(checkpoint'[r][k]) => checkpoint'[r][k].captures = row.rows
        /\ proc' = [proc EXCEPT ![e] = Absorbed(held, Asked(e), row.rows, row.at)]
    BY <1>12, <2>1, <2>3
  <2> QED  BY <1>1, <1>2, <1>3, <1>10, <1>12, <2>2, <2>4, <2>6, <2>7, <2>8, TurnsOn
<1>13. CASE Raise(e, 0) /\ UNCHANGED checkpoint
  <2>1. RowsHold
    BY <1>1, <1>4, <1>13, RowsHoldUnchanged
  <2> QED  BY <1>1, <1>13, <2>1, RaiseCounts
<1> QED  BY <1>7, <1>11, <1>12, <1>13

LEMMA CountsInitially == Init => CountInv
<1> SUFFICES ASSUME Init PROVE CountInv
  OBVIOUS
<1>1. \A e \in Executors : proc[e].at = "idle" /\ proc[e].expected = 0
  BY DEF Init, Idle
<1>2. \A r \in Runs : CountsOK(r)
  BY DEF Init, NoCheckpoint, CountsOK, RunCounts, Finished
<1>3. \A e \in Executors : WorkOK(e)
  BY <1>1 DEF WorkOK, Fresh
<1>4. LockedOut
  BY <1>1 DEF LockedOut
<1> QED  BY <1>2, <1>3, <1>4 DEF CountInv

\* A step that touches neither processes nor rows.
LEMMA CountsUnchanged ==
  ASSUME CountInv, UNCHANGED <<stats, checkpoint, raw, proc>>
  PROVE  CountInv'
<1>1. \A r \in Runs : CountsOK(r)'
  BY DEF CountInv, CountsOK, RowsOf
<1>2. \A e \in Executors : WorkOK(e)'
  BY DEF CountInv, WorkOK, RowsOf, Run
<1>3. LockedOut'
  BY DEF CountInv, LockedOut, Run
<1> QED  BY <1>1, <1>2, <1>3 DEF CountInv

LEMMA CountsInductive == IInv /\ IInv' /\ CountInv /\ [Next]_vars => CountInv'
<1> SUFFICES ASSUME IInv, IInv', CountInv, [Next]_vars PROVE CountInv'
  OBVIOUS
<1>1. ASSUME NEW e \in Executors, Starting(e)
      PROVE  CountInv'
  BY <1>1, CreateRunCounts, StartingCounts, ResumeCounts DEF Starting
<1>2. ASSUME NEW e \in Executors, Collection(e)
      PROVE  CountInv'
  BY <1>2, OpenCounts, CollectScheduleCounts, CollectAggregatesCounts, CollectDayCounts,
     PersistCounts, CompleteCounts, EndingCounts DEF Collection
<1>3. ASSUME NEW e \in Executors, Ending(e)
      PROVE  CountInv'
  BY <1>3, EvaluateCounts, AdvanceCounts, FailCheckpointsCounts, EndingCounts DEF Ending
<1>4. ASSUME NEW e \in Executors, Crash(e)
      PROVE  CountInv'
  BY <1>4, EndingCounts
<1>5. CASE ServiceStarts \/ UNCHANGED vars
  BY <1>5, CountsUnchanged DEF ServiceStarts, vars
<1> QED  BY <1>1, <1>2, <1>3, <1>4, <1>5 DEF Next

\* Whatever interrupted and failed executions left behind, a run that
\* completes owns exactly the responses its checkpoints name
\* (_run_reconciliation_items, _complete_checkpoint, _verified_completed_checkpoint).
THEOREM CompletedRunsReconcile == Spec => []CompletedRunReconciles
<1>1. CountInv => CompletedRunReconciles
  BY DEF CountInv, CountsOK, RunCounts, RowsOf, CompletedRunReconciles, Finished, Keys
<1>2. Spec => []CountInv
  BY Invariance, CountsInitially, CountsInductive, PTL DEF Spec
<1> QED  BY <1>1, <1>2, PTL

-----------------------------------------------------------------------------
(***************************************************************************)
(* The feature rows.  FeaturesStandOnEvidence for any number of processes, *)
(* runs, contents and deaths.  What a process has read stays true until it *)
(* records it: the history only grows, and a run's responses and cutoff    *)
(* never change.                                                           *)
(***************************************************************************)
Value == Contents \cup {Nothing}
Revisions == [pitch : Value, at : Nat]
JobRecords == [kind : {"none", "acquisition", "derived"},
               status : {"none", "running", "completed", "failed"},
               source : Nat, page : Value, pitch : Value, cutoff : Nat,
               collected : BOOLEAN]
Places == {"rest", "seasons", "number", "revise", "load", "count", "record",
           "recount", "end", "aggregates"}
WorkerRecords == [at : Places, job : Nat, next : Nat, known : Nat, counted : Nat]
FeatureRecords == [sources : Value \X Value \X Value,
                   payload : [page : Value, cutoff : Nat, revision : Nat],
                   by : Nat]

FeatureTypeOK ==
    /\ history \in Seq(Revisions)
    /\ features \subseteq FeatureRecords
    /\ jobs \in [1..MaxJobs -> JobRecords]
    /\ worker \in [Workers -> WorkerRecords]
    /\ ticks \in Nat /\ deaths \in Nat

\* What a row says of its evidence.
RowOK(f) ==
    /\ f.payload.page = f.sources[1]
    /\ IF f.payload.revision = 0 THEN f.sources[3] = Nothing
       ELSE /\ f.payload.revision \in 1..Len(history)
            /\ history[f.payload.revision].at <= f.payload.cutoff
            /\ history[f.payload.revision].pitch = f.sources[3]
RowsOK == \A f \in features : RowOK(f)
OneRowEach == \A f, g \in features : f.sources = g.sources => f = g

\* The row of a run's own sources is there.
HasRow(r) == \E f \in features : /\ f.payload.cutoff = jobs[r].cutoff
                                 /\ f.sources[1] = jobs[r].page
                                 /\ f.sources[2] = jobs[r].pitch
CompletedOK == \A r \in 1..MaxJobs : jobs[r].status = "completed" => HasRow(r)
\* A run that is not there yet has no status.
UnusedOK == \A r \in 1..MaxJobs : jobs[r].kind = "none" => jobs[r].status = "none"

\* What a process may still conclude from what it has read.
WorkerOK(w) ==
    worker[w].at # "rest" =>
        /\ worker[w].job \in 1..MaxJobs
        /\ jobs[worker[w].job].kind # "none"
        /\ worker[w].at \in {"count", "record"} /\ worker[w].known # 0 =>
              /\ worker[w].known \in 1..Len(history)
              /\ history[worker[w].known].at <= jobs[worker[w].job].cutoff
        /\ worker[w].at \in {"recount", "end"} => HasRow(worker[w].job)

FeatureInv == /\ FeatureTypeOK
              /\ RowsOK /\ OneRowEach /\ CompletedOK /\ UnusedOK
              /\ \A w \in Workers : WorkerOK(w)

-----------------------------------------------------------------------------
(* What every step keeps.                                                  *)

HistoryGrows == /\ Len(history) <= Len(history')
                /\ \A i \in 1..Len(history) : history'[i] = history[i]

\* The responses and the cutoff of a run that is there.
JobsKept == \A r \in 1..MaxJobs : jobs[r].kind # "none" =>
               /\ jobs'[r].kind = jobs[r].kind /\ jobs'[r].page = jobs[r].page
               /\ jobs'[r].pitch = jobs[r].pitch /\ jobs'[r].cutoff = jobs[r].cutoff

\* Only a run with its row is completed.
CompletesWithRow == \A r \in 1..MaxJobs : jobs'[r].status = "completed" =>
                       jobs[r].kind # "none" /\ HasRow(r)

\* A process that does not move keeps what it may conclude.
LEMMA OthersStay ==
    ASSUME FeatureInv, NEW v \in Workers, worker'[v] = worker[v],
           HistoryGrows, JobsKept, features \subseteq features'
    PROVE  WorkerOK(v)'
<1> SUFFICES ASSUME worker[v].at # "rest"
             PROVE  WorkerOK(v)'
  BY DEF WorkerOK
<1>1. WorkerOK(v)
  BY DEF FeatureInv
<1> DEFINE r == worker[v].job
<1>2. /\ r \in 1..MaxJobs /\ jobs[r].kind # "none"
      /\ jobs'[r].kind # "none" /\ jobs'[r].cutoff = jobs[r].cutoff
      /\ jobs'[r].page = jobs[r].page /\ jobs'[r].pitch = jobs[r].pitch
  BY <1>1 DEF WorkerOK, JobsKept
<1>3. ASSUME worker[v].at \in {"count", "record"}, worker[v].known # 0
      PROVE  /\ worker[v].known \in 1..Len(history')
             /\ history'[worker[v].known].at <= jobs'[r].cutoff
  <2>1. /\ worker[v].known \in 1..Len(history)
        /\ history[worker[v].known].at <= jobs[r].cutoff
    BY <1>1, <1>3 DEF WorkerOK
  <2>2. Len(history) \in Nat /\ Len(history') >= Len(history)
    BY DEF FeatureInv, FeatureTypeOK, HistoryGrows
  <2> QED
    BY <2>1, <2>2, <1>2 DEF HistoryGrows, FeatureInv, FeatureTypeOK
<1>4. ASSUME worker[v].at \in {"recount", "end"}
      PROVE  HasRow(r)'
  BY <1>1, <1>2, <1>4 DEF WorkerOK, HasRow
<1> QED
  BY <1>2, <1>3, <1>4 DEF WorkerOK

\* A step of w that records no feature.
LEMMA QuietStep ==
    ASSUME FeatureInv, NEW w \in Workers, FeatureTypeOK', features' = features,
           HistoryGrows, JobsKept, CompletesWithRow, UnusedOK', WorkerOK(w)',
           \A v \in Workers \ {w} : worker'[v] = worker[v]
    PROVE  FeatureInv'
<1>1. RowsOK'
  <2> SUFFICES ASSUME NEW f \in features PROVE RowOK(f)'
    BY DEF RowsOK
  <2>1. RowOK(f)
    BY DEF FeatureInv, RowsOK
  <2>2. Len(history) \in Nat /\ Len(history') \in Nat
    BY DEF FeatureInv, FeatureTypeOK
  <2> QED
    BY <2>1, <2>2 DEF RowOK, HistoryGrows
<1>2. OneRowEach'
  BY DEF FeatureInv, OneRowEach
<1>3. CompletedOK'
  BY DEF CompletesWithRow, CompletedOK, HasRow, JobsKept
<1>4. \A v \in Workers : WorkerOK(v)'
  BY OthersStay
<1> QED
  BY <1>1, <1>2, <1>3, <1>4 DEF FeatureInv

LEMMA InitOK == FeatureInit => FeatureInv
<1> SUFFICES ASSUME FeatureInit PROVE FeatureInv
  OBVIOUS
<1>1. FeatureTypeOK
  BY DEF FeatureInit, FeatureTypeOK, NoJobYet, Resting, JobRecords, WorkerRecords,
         Value, Nothing, Places
<1> QED
  BY <1>1 DEF FeatureInit, FeatureInv, RowsOK, OneRowEach, CompletedOK, UnusedOK,
              WorkerOK, NoJobYet, Resting

LEMMA StutterOK ==
    ASSUME FeatureInv, UNCHANGED featureVars
    PROVE  FeatureInv'
BY DEF featureVars, FeatureInv, FeatureTypeOK, RowsOK, RowOK, OneRowEach, CompletedOK,
       UnusedOK, WorkerOK, HasRow

-----------------------------------------------------------------------------
(* Steps that leave the tables alone.                                      *)

\* w goes from one place of its run to another, and concludes nothing new.
LEMMA MovesOn ==
    ASSUME FeatureInv, NEW w \in Workers, worker[w].at # "rest",
           NEW n \in WorkerRecords, n.job = worker[w].job,
           n.at \notin {"rest", "count", "record", "recount", "end"},
           worker' = [worker EXCEPT ![w] = n],
           UNCHANGED <<features, jobs, ticks, deaths>>, HistoryGrows,
           history' \in Seq(Revisions)
    PROVE  FeatureInv'
<1>1. FeatureTypeOK'
  BY DEF FeatureInv, FeatureTypeOK
<1>2. WorkerOK(w)' /\ \A v \in Workers \ {w} : worker'[v] = worker[v]
  BY DEF FeatureInv, FeatureTypeOK, WorkerOK
<1>3. JobsKept /\ CompletesWithRow /\ UnusedOK'
  BY DEF FeatureInv, JobsKept, CompletesWithRow, UnusedOK, CompletedOK, HasRow
<1> QED
  BY <1>1, <1>2, <1>3, QuietStep

\* w rests, and its run may have failed.
LEMMA Rested ==
    ASSUME FeatureInv, NEW w \in Workers, Rests(w), UNCHANGED <<features, history>>,
           \/ UNCHANGED jobs
           \/ worker[w].at # "rest" /\ jobs' = [jobs EXCEPT ![JobOf(w)].status = "failed"],
           ticks' \in Nat, deaths' \in Nat
    PROVE  FeatureInv'
<1>1. /\ WorkerOK(w)' /\ \A v \in Workers \ {w} : worker'[v] = worker[v]
      /\ worker' \in [Workers -> WorkerRecords]
  BY DEF FeatureInv, FeatureTypeOK, WorkerOK, Rests, Resting, WorkerRecords, Places, Nothing
<1>2. HistoryGrows
  BY DEF FeatureInv, FeatureTypeOK, HistoryGrows
<1>3. CASE UNCHANGED jobs
  <2>1. JobsKept /\ CompletesWithRow /\ UnusedOK' /\ FeatureTypeOK'
    BY <1>1, <1>3 DEF FeatureInv, FeatureTypeOK, JobsKept, CompletesWithRow, UnusedOK,
                      CompletedOK
  <2> QED
    BY <1>1, <1>2, <2>1, QuietStep
<1>4. CASE worker[w].at # "rest" /\ jobs' = [jobs EXCEPT ![JobOf(w)].status = "failed"]
  <2>1. JobOf(w) \in 1..MaxJobs /\ jobs[JobOf(w)].kind # "none"
    BY <1>4 DEF FeatureInv, WorkerOK, JobOf
  <2>2. jobs' \in [1..MaxJobs -> JobRecords]
    BY <1>4, <2>1 DEF FeatureInv, FeatureTypeOK, JobRecords
  <2>3. JobsKept /\ CompletesWithRow /\ UnusedOK'
    BY <1>4, <2>1 DEF FeatureInv, FeatureTypeOK, JobRecords, JobsKept, CompletesWithRow,
                      UnusedOK, CompletedOK
  <2>4. FeatureTypeOK'
    BY <1>1, <2>2 DEF FeatureInv, FeatureTypeOK
  <2> QED
    BY <1>1, <1>2, <2>3, <2>4, QuietStep
<1> QED
  BY <1>3, <1>4

LEMMA FailsOK ==
    ASSUME FeatureInv, NEW w \in Workers, worker[w].at # "rest", FailsJob(w),
           UNCHANGED <<history, features, ticks, deaths>>
    PROVE  FeatureInv'
BY Rested DEF FailsJob, FeatureInv, FeatureTypeOK

\* w takes up a run, whose row in jobs may be new.
LEMMA TakesUp ==
    ASSUME FeatureInv, NEW w \in Workers, NEW r \in 1..MaxJobs, NEW place \in Places,
           place \notin {"rest", "count", "record", "recount", "end"},
           worker' = [worker EXCEPT ![w] = [Resting EXCEPT !.at = place, !.job = r]],
           NEW j \in JobRecords, j.kind # "none",
           \/ UNCHANGED jobs /\ jobs[r].kind # "none"
           \/ FreshJob(r) /\ j.status = "running" /\ jobs' = [jobs EXCEPT ![r] = j],
           ticks' \in Nat, UNCHANGED <<history, features, deaths>>
    PROVE  FeatureInv'
<1>1. HistoryGrows
  BY DEF FeatureInv, FeatureTypeOK, HistoryGrows
<1>2. /\ JobsKept /\ CompletesWithRow /\ UnusedOK' /\ jobs'[r].kind # "none"
      /\ jobs' \in [1..MaxJobs -> JobRecords]
  <2>1. CASE UNCHANGED jobs /\ jobs[r].kind # "none"
    BY <2>1 DEF FeatureInv, FeatureTypeOK, JobsKept, CompletesWithRow, UnusedOK, CompletedOK
  <2>2. CASE FreshJob(r) /\ j.status = "running" /\ jobs' = [jobs EXCEPT ![r] = j]
    <3>1. /\ jobs \in [1..MaxJobs -> JobRecords] /\ jobs[r].kind = "none"
          /\ jobs' \in [1..MaxJobs -> JobRecords]
          /\ jobs'[r] = j /\ \A q \in (1..MaxJobs) \ {r} : jobs'[q] = jobs[q]
      BY <2>2 DEF FeatureInv, FeatureTypeOK, FreshJob
    <3>2. JobsKept
      BY <3>1 DEF JobsKept
    <3>3. CompletesWithRow
      BY <2>2, <3>1 DEF CompletesWithRow, FeatureInv, UnusedOK, CompletedOK
    <3>4. UnusedOK'
      BY <2>2, <3>1 DEF UnusedOK, FeatureInv
    <3> QED
      BY <3>1, <3>2, <3>3, <3>4
  <2> QED
    BY <2>1, <2>2
<1>3. /\ worker' \in [Workers -> WorkerRecords]
      /\ \A v \in Workers \ {w} : worker'[v] = worker[v]
      /\ worker'[w].at = place /\ worker'[w].job = r
  <2> DEFINE n == [Resting EXCEPT !.at = place, !.job = r]
  <2>1. r \in Nat
    BY FeatureAssumption
  <2>2. n \in WorkerRecords /\ n.at = place /\ n.job = r
    BY <2>1 DEF Resting, WorkerRecords, Nothing, Places
  <2> HIDE DEF n
  <2>3. worker' = [worker EXCEPT ![w] = n]
    BY DEF n
  <2> QED
    BY <2>2, <2>3 DEF FeatureInv, FeatureTypeOK
<1>4. WorkerOK(w)'
  BY <1>2, <1>3 DEF WorkerOK
<1>5. FeatureTypeOK'
  BY <1>2, <1>3 DEF FeatureInv, FeatureTypeOK
<1> QED
  BY <1>1, <1>2, <1>3, <1>4, <1>5, QuietStep

-----------------------------------------------------------------------------
(* One lemma for each step of an acquisition or of a materialization that  *)
(* reads or writes a table.                                                *)

LEMMA AcquireOK ==
    ASSUME FeatureInv, NEW w \in Workers, AcquireResponses(w)
    PROVE  FeatureInv'
<1>1. PICK r \in 1..MaxJobs, page \in Contents, pitch \in Contents :
          /\ FreshJob(r)
          /\ jobs' = [jobs EXCEPT ![r] = [@ EXCEPT !.kind = "acquisition",
                         !.status = "running", !.page = page, !.pitch = pitch,
                         !.cutoff = ticks + 1]]
          /\ worker' = [worker EXCEPT ![w] = [Resting EXCEPT !.at = "seasons", !.job = r]]
  BY DEF AcquireResponses, FeatureInv, FeatureTypeOK
<1> DEFINE j == [jobs[r] EXCEPT !.kind = "acquisition", !.status = "running",
                    !.page = page, !.pitch = pitch, !.cutoff = ticks + 1]
<1>2. j \in JobRecords /\ j.kind # "none" /\ j.status = "running"
  <2>1. jobs[r] \in JobRecords /\ ticks + 1 \in Nat
    BY DEF FeatureInv, FeatureTypeOK
  <2>2. page \in Value /\ pitch \in Value
    BY DEF Value
  <2> QED
    BY <2>1, <2>2 DEF JobRecords
<1>3. jobs' = [jobs EXCEPT ![r] = j]
  BY <1>1
<1>4. ticks' \in Nat /\ UNCHANGED <<history, features, deaths>>
  BY DEF AcquireResponses, featureTables, FeatureInv, FeatureTypeOK
<1> HIDE DEF j
<1> QED
  BY <1>1, <1>2, <1>3, <1>4, TakesUp DEF Places

LEMMA SeasonsOK ==
    ASSUME FeatureInv, NEW w \in Workers, RecordSeasons(w)
    PROVE  FeatureInv'
<1> DEFINE n == [worker[w] EXCEPT !.at = "number"]
<1>1. /\ n \in WorkerRecords /\ n.job = worker[w].job /\ n.at = "number"
      /\ worker' = [worker EXCEPT ![w] = n] /\ worker[w].at # "rest"
  BY DEF RecordSeasons, Steps, Stands, FeatureInv, FeatureTypeOK, WorkerRecords, Places
<1>2. /\ UNCHANGED <<features, jobs, ticks, deaths>> /\ HistoryGrows
      /\ history' \in Seq(Revisions)
  BY DEF RecordSeasons, FeatureInv, FeatureTypeOK, HistoryGrows
<1> QED
  BY <1>1, <1>2, MovesOn

LEMMA NumberOK ==
    ASSUME FeatureInv, NEW w \in Workers, NumberRevision(w)
    PROVE  FeatureInv'
<1> DEFINE n == [worker[w] EXCEPT !.at = "revise", !.next = Len(history) + 1]
<1>1. /\ n \in WorkerRecords /\ n.job = worker[w].job /\ n.at = "revise"
      /\ worker' = [worker EXCEPT ![w] = n] /\ worker[w].at # "rest"
  <2>1. worker[w] \in WorkerRecords /\ Len(history) + 1 \in Nat
    BY DEF FeatureInv, FeatureTypeOK
  <2> QED
    BY <2>1 DEF NumberRevision, Stands, WorkerRecords, Places
<1>2. /\ UNCHANGED <<features, jobs, ticks, deaths>> /\ HistoryGrows
      /\ history' \in Seq(Revisions)
  BY DEF NumberRevision, featureTables, FeatureInv, FeatureTypeOK, HistoryGrows
<1> QED
  BY <1>1, <1>2, MovesOn

LEMMA RevisionOK ==
    ASSUME FeatureInv, NEW w \in Workers, RecordRevision(w)
    PROVE  FeatureInv'
<1> DEFINE r == JobOf(w)
           new == [pitch |-> MyJob(w).pitch, at |-> MyJob(w).cutoff]
<1>1. worker[w].at = "revise" /\ r \in 1..MaxJobs /\ jobs[r].kind # "none"
  BY DEF RecordRevision, Stands, FeatureInv, WorkerOK, JobOf
<1>2. CASE /\ history' \in {history, Append(history, new)}
           /\ jobs' = [jobs EXCEPT ![r].collected = TRUE] /\ Steps(w, "load")
  <2>1. new \in Revisions
    <3>1. jobs[r] \in JobRecords
      BY <1>1 DEF FeatureInv, FeatureTypeOK
    <3> QED
      BY <3>1 DEF JobRecords, Revisions, MyJob
  <2>2. HistoryGrows /\ history' \in Seq(Revisions)
    <3>1. history \in Seq(Revisions)
      BY DEF FeatureInv, FeatureTypeOK
    <3> HIDE DEF new
    <3>2. CASE history' = history
      BY <3>1, <3>2 DEF HistoryGrows
    <3>3. CASE history' = Append(history, new)
      BY <3>1, <3>3, <2>1 DEF HistoryGrows
    <3> QED
      BY <1>2, <3>2, <3>3
  <2>3. /\ worker' \in [Workers -> WorkerRecords]
        /\ \A v \in Workers \ {w} : worker'[v] = worker[v]
        /\ worker'[w].at = "load" /\ worker'[w].job = r
    BY <1>2 DEF Steps, FeatureInv, FeatureTypeOK, WorkerRecords, Places, JobOf
  <2>4. /\ jobs' \in [1..MaxJobs -> JobRecords]
        /\ JobsKept /\ CompletesWithRow /\ UnusedOK'
    BY ZenonT(40), <1>1, <1>2 DEF FeatureInv, FeatureTypeOK, JobRecords, JobsKept, CompletesWithRow,
                      UnusedOK, CompletedOK
  <2>5. WorkerOK(w)'
    BY <1>1, <2>3, <2>4 DEF WorkerOK, JobsKept
  <2>6. UNCHANGED <<features, ticks, deaths>>
    BY DEF RecordRevision
  <2>7. FeatureTypeOK'
    BY <2>2, <2>3, <2>4, <2>6 DEF FeatureInv, FeatureTypeOK
  <2> QED
    BY <2>2, <2>3, <2>4, <2>5, <2>6, <2>7, QuietStep
<1>3. CASE UNCHANGED history /\ FailsJob(w)
  <2>1. UNCHANGED <<features, ticks, deaths>>
    BY DEF RecordRevision
  <2> QED
    BY <1>1, <1>3, <2>1, FailsOK
<1> QED
  BY <1>2, <1>3 DEF RecordRevision

\* What was known by the cutoff of a run: a finite set of numbers has a largest.
LEMMA KnownIsKnown ==
    ASSUME FeatureInv, NEW cutoff \in Nat, KnownAt(cutoff) # 0
    PROVE  KnownAt(cutoff) \in 1..Len(history) /\ history[KnownAt(cutoff)].at <= cutoff
<1> DEFINE known == {i \in DOMAIN history : history[i].at <= cutoff}
           below == {k \in Nat : Len(history) - k \in known}
<1>1. Len(history) \in Nat /\ DOMAIN history = 1..Len(history)
  BY DEF FeatureInv, FeatureTypeOK
<1>2. known # {} /\ KnownAt(cutoff) = CHOOSE i \in known : \A j \in known : j <= i
  BY DEF KnownAt
<1>3. \E k \in below : \A l \in below : ~(<<l, k>> \in OpToRel(<, Nat))
  <2>1. below # {}
    <3>1. PICK i \in known : TRUE
      BY <1>2
    <3>2. i \in 1..Len(history)
      BY <1>1, <3>1
    <3>3. Len(history) - i \in Nat /\ Len(history) - (Len(history) - i) = i
      BY <1>1, <3>2
    <3> QED
      BY <3>1, <3>3
  <2>2. below \subseteq Nat
    OBVIOUS
  <2> HIDE DEF below
  <2> QED
    BY <2>1, <2>2, NatLessThanWellFounded, WFMin
<1>4. PICK k \in below : \A l \in below : ~(l < k)
  BY <1>3 DEF OpToRel
<1>5. \E i \in known : \A j \in known : j <= i
  <2>1. Len(history) - k \in known
    BY <1>4
  <2>2. ASSUME NEW j \in known PROVE j <= Len(history) - k
    <3>1. j \in 1..Len(history)
      BY <1>1, <2>2
    <3>2. Len(history) - j \in Nat /\ Len(history) - (Len(history) - j) = j
      BY <1>1, <3>1
    <3>3. Len(history) - j \in below
      BY <2>2, <3>2
    <3>4. k \in Nat /\ ~(Len(history) - j < k)
      BY <1>4, <3>3
    <3> QED
      BY <1>1, <3>1, <3>4
  <2> QED
    BY <2>1, <2>2
<1>6. KnownAt(cutoff) \in known
  BY <1>2, <1>5
<1> QED
  BY <1>1, <1>6

LEMMA LoadOK ==
    ASSUME FeatureInv, NEW w \in Workers, LoadKnown(w)
    PROVE  FeatureInv'
<1> DEFINE r == JobOf(w)
           known == KnownAt(MyJob(w).cutoff)
<1>1. worker[w].at = "load" /\ r \in 1..MaxJobs /\ jobs[r].kind # "none"
  BY DEF LoadKnown, Stands, FeatureInv, WorkerOK, JobOf
<1>2. UNCHANGED <<history, features, ticks, deaths>>
  BY DEF LoadKnown, featureTables
<1>3. CASE FailsJob(w)
  BY <1>1, <1>2, <1>3, FailsOK
<1>4. CASE /\ worker' = [worker EXCEPT ![w].known = known,
                  ![w].at = IF MyJob(w).kind = "derived" THEN "count" ELSE "record"]
           /\ UNCHANGED jobs
  <2>1. jobs[r] \in JobRecords /\ MyJob(w) = jobs[r]
    BY <1>1 DEF FeatureInv, FeatureTypeOK, MyJob
  <2>2. jobs[r].cutoff \in Nat
    BY <2>1 DEF JobRecords
  <2>3. known # 0 => known \in 1..Len(history) /\ history[known].at <= jobs[r].cutoff
    BY <2>1, <2>2, KnownIsKnown
  <2>4. known \in Nat
    BY <2>3 DEF FeatureInv, FeatureTypeOK
  <2> HIDE DEF known
  <2>5. /\ worker' \in [Workers -> WorkerRecords]
        /\ \A v \in Workers \ {w} : worker'[v] = worker[v]
        /\ worker'[w].at \in {"count", "record"} /\ worker'[w].job = r
        /\ worker'[w].known = known
    BY <1>4, <2>4 DEF FeatureInv, FeatureTypeOK, WorkerRecords, Places, JobOf
  <2>6. WorkerOK(w)'
    BY <1>1, <1>2, <1>4, <2>3, <2>5 DEF WorkerOK
  <2>7. HistoryGrows /\ JobsKept /\ CompletesWithRow /\ UnusedOK' /\ FeatureTypeOK'
    BY <1>2, <1>4, <2>5 DEF FeatureInv, FeatureTypeOK, HistoryGrows, JobsKept,
                            CompletesWithRow, UnusedOK, CompletedOK
  <2> QED
    BY <1>2, <2>5, <2>6, <2>7, QuietStep
<1> QED
  BY <1>3, <1>4 DEF LoadKnown

LEMMA EndOK ==
    ASSUME FeatureInv, NEW w \in Workers, EndJob(w)
    PROVE  FeatureInv'
<1> DEFINE r == JobOf(w)
<1>1. /\ worker[w].at = "end" /\ r \in 1..MaxJobs /\ jobs[r].kind # "none"
      /\ HasRow(r)
  BY DEF EndJob, Stands, FeatureInv, WorkerOK, JobOf
<1>2. UNCHANGED <<history, features, ticks, deaths>> /\ Rests(w)
  BY DEF EndJob, featureTables
<1>3. /\ WorkerOK(w)' /\ \A v \in Workers \ {w} : worker'[v] = worker[v]
      /\ worker' \in [Workers -> WorkerRecords]
  BY <1>2 DEF FeatureInv, FeatureTypeOK, WorkerOK, Rests, Resting, WorkerRecords, Places,
              Nothing
<1>4. /\ jobs' \in [1..MaxJobs -> JobRecords]
      /\ JobsKept /\ CompletesWithRow /\ UnusedOK'
  BY <1>1 DEF EndJob, FeatureInv, FeatureTypeOK, JobRecords, JobsKept, CompletesWithRow,
              UnusedOK, CompletedOK
<1>5. FeatureTypeOK' /\ HistoryGrows
  BY <1>2, <1>3, <1>4 DEF FeatureInv, FeatureTypeOK, HistoryGrows
<1> QED
  BY <1>2, <1>3, <1>4, <1>5, QuietStep

LEMMA BeginOK ==
    ASSUME FeatureInv, NEW w \in Workers, BeginMaterialization(w)
    PROVE  FeatureInv'
<1>1. PICK r \in 1..MaxJobs, s \in 1..MaxJobs :
          /\ FreshJob(r)
          /\ jobs' = [jobs EXCEPT ![r] = [jobs[s] EXCEPT !.kind = "derived",
                         !.status = "running", !.source = s]]
          /\ worker' = [worker EXCEPT ![w] = [Resting EXCEPT !.at = "aggregates", !.job = r]]
  BY DEF BeginMaterialization, FeatureInv, FeatureTypeOK
<1> DEFINE j == [jobs[s] EXCEPT !.kind = "derived", !.status = "running", !.source = s]
<1>2. j \in JobRecords /\ j.kind # "none" /\ j.status = "running"
  <2>1. jobs[s] \in JobRecords /\ s \in Nat
    BY FeatureAssumption DEF FeatureInv, FeatureTypeOK
  <2> QED
    BY <2>1 DEF JobRecords
<1>3. jobs' = [jobs EXCEPT ![r] = j]
  BY <1>1
<1>4. ticks' \in Nat /\ UNCHANGED <<history, features, deaths>>
  BY DEF BeginMaterialization, featureTables, FeatureInv, FeatureTypeOK
<1> HIDE DEF j
<1> QED
  BY <1>1, <1>2, <1>3, <1>4, TakesUp DEF Places

LEMMA AggregatesOK ==
    ASSUME FeatureInv, NEW w \in Workers, ReadAggregates(w)
    PROVE  FeatureInv'
<1>1. worker[w].at # "rest" /\ UNCHANGED <<history, features, ticks, deaths>>
  BY DEF ReadAggregates, Stands, featureTables
<1>2. CASE Steps(w, "load") /\ UNCHANGED jobs
  <2> DEFINE n == [worker[w] EXCEPT !.at = "load"]
  <2>1. /\ n \in WorkerRecords /\ n.job = worker[w].job /\ n.at = "load"
        /\ worker' = [worker EXCEPT ![w] = n]
    BY <1>2 DEF Steps, FeatureInv, FeatureTypeOK, WorkerRecords, Places
  <2>2. HistoryGrows /\ history' \in Seq(Revisions)
    BY <1>1 DEF FeatureInv, FeatureTypeOK, HistoryGrows
  <2> QED
    BY <1>1, <1>2, <2>1, <2>2, MovesOn
<1>3. CASE FailsJob(w)
  BY <1>1, <1>3, FailsOK
<1> QED
  BY <1>2, <1>3 DEF ReadAggregates

\* A step that reads nothing new and keeps what was read.
LEMMA CountOK ==
    ASSUME FeatureInv, NEW w \in Workers, CountRevisions(w)
    PROVE  FeatureInv'
<1>1. /\ worker[w] \in WorkerRecords /\ Len(history) \in Nat
      /\ worker[w].at = "count" /\ WorkerOK(w)
      /\ UNCHANGED <<history, features, jobs, ticks, deaths>>
  BY DEF CountRevisions, Stands, featureTables, FeatureInv, FeatureTypeOK
<1>2. /\ worker' \in [Workers -> WorkerRecords]
      /\ \A v \in Workers \ {w} : worker'[v] = worker[v]
      /\ worker'[w].at = "record" /\ worker'[w].job = worker[w].job
      /\ worker'[w].known = worker[w].known
  BY <1>1 DEF CountRevisions, FeatureInv, FeatureTypeOK, WorkerRecords, Places
<1>3. WorkerOK(w)'
  BY <1>1, <1>2 DEF WorkerOK
<1>4. HistoryGrows /\ JobsKept /\ CompletesWithRow /\ UnusedOK' /\ FeatureTypeOK'
  BY <1>1, <1>2 DEF FeatureInv, FeatureTypeOK, HistoryGrows, JobsKept, CompletesWithRow,
                    UnusedOK, CompletedOK
<1> QED
  BY <1>1, <1>2, <1>3, <1>4, QuietStep

LEMMA RecountOK ==
    ASSUME FeatureInv, NEW w \in Workers, RecountRevisions(w)
    PROVE  FeatureInv'
<1>1. /\ worker[w].at = "recount" /\ WorkerOK(w)
      /\ UNCHANGED <<history, features, ticks, deaths>>
  BY DEF RecountRevisions, Stands, featureTables, FeatureInv
<1>2. CASE Steps(w, "end") /\ UNCHANGED jobs
  <2>1. /\ worker' \in [Workers -> WorkerRecords]
        /\ \A v \in Workers \ {w} : worker'[v] = worker[v]
        /\ worker'[w].at = "end" /\ worker'[w].job = worker[w].job
    BY <1>2 DEF Steps, FeatureInv, FeatureTypeOK, WorkerRecords, Places
  <2>2. WorkerOK(w)'
    BY <1>1, <1>2, <2>1 DEF WorkerOK, HasRow
  <2>3. HistoryGrows /\ JobsKept /\ CompletesWithRow /\ UnusedOK' /\ FeatureTypeOK'
    BY <1>1, <1>2, <2>1 DEF FeatureInv, FeatureTypeOK, HistoryGrows, JobsKept,
                            CompletesWithRow, UnusedOK, CompletedOK
  <2> QED
    BY <1>1, <2>1, <2>2, <2>3, QuietStep
<1>3. CASE FailsJob(w)
  BY <1>1, <1>3, FailsOK
<1> QED
  BY <1>2, <1>3 DEF RecountRevisions

LEMMA DiesOK ==
    ASSUME FeatureInv, NEW w \in Workers, DiesAtWork(w)
    PROVE  FeatureInv'
BY Rested DEF DiesAtWork, featureTables, FeatureInv, FeatureTypeOK

LEMMA ResumeOK ==
    ASSUME FeatureInv, NEW w \in Workers, ResumeAcquisition(w)
    PROVE  FeatureInv'
<1>1. PICK r \in 1..MaxJobs :
          /\ jobs[r].kind = "acquisition"
          /\ worker' = [worker EXCEPT ![w] = [Resting EXCEPT !.at = "load", !.job = r]]
  BY DEF ResumeAcquisition, FeatureInv, FeatureTypeOK
<1>2. /\ ticks' \in Nat /\ UNCHANGED <<history, features, deaths, jobs>>
      /\ jobs[r] \in JobRecords
  BY DEF ResumeAcquisition, featureTables, FeatureInv, FeatureTypeOK
<1> QED
  BY <1>1, <1>2, TakesUp DEF Places

-----------------------------------------------------------------------------
(* The row that is recorded.                                               *)

\* The row of a run, of a revision that its process knows.
LEMMA RowOfRun ==
    ASSUME FeatureInv, NEW r \in 1..MaxJobs, NEW known \in Nat,
           known # 0 => known \in 1..Len(history) /\ history[known].at <= jobs[r].cutoff
    PROVE  /\ FeatureRow(r, known) \in FeatureRecords
           /\ RowOK(FeatureRow(r, known))
           /\ FeatureRow(r, known).payload.cutoff = jobs[r].cutoff
           /\ FeatureRow(r, known).sources[1] = jobs[r].page
           /\ FeatureRow(r, known).sources[2] = jobs[r].pitch
<1>1. /\ jobs[r].page \in Value /\ jobs[r].pitch \in Value /\ jobs[r].cutoff \in Nat
      /\ r \in Nat
  <2>1. jobs[r] \in JobRecords /\ r \in Nat
    BY FeatureAssumption DEF FeatureInv, FeatureTypeOK
  <2> QED
    BY <2>1 DEF JobRecords
<1>2. known # 0 => history[known].pitch \in Value
  <2>1. \A i \in 1..Len(history) : history[i] \in Revisions
    BY DEF FeatureInv, FeatureTypeOK
  <2> QED
    BY <2>1 DEF Revisions
<1>3. KnownBy(known, jobs[r].cutoff) <=> known # 0
  BY DEF KnownBy
<1> DEFINE pitch == IF known = 0 THEN Nothing ELSE history[known].pitch
           payload == [page |-> jobs[r].page, cutoff |-> jobs[r].cutoff, revision |-> known]
           row == [sources |-> <<jobs[r].page, jobs[r].pitch, pitch>>,
                   payload |-> payload, by |-> r]
<1>4. FeatureRow(r, known) = row
  <2>1. Payload(jobs[r].page, known, jobs[r].cutoff) = payload
    BY <1>3 DEF Payload
  <2> QED
    BY <2>1 DEF FeatureRow
<1>5. pitch \in Value
  BY <1>2 DEF Value
<1>6. row \in FeatureRecords
  BY <1>1, <1>5 DEF FeatureRecords
<1>7. RowOK(row)
  BY DEF RowOK
<1> QED
  BY <1>4, <1>6, <1>7

LEMMA RecordOK ==
    ASSUME FeatureInv, NEW w \in Workers, RecordFeatures(w)
    PROVE  FeatureInv'
<1> PICK r : r = JobOf(w)
  OBVIOUS
<1> DEFINE row == FeatureRow(r, worker[w].known)
           place == IF MyJob(w).kind = "derived" THEN "recount" ELSE "end"
<1>1. /\ worker[w].at = "record" /\ r \in 1..MaxJobs /\ jobs[r].kind # "none"
      /\ worker[w].known # 0 => /\ worker[w].known \in 1..Len(history)
                                /\ history[worker[w].known].at <= jobs[r].cutoff
      /\ worker[w].known \in Nat
  BY DEF RecordFeatures, Stands, FeatureInv, FeatureTypeOK, WorkerRecords, WorkerOK, JobOf
<1>2. /\ row \in FeatureRecords /\ RowOK(row) /\ row.payload.cutoff = jobs[r].cutoff
      /\ row.sources[1] = jobs[r].page /\ row.sources[2] = jobs[r].pitch
  BY <1>1, RowOfRun
<1> HIDE DEF row
<1>3. UNCHANGED <<history, ticks, deaths>>
  BY DEF RecordFeatures
<1>4. CASE /\ Agrees(row)
           /\ features' = IF SameSources(row) # {} THEN features ELSE features \cup {row}
           /\ Steps(w, place) /\ UNCHANGED jobs
  <2>1. features \subseteq features' /\ features' \subseteq features \cup {row}
    BY <1>4
  <2>2. RowsOK'
    <3>1. ASSUME NEW f, RowOK(f) PROVE RowOK(f)'
      BY <1>3, <3>1 DEF RowOK
    <3> QED
      BY <1>2, <2>1, <3>1 DEF RowsOK, FeatureInv
  <2>3. OneRowEach'
    BY <1>4 DEF OneRowEach, SameSources, FeatureInv
  <2>4. \E f \in features' : f.sources = row.sources /\ f.payload = row.payload
    BY <1>4 DEF SameSources, Agrees
  <2>5. HasRow(r)'
    <3>1. PICK f \in features' : f.sources = row.sources /\ f.payload = row.payload
      BY <2>4
    <3>2. jobs'[r] = jobs[r]
      BY <1>4
    <3>3. /\ f.payload.cutoff = jobs'[r].cutoff
          /\ f.sources[1] = jobs'[r].page /\ f.sources[2] = jobs'[r].pitch
      BY <1>2, <3>1, <3>2
    <3> QED
      BY <3>1, <3>3 DEF HasRow
  <2>6. CompletedOK' /\ UnusedOK'
    BY <1>4, <2>1 DEF CompletedOK, UnusedOK, HasRow, FeatureInv
  <2>7. /\ worker' \in [Workers -> WorkerRecords]
        /\ \A v \in Workers \ {w} : worker'[v] = worker[v]
        /\ worker'[w].at \in {"recount", "end"} /\ worker'[w].job = r
    BY <1>4 DEF Steps, FeatureInv, FeatureTypeOK, WorkerRecords, Places, JobOf
  <2>8. FeatureTypeOK'
    BY <1>2, <1>3, <1>4, <2>1, <2>7 DEF FeatureInv, FeatureTypeOK
  <2>9. WorkerOK(w)'
    <3>1. worker'[w].job \in 1..MaxJobs /\ jobs'[worker'[w].job].kind # "none"
      BY <1>1, <1>4, <2>7
    <3>2. HasRow(worker[w].job)'
      BY <2>5, <2>7
    <3> QED
      BY <2>7, <3>1, <3>2 DEF WorkerOK
  <2>10. ASSUME NEW v \in Workers PROVE WorkerOK(v)'
    <3>1. CASE v = w
      BY <2>9, <3>1
    <3>2. CASE v # w
      <4>1. HistoryGrows /\ JobsKept
        BY <1>3, <1>4 DEF HistoryGrows, JobsKept, FeatureInv, FeatureTypeOK
      <4> QED
        BY <2>1, <2>7, <3>2, <4>1, OthersStay
    <3> QED
      BY <3>1, <3>2
  <2> QED
    BY <2>2, <2>3, <2>6, <2>8, <2>10 DEF FeatureInv
<1>5. CASE FailsJob(w) /\ UNCHANGED features
  BY <1>1, <1>3, <1>5, FailsOK
<1> QED
  BY <1>4, <1>5 DEF RecordFeatures, row

-----------------------------------------------------------------------------
LEMMA NextOK ==
    ASSUME FeatureInv, [FeatureNext]_featureVars
    PROVE  FeatureInv'
<1>1. CASE UNCHANGED featureVars
  BY <1>1, StutterOK
<1>2. CASE FeatureNext
  <2>1. PICK w \in Workers :
          \/ AcquireResponses(w) \/ RecordSeasons(w) \/ NumberRevision(w)
          \/ RecordRevision(w) \/ LoadKnown(w) \/ RecordFeatures(w) \/ EndJob(w)
          \/ BeginMaterialization(w) \/ ReadAggregates(w)
          \/ CountRevisions(w) \/ RecountRevisions(w)
          \/ DiesAtWork(w) \/ ResumeAcquisition(w)
    BY <1>2 DEF FeatureNext
  <2> QED
    BY <2>1, AcquireOK, SeasonsOK, NumberOK, RevisionOK, LoadOK, RecordOK, EndOK,
       BeginOK, AggregatesOK, CountOK, RecountOK, DiesOK, ResumeOK
<1> QED
  BY <1>1, <1>2

LEMMA InvImplies == FeatureInv => FeaturesStandOnEvidence
<1> SUFFICES ASSUME FeatureInv PROVE FeaturesStandOnEvidence
  OBVIOUS
<1>1. ASSUME NEW f \in features
      PROVE  /\ f.payload.page = f.sources[1]
             /\ SameSources(f) = {f}
             /\ IF f.payload.revision = 0 THEN f.sources[3] = Nothing
                ELSE /\ history[f.payload.revision].at <= f.payload.cutoff
                     /\ history[f.payload.revision].pitch = f.sources[3]
  <2>1. RowOK(f)
    BY DEF FeatureInv, RowsOK
  <2>2. SameSources(f) = {f}
    BY DEF FeatureInv, OneRowEach, SameSources
  <2> QED
    BY <2>1, <2>2 DEF RowOK
<1>2. ASSUME NEW r \in DOMAIN jobs, jobs[r].status = "completed"
      PROVE  HasRow(r)
  BY <1>2 DEF FeatureInv, FeatureTypeOK, CompletedOK
<1> QED
  BY <1>1, <1>2 DEF FeaturesStandOnEvidence, HasRow

\* Whatever order runs persist in what they retrieved, features stand on the
\* evidence their checksum names, and a completed run has its row.
THEOREM EvidenceStands == FeatureSpec => []FeaturesStandOnEvidence
<1>1. FeatureSpec => []FeatureInv
  BY InitOK, NextOK, PTL DEF FeatureSpec
<1> QED
  BY <1>1, InvImplies, PTL
===============================================================================
