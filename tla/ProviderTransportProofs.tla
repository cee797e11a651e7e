----------------------- MODULE ProviderTransportProofs -----------------------
(***************************************************************************)
(* The safety of the statistics transport for any number of processes,     *)
(* requests, attempts and captures and any interval; and, for any number   *)
(* of games and of books, what the rules that match games and choose a     *)
(* market's line promise about them.                                       *)
(***************************************************************************)
EXTENDS ProviderTransport, GameReconciliation, OddsConsensus, FiniteSetTheorems,
        WellFoundedInduction, TLAPS

TransportTypeOK ==
  /\ capture \in Seq(Capture)
  /\ cache \in [Pages -> Nat]
  /\ since \in 0 .. Interval
  /\ lock \in [Providers -> Procs \cup {NoProc}]
  /\ job \in [Procs -> Job]

\* From taking the slot to writing the metadata a fetch holds its provider's
\* lock, and a Baseball-Reference fetch sleeps at least as long as is missing.
SlotOK(p) ==
  /\ job[p].at # "idle" => job[p].request \in Requests
  /\ job[p].at \in {"lookup", "index", "link"} => job[p].request \in Pages
  /\ job[p].at \in {"wait", "get", "metadata"} => lock[Provider(job[p].request)] = p
  /\ job[p].at = "wait" /\ job[p].request \in Pages => job[p].left + since >= Interval
  /\ job[p].at = "backoff" => job[p].attempt < MaxAttempts

\* The capture a fetch refers to is its own, and it is judged step by step.
CaptureOK(p) ==
  /\ job[p].at \in {"metadata", "check", "parse", "index", "link"} =>
       /\ job[p].last \in 1 .. Len(capture)
       /\ capture[job[p].last].request = job[p].request
       /\ capture[job[p].last].whole <=> job[p].at # "metadata"
  /\ job[p].at \in {"parse", "index", "link"} => capture[job[p].last].status = "success"
  /\ job[p].at \in {"index", "link"} => capture[job[p].last].valid

IInv == /\ TransportTypeOK
        /\ \A p \in Procs : SlotOK(p) /\ CaptureOK(p)
        /\ CacheIsBacked

-----------------------------------------------------------------------------
(* Frame lemmas: what a step of one process leaves to the others.           *)

Publishing == {"metadata", "check", "parse", "index", "link"}

\* What q stands on is left alone.
Undisturbed(q) ==
  /\ job'[q] = job[q]
  /\ job[q].at \in {"wait", "get", "metadata"} =>
       lock'[Provider(job[q].request)] = lock[Provider(job[q].request)]
  /\ job[q].at = "wait" /\ job[q].request \in Pages => since' = since
  /\ Len(capture') >= Len(capture)
  /\ job[q].at \in Publishing => capture'[job[q].last] = capture[job[q].last]

LEMMA OtherStays ==
  ASSUME IInv, NEW q \in Procs, Undisturbed(q), capture' \in Seq(Capture)
  PROVE  SlotOK(q)' /\ CaptureOK(q)'
<1>1. SlotOK(q) /\ CaptureOK(q)
  BY DEF IInv
<1>2. SlotOK(q)'
  BY <1>1 DEF SlotOK, Undisturbed
<1>3. Len(capture) \in Nat /\ Len(capture') \in Nat
  BY DEF IInv, TransportTypeOK
<1>4. CaptureOK(q)'
  BY <1>1, <1>3 DEF CaptureOK, Undisturbed, Publishing
<1> QED
  BY <1>2, <1>4

\* A step of p that touches neither captures, nor the cache, nor the clock.
Quiet(p) ==
  /\ UNCHANGED <<capture, cache, since>>
  /\ job' \in [Procs -> Job]
  /\ \A q \in Procs \ {p} : job'[q] = job[q]
  /\ UNCHANGED lock \/ Release(p)

LEMMA LockType ==
  ASSUME IInv, NEW p \in Procs, UNCHANGED lock \/ Release(p)
  PROVE  /\ lock' \in [Providers -> Procs \cup {NoProc}]
         /\ \A v \in Providers : lock[v] # p => lock'[v] = lock[v]
  BY DEF IInv, TransportTypeOK, Release

LEMMA QuietStep ==
  ASSUME IInv, NEW p \in Procs, Quiet(p), SlotOK(p)', CaptureOK(p)'
  PROVE  IInv'
<1>1. TransportTypeOK'
  BY LockType DEF IInv, TransportTypeOK, Quiet
<1>2. ASSUME NEW q \in Procs \ {p} PROVE SlotOK(q)' /\ CaptureOK(q)'
  <2>1. job[q].at \in {"wait", "get", "metadata"} => lock[Provider(job[q].request)] = q
    BY DEF IInv, SlotOK
  <2>2. Provider(job[q].request) \in Providers
    BY DEF Provider, Providers
  <2>3. Undisturbed(q)
    BY <2>1, <2>2, LockType DEF Undisturbed, Quiet, IInv, TransportTypeOK
  <2> QED
    BY <2>3, OtherStays DEF Quiet, IInv, TransportTypeOK
<1>3. CacheIsBacked'
  BY DEF IInv, Quiet, CacheIsBacked, Usable, Captures
<1> QED
  BY <1>1, <1>2, <1>3 DEF IInv

LEMMA IdleIsJob == Idle \in Job
  BY TransportAssumption DEF Idle, Job, Place

\* A fetch that ends stands on nothing.
LEMMA RaiseOK ==
  ASSUME IInv, NEW p \in Procs, Raise(p), UNCHANGED <<capture, cache, since>>,
         UNCHANGED lock \/ Release(p)
  PROVE  IInv'
<1>1. job'[p] = Idle /\ Quiet(p)
  BY IdleIsJob DEF Raise, Quiet, IInv, TransportTypeOK
<1>2. SlotOK(p)' /\ CaptureOK(p)'
  BY <1>1 DEF SlotOK, CaptureOK, Idle
<1> QED
  BY <1>1, <1>2, QuietStep

LEMMA GotoFacts ==
  ASSUME IInv, NEW p \in Procs, NEW place \in Place, Goto(p, place)
  PROVE  /\ job' \in [Procs -> Job]
         /\ \A q \in Procs \ {p} : job'[q] = job[q]
         /\ job'[p].at = place /\ job'[p].request = job[p].request
         /\ job'[p].left = job[p].left /\ job'[p].last = job[p].last
         /\ job'[p].attempt = job[p].attempt
<1>1. job \in [Procs -> Job] /\ job[p] \in Job
  BY DEF IInv, TransportTypeOK
<1>2. [job[p] EXCEPT !.at = place] \in Job
  BY <1>1 DEF Job
<1> QED
  BY <1>1, <1>2 DEF Goto, Job

LEMMA InitOK == Init => IInv
<1> SUFFICES ASSUME Init PROVE IInv
  OBVIOUS
<1>1. TransportTypeOK
  BY IdleIsJob, TransportAssumption DEF Init, TransportTypeOK
<1>2. \A p \in Procs : SlotOK(p) /\ CaptureOK(p)
  BY DEF Init, SlotOK, CaptureOK, Idle
<1>3. CacheIsBacked
  BY DEF Init, CacheIsBacked
<1> QED
  BY <1>1, <1>2, <1>3 DEF IInv

-----------------------------------------------------------------------------
(* The steps of a fetch.                                                    *)

LEMMA BeginOK ==
  ASSUME IInv, NEW p \in Procs, NEW q \in Requests, Begin(p, q)
  PROVE  IInv'
<1>1. PICK place \in {"lookup", "slot"} :
        /\ place = "lookup" => q \in Pages
        /\ job' = [job EXCEPT ![p] = [Idle EXCEPT !.at = place, !.request = q, !.attempt = 1]]
  <2>1. CASE q \in Pages
    BY <2>1 DEF Begin
  <2>2. CASE q \notin Pages
    BY <2>2 DEF Begin
  <2> QED
    BY <2>1, <2>2
<1> DEFINE j == [Idle EXCEPT !.at = place, !.request = q, !.attempt = 1]
<1>2. j \in Job /\ j.at = place /\ j.request = q
  <2>1. place \in Place /\ 1 \in 0 .. MaxAttempts
    BY TransportAssumption DEF Place
  <2> QED
    BY <2>1, IdleIsJob DEF Job
<1>3. job' = [job EXCEPT ![p] = j] /\ UNCHANGED <<capture, cache, since, lock>>
  BY <1>1 DEF Begin
<1> HIDE DEF j
<1>4. Quiet(p) /\ job'[p] = j
  BY <1>2, <1>3 DEF Quiet, IInv, TransportTypeOK
<1>5. SlotOK(p)' /\ CaptureOK(p)'
  BY <1>1, <1>2, <1>4 DEF SlotOK, CaptureOK
<1> QED
  BY <1>4, <1>5, QuietStep

LEMMA MissOK ==
  ASSUME IInv, NEW p \in Procs, Miss(p) \/ CheckRetry(p)
  PROVE  IInv'
<1>1. /\ job[p].at \in {"lookup", "check"}
      /\ UNCHANGED <<capture, cache, since, lock>>
      /\ Goto(p, "slot") \/ (Goto(p, "backoff") /\ job[p].attempt < MaxAttempts)
  BY DEF Miss, CheckRetry, At
<1>2. /\ job' \in [Procs -> Job]
      /\ \A q \in Procs \ {p} : job'[q] = job[q]
      /\ job'[p].at \in {"slot", "backoff"} /\ job'[p].request = job[p].request
      /\ job'[p].at = "backoff" => job'[p].attempt < MaxAttempts
  BY <1>1, GotoFacts DEF Place
<1>3. SlotOK(p)' /\ CaptureOK(p)'
  BY <1>1, <1>2 DEF IInv, SlotOK, CaptureOK
<1> QED
  BY <1>1, <1>2, <1>3, QuietStep DEF Quiet

LEMMA CheckSuccessOK ==
  ASSUME IInv, NEW p \in Procs, CheckSuccess(p) \/ IndexMissing(p)
  PROVE  IInv'
<1>1. \/ /\ job[p].at = "check" /\ capture[job[p].last].status = "success"
         /\ Goto(p, "parse")
      \/ job[p].at = "index" /\ Goto(p, "link")
  BY DEF CheckSuccess, IndexMissing, At
<1>2. UNCHANGED <<capture, cache, since, lock>>
  BY DEF CheckSuccess, IndexMissing
<1>3. /\ job' \in [Procs -> Job]
      /\ \A q \in Procs \ {p} : job'[q] = job[q]
      /\ \/ job[p].at = "check" /\ capture[job[p].last].status = "success"
            /\ job'[p].at = "parse"
         \/ job[p].at = "index" /\ job'[p].at = "link"
      /\ job'[p].request = job[p].request /\ job'[p].last = job[p].last
  BY <1>1, GotoFacts DEF Place
<1>4. SlotOK(p)' /\ CaptureOK(p)'
  BY <1>2, <1>3 DEF IInv, SlotOK, CaptureOK
<1> QED
  BY <1>2, <1>3, <1>4, QuietStep DEF Quiet

LEMMA ParseOK ==
  ASSUME IInv, NEW p \in Procs, Parse(p)
  PROVE  IInv'
<1>1. job[p].at = "parse" /\ UNCHANGED <<capture, cache, since, lock>>
  BY DEF Parse, At
<1>2. CASE Raise(p)
  BY <1>1, <1>2, RaiseOK
<1>3. CASE job[p].request \in Pages /\ capture[job[p].last].valid /\ Goto(p, "index")
  <2>1. /\ job' \in [Procs -> Job]
        /\ \A q \in Procs \ {p} : job'[q] = job[q]
        /\ job'[p].at = "index"
        /\ job'[p].request = job[p].request /\ job'[p].last = job[p].last
    BY <1>3, GotoFacts DEF Place
  <2>2. SlotOK(p)' /\ CaptureOK(p)'
    BY <1>1, <1>3, <2>1 DEF IInv, SlotOK, CaptureOK
  <2> QED
    BY <1>1, <2>1, <2>2, QuietStep DEF Quiet
<1> QED
  BY <1>2, <1>3 DEF Parse

LEMMA EndsOK ==
  ASSUME IInv, NEW p \in Procs,
         Hit(p) \/ CheckRaises(p) \/ IndexExists(p) \/ RetainFails(p) \/ Crash(p)
  PROVE  IInv'
<1>1. Raise(p) /\ UNCHANGED <<capture, cache, since>> /\ (UNCHANGED lock \/ Release(p))
  BY DEF Hit, CheckRaises, IndexExists, RetainFails, Crash, Raise
<1> QED
  BY <1>1, RaiseOK

\* The next attempt asks for the slot again.
LEMMA SlotAgain ==
  ASSUME IInv, NEW p \in Procs, UNCHANGED <<capture, cache, since>>,
         UNCHANGED lock \/ Release(p), job[p].at # "idle", NEW j \in Job,
         j.at = "slot", j.request = job[p].request, job' = [job EXCEPT ![p] = j]
  PROVE  IInv'
<1>1. Quiet(p) /\ job'[p] = j
  BY DEF Quiet, IInv, TransportTypeOK
<1>2. SlotOK(p)' /\ CaptureOK(p)'
  BY <1>1 DEF IInv, SlotOK, CaptureOK
<1> QED
  BY <1>1, <1>2, QuietStep

LEMMA UnansweredOK ==
  ASSUME IInv, NEW p \in Procs, Unanswered(p)
  PROVE  IInv'
<1> DEFINE j == [job[p] EXCEPT !.at = "slot", !.attempt = @ + 1]
<1>1. job[p].at = "get" /\ Release(p) /\ UNCHANGED <<capture, cache, since>>
  BY DEF Unanswered, At
<1>2. CASE Raise(p)
  BY <1>1, <1>2, RaiseOK
<1>3. CASE job[p].attempt < MaxAttempts /\ job' = [job EXCEPT ![p] = j]
  <2>1. job[p] \in Job /\ job[p].attempt \in 0 .. MaxAttempts
    BY DEF IInv, TransportTypeOK, Job
  <2>2. job[p].attempt + 1 \in 0 .. MaxAttempts
    BY <1>3, <2>1, TransportAssumption
  <2>3. j \in Job /\ j.at = "slot" /\ j.request = job[p].request
    BY <2>1, <2>2 DEF Job, Place
  <2> HIDE DEF j
  <2> QED
    BY <1>1, <1>3, <2>3, SlotAgain
<1> QED
  BY <1>2, <1>3 DEF Unanswered

LEMMA BackoffOK ==
  ASSUME IInv, NEW p \in Procs, Backoff(p)
  PROVE  IInv'
<1> DEFINE j == [job[p] EXCEPT !.at = "slot", !.attempt = @ + 1, !.last = 0]
<1>1. /\ job[p].at = "backoff" /\ UNCHANGED <<capture, cache, since, lock>>
      /\ job' = [job EXCEPT ![p] = j]
  BY DEF Backoff, At
<1>2. /\ job[p] \in Job /\ job[p].attempt \in 0 .. MaxAttempts
      /\ job[p].attempt < MaxAttempts
  BY <1>1 DEF IInv, TransportTypeOK, SlotOK, Job
<1>3. job[p].attempt + 1 \in 0 .. MaxAttempts /\ 0 \in 0 .. MaxCaptures
  BY <1>2, TransportAssumption
<1>4. j \in Job /\ j.at = "slot" /\ j.request = job[p].request
  BY <1>2, <1>3 DEF Job, Place
<1> HIDE DEF j
<1> QED
  BY <1>1, <1>4, SlotAgain

LEMMA AcquireOK ==
  ASSUME IInv, NEW p \in Procs, Acquire(p)
  PROVE  IInv'
<1> DEFINE v == Provider(job[p].request)
<1>1. /\ job[p].at = "slot" /\ lock[v] = NoProc
      /\ lock' = [lock EXCEPT ![v] = p]
      /\ UNCHANGED <<capture, cache, since>>
  BY DEF Acquire, At
<1>2. /\ job \in [Procs -> Job] /\ job[p] \in Job /\ since \in 0 .. Interval
      /\ lock \in [Providers -> Procs \cup {NoProc}] /\ v \in Providers
      /\ job[p].request \in Requests
  BY <1>1 DEF IInv, TransportTypeOK, SlotOK, Provider, Providers
<1>3. PICK n \in 0 .. Interval :
        /\ job' = [job EXCEPT ![p].at = "wait", ![p].left = n]
        /\ job[p].request \in Pages => n + since >= Interval
  <2>1. CASE v = "baseball_reference"
    <3>1. Interval - since \in 0 .. Interval /\ (Interval - since) + since >= Interval
      BY <1>2, TransportAssumption
    <3> QED
      BY <2>1, <3>1 DEF Acquire
  <2>2. CASE v # "baseball_reference"
    <3>1. job[p].request \notin Pages /\ 0 \in 0 .. Interval
      BY <2>2, TransportAssumption DEF Provider
    <3> QED
      BY <2>2, <3>1 DEF Acquire
  <2> QED
    BY <2>1, <2>2
<1> DEFINE j == [job[p] EXCEPT !.at = "wait", !.left = n]
<1>4. j \in Job /\ j.at = "wait" /\ j.left = n /\ j.request = job[p].request
  BY <1>2 DEF Job, Place
<1>5. job' = [job EXCEPT ![p] = j]
  BY <1>3
<1> HIDE DEF j, v
<1>6. /\ job' \in [Procs -> Job] /\ job'[p] = j
      /\ \A q \in Procs \ {p} : job'[q] = job[q]
  BY <1>2, <1>4, <1>5
<1>7. lock' \in [Providers -> Procs \cup {NoProc}] /\ lock'[v] = p
  BY <1>1, <1>2
<1>8. TransportTypeOK'
  BY <1>1, <1>6, <1>7 DEF IInv, TransportTypeOK
<1>9. SlotOK(p)' /\ CaptureOK(p)'
  BY <1>1, <1>2, <1>3, <1>4, <1>6, <1>7 DEF SlotOK, CaptureOK, v
<1>10. ASSUME NEW q \in Procs \ {p} PROVE SlotOK(q)' /\ CaptureOK(q)'
  <2>1. job[q].at \in {"wait", "get", "metadata"} => lock[Provider(job[q].request)] = q
    BY DEF IInv, SlotOK
  <2>2. q # NoProc /\ Provider(job[q].request) \in Providers /\ Len(capture) \in Nat
    BY TransportAssumption DEF Provider, Providers, IInv, TransportTypeOK
  <2>3. Undisturbed(q)
    BY <1>1, <1>2, <1>6, <2>1, <2>2 DEF Undisturbed
  <2> QED
    BY <1>1, <2>3, OtherStays DEF IInv, TransportTypeOK
<1>11. CacheIsBacked'
  BY <1>1 DEF IInv, CacheIsBacked, Usable, Captures
<1> QED
  BY <1>8, <1>9, <1>10, <1>11 DEF IInv

LEMMA TickOK ==
  ASSUME IInv, Tick
  PROVE  IInv'
<1>1. /\ since' = IF since < Interval THEN since + 1 ELSE since
      /\ job' = [p \in Procs |-> [job[p] EXCEPT !.left = IF @ > 0 THEN @ - 1 ELSE 0]]
      /\ UNCHANGED <<capture, cache, lock>>
  BY DEF Tick
<1>2. since \in 0 .. Interval /\ job \in [Procs -> Job] /\ Interval \in Nat
  BY TransportAssumption DEF IInv, TransportTypeOK
<1>3. since' \in 0 .. Interval /\ (since' = since + 1 \/ since' = Interval)
  BY <1>1, <1>2
<1>4. ASSUME NEW p \in Procs
      PROVE  /\ job'[p] \in Job
             /\ job'[p].at = job[p].at /\ job'[p].request = job[p].request
             /\ job'[p].last = job[p].last /\ job'[p].attempt = job[p].attempt
             /\ job'[p].left \in Nat /\ job'[p].left + 1 >= job[p].left
  <2> DEFINE n == IF job[p].left > 0 THEN job[p].left - 1 ELSE 0
  <2>1. job[p] \in Job /\ job[p].left \in 0 .. Interval
    BY <1>2 DEF Job
  <2>2. n \in 0 .. Interval /\ n + 1 >= job[p].left
    BY <1>2, <2>1
  <2>3. job'[p] = [job[p] EXCEPT !.left = n]
    BY <1>1
  <2> HIDE DEF n
  <2> QED
    BY <1>2, <2>1, <2>2, <2>3 DEF Job
<1>5. job' \in [Procs -> Job]
  BY <1>1, <1>4
<1>6. TransportTypeOK'
  BY <1>1, <1>3, <1>5 DEF IInv, TransportTypeOK
<1>7. ASSUME NEW p \in Procs PROVE SlotOK(p)' /\ CaptureOK(p)'
  <2>1. SlotOK(p) /\ CaptureOK(p) /\ job[p].left \in Nat
    BY <1>2 DEF IInv, Job
  <2>2. job[p].left + since >= Interval => job'[p].left + since' >= Interval
    BY <1>2, <1>3, <1>4, <2>1
  <2> QED
    BY <1>1, <1>4, <2>1, <2>2 DEF SlotOK, CaptureOK
<1>8. CacheIsBacked'
  BY <1>1 DEF IInv, CacheIsBacked, Usable, Captures
<1> QED
  BY <1>6, <1>7, <1>8 DEF IInv

\* A waiter whose time is over has waited out the interval.
LEMMA StartWaited ==
  ASSUME IInv, NEW p \in Procs, Start(p), job[p].request \in Pages
  PROVE  since = Interval
<1>1. job[p].left = 0 /\ job[p].left + since >= Interval
  BY DEF Start, At, IInv, SlotOK
<1> QED
  BY <1>1, TransportAssumption DEF IInv, TransportTypeOK

LEMMA StartOK ==
  ASSUME IInv, NEW p \in Procs, Start(p)
  PROVE  IInv'
<1>1. /\ job[p].at = "wait" /\ Goto(p, "get")
      /\ since' = IF job[p].request \in Pages THEN 0 ELSE since
      /\ UNCHANGED <<capture, cache, lock>>
  BY DEF Start, At
<1>2. /\ job' \in [Procs -> Job]
      /\ \A q \in Procs \ {p} : job'[q] = job[q]
      /\ job'[p].at = "get" /\ job'[p].request = job[p].request
  BY <1>1, GotoFacts DEF Place
<1>3. since' \in 0 .. Interval
  BY <1>1, TransportAssumption DEF IInv, TransportTypeOK
<1>4. TransportTypeOK'
  BY <1>1, <1>2, <1>3 DEF IInv, TransportTypeOK
<1>5. SlotOK(p)' /\ CaptureOK(p)'
  BY <1>1, <1>2 DEF IInv, SlotOK, CaptureOK
<1>6. ASSUME NEW q \in Procs \ {p} PROVE SlotOK(q)' /\ CaptureOK(q)'
  <2>1. job[q].at = "wait" /\ job[q].request \in Pages => job[p].request \notin Pages
    BY <1>1 DEF IInv, SlotOK, Provider
  <2>2. Undisturbed(q)
    BY <1>1, <1>2, <2>1 DEF Undisturbed, IInv, TransportTypeOK
  <2> QED
    BY <1>1, <2>2, OtherStays DEF IInv, TransportTypeOK
<1>7. CacheIsBacked'
  BY <1>1 DEF IInv, CacheIsBacked, Usable, Captures
<1> QED
  BY <1>4, <1>5, <1>6, <1>7 DEF IInv

LEMMA AnswerOK ==
  ASSUME IInv, NEW p \in Procs, NEW status \in Status, NEW valid \in BOOLEAN,
         Answer(p, status, valid)
  PROVE  IInv'
<1> DEFINE new == [request |-> job[p].request, status |-> status, valid |-> valid,
                   whole |-> FALSE]
           k == Len(capture) + 1
           j == [job[p] EXCEPT !.at = "metadata", !.last = k]
<1>1. /\ job[p].at = "get" /\ Len(capture) < MaxCaptures
      /\ capture' = Append(capture, new)
      /\ job' = [job EXCEPT ![p] = j]
      /\ UNCHANGED <<cache, since, lock>>
  BY DEF Answer, At
<1>2. /\ job \in [Procs -> Job] /\ job[p] \in Job /\ capture \in Seq(Capture)
      /\ job[p].request \in Requests /\ Len(capture) \in Nat
  BY <1>1 DEF IInv, TransportTypeOK, SlotOK
<1>3. new \in Capture /\ new.request = job[p].request /\ new.whole = FALSE
  BY <1>2 DEF Capture
<1>4. k \in 0 .. MaxCaptures /\ k >= 1
  BY <1>1, <1>2, TransportAssumption
<1>5. j \in Job /\ j.at = "metadata" /\ j.last = k /\ j.request = job[p].request
  BY <1>2, <1>4 DEF Job, Place
<1> HIDE DEF new, j
<1>6. /\ capture' \in Seq(Capture) /\ Len(capture') = k /\ capture'[k] = new
      /\ \A i \in 1 .. Len(capture) : capture'[i] = capture[i]
  BY <1>1, <1>2, <1>3
<1>7. /\ job' \in [Procs -> Job] /\ job'[p] = j
      /\ \A q \in Procs \ {p} : job'[q] = job[q]
  BY <1>1, <1>2, <1>5
<1>8. TransportTypeOK'
  BY <1>1, <1>6, <1>7 DEF IInv, TransportTypeOK
<1>9. SlotOK(p)' /\ CaptureOK(p)'
  BY <1>1, <1>2, <1>3, <1>4, <1>5, <1>6, <1>7 DEF IInv, SlotOK, CaptureOK
<1>10. ASSUME NEW q \in Procs \ {p} PROVE SlotOK(q)' /\ CaptureOK(q)'
  <2>1. job[q].at \in Publishing => job[q].last \in 1 .. Len(capture)
    BY DEF IInv, CaptureOK, Publishing
  <2>2. Undisturbed(q)
    BY <1>1, <1>2, <1>6, <1>7, <2>1 DEF Undisturbed
  <2> QED
    BY <1>6, <2>2, OtherStays
<1>11. CacheIsBacked'
  <2> SUFFICES ASSUME NEW q \in Pages, cache[q] # 0
               PROVE  /\ cache[q] \in DOMAIN capture' /\ capture'[cache[q]] = capture[cache[q]]
    BY <1>1 DEF IInv, CacheIsBacked, Usable, Captures
  <2>1. cache[q] \in 1 .. Len(capture)
    BY <1>2 DEF IInv, CacheIsBacked, Usable, Captures
  <2> QED
    BY <1>2, <1>6, <2>1
<1> QED
  BY <1>8, <1>9, <1>10, <1>11 DEF IInv

\* Of the captures a step makes whole it is the one its own fetch has just retained.
LEMMA WriteMetadataFacts ==
  ASSUME IInv, NEW p \in Procs, WriteMetadata(p)
  PROVE  /\ job[p].last \in 1 .. Len(capture) /\ ~capture[job[p].last].whole
         /\ capture' \in Seq(Capture) /\ Len(capture') = Len(capture)
         /\ \A i \in 1 .. Len(capture) : i # job[p].last => capture'[i] = capture[i]
         /\ capture'[job[p].last].whole
         /\ capture'[job[p].last].request = capture[job[p].last].request
<1>1. job[p].at = "metadata" /\ capture' = [capture EXCEPT ![job[p].last].whole = TRUE]
  BY DEF WriteMetadata, At
<1>2. /\ job[p].last \in 1 .. Len(capture) /\ ~capture[job[p].last].whole
      /\ capture \in Seq(Capture) /\ capture[job[p].last] \in Capture
  BY <1>1 DEF IInv, TransportTypeOK, CaptureOK
<1> DEFINE new == [capture[job[p].last] EXCEPT !.whole = TRUE]
<1>3. new \in Capture /\ new.whole /\ new.request = capture[job[p].last].request
  BY <1>2 DEF Capture
<1>4. capture' = [capture EXCEPT ![job[p].last] = new]
  BY <1>1
<1> HIDE DEF new
<1> QED
  BY <1>2, <1>3, <1>4

LEMMA WriteMetadataOK ==
  ASSUME IInv, NEW p \in Procs, WriteMetadata(p)
  PROVE  IInv'
<1>1. /\ job[p].at = "metadata" /\ Goto(p, "check") /\ Release(p)
      /\ UNCHANGED <<cache, since>>
  BY DEF WriteMetadata, At
<1>2. /\ job' \in [Procs -> Job]
      /\ \A q \in Procs \ {p} : job'[q] = job[q]
      /\ job'[p].at = "check" /\ job'[p].request = job[p].request
      /\ job'[p].last = job[p].last
  BY <1>1, GotoFacts DEF Place
<1>3. /\ job[p].last \in 1 .. Len(capture) /\ ~capture[job[p].last].whole
      /\ capture' \in Seq(Capture) /\ Len(capture') = Len(capture)
      /\ \A i \in 1 .. Len(capture) : i # job[p].last => capture'[i] = capture[i]
      /\ capture'[job[p].last].whole
      /\ capture'[job[p].last].request = capture[job[p].last].request
  BY WriteMetadataFacts
<1>4. TransportTypeOK'
  BY <1>1, <1>2, <1>3, LockType DEF IInv, TransportTypeOK
<1>5. SlotOK(p)' /\ CaptureOK(p)'
  BY <1>1, <1>2, <1>3 DEF IInv, SlotOK, CaptureOK
<1>6. ASSUME NEW q \in Procs \ {p} PROVE SlotOK(q)' /\ CaptureOK(q)'
  <2>1. job[q].at \in {"wait", "get", "metadata"} => lock[Provider(job[q].request)] = q
    BY DEF IInv, SlotOK
  <2>2. Provider(job[q].request) \in Providers
    BY DEF Provider, Providers
  <2>3. ASSUME job[q].at \in Publishing PROVE job[q].last # job[p].last
    <3>1. SlotOK(p) /\ CaptureOK(p) /\ CaptureOK(q)
      BY DEF IInv
    <3>2. CASE job[q].at = "metadata"
      BY <1>1, <2>1, <3>1, <3>2 DEF SlotOK, CaptureOK
    <3>3. CASE job[q].at # "metadata"
      BY <1>1, <2>3, <3>1, <3>3 DEF CaptureOK, Publishing
    <3> QED
      BY <3>2, <3>3
  <2>4. job[q].at \in Publishing => capture'[job[q].last] = capture[job[q].last]
    BY <1>3, <2>3 DEF IInv, CaptureOK, Publishing
  <2>5. Undisturbed(q)
    BY <1>1, <1>2, <1>3, <2>1, <2>2, <2>4, LockType DEF Undisturbed, IInv, TransportTypeOK
  <2> QED
    BY <1>3, <2>5, OtherStays
<1>7. CacheIsBacked'
  <2> SUFFICES ASSUME NEW q \in Pages, cache[q] # 0
               PROVE  /\ cache[q] \in DOMAIN capture' /\ capture'[cache[q]] = capture[cache[q]]
    BY <1>1 DEF IInv, CacheIsBacked, Usable, Captures
  <2>1. cache[q] \in 1 .. Len(capture) /\ capture[cache[q]].whole
    BY DEF IInv, TransportTypeOK, CacheIsBacked, Usable, Captures
  <2> QED
    BY <1>3, <2>1
<1> QED
  BY <1>4, <1>5, <1>6, <1>7 DEF IInv

LEMMA LinkOK ==
  ASSUME IInv, NEW p \in Procs, Link(p)
  PROVE  IInv'
<1>1. job[p].at = "link" /\ Raise(p) /\ UNCHANGED <<capture, since, lock>>
  BY DEF Link, At
<1>2. CASE UNCHANGED cache
  BY <1>1, <1>2, RaiseOK
<1>3. CASE cache' = [cache EXCEPT ![job[p].request] = job[p].last]
  <2>1. /\ job' \in [Procs -> Job] /\ job'[p] = Idle
        /\ \A q \in Procs \ {p} : job'[q] = job[q]
    BY <1>1, IdleIsJob DEF Raise, IInv, TransportTypeOK
  <2>2. /\ job[p].request \in Pages /\ job[p].last \in 1 .. Len(capture)
        /\ capture[job[p].last].whole /\ capture[job[p].last].request = job[p].request
        /\ capture[job[p].last].status = "success" /\ capture[job[p].last].valid
    BY <1>1 DEF IInv, SlotOK, CaptureOK
  <2>3. TransportTypeOK'
    BY <1>1, <1>3, <2>1, <2>2 DEF IInv, TransportTypeOK
  <2>4. SlotOK(p)' /\ CaptureOK(p)'
    BY <2>1 DEF SlotOK, CaptureOK, Idle
  <2>5. ASSUME NEW q \in Procs \ {p} PROVE SlotOK(q)' /\ CaptureOK(q)'
    <3>1. Undisturbed(q)
      BY <1>1, <2>1 DEF Undisturbed, IInv, TransportTypeOK
    <3> QED
      BY <1>1, <3>1, OtherStays DEF IInv, TransportTypeOK
  <2>6. CacheIsBacked'
    BY <1>1, <1>3, <2>2 DEF IInv, TransportTypeOK, CacheIsBacked, Usable, Captures
  <2> QED
    BY <2>3, <2>4, <2>5, <2>6 DEF IInv
<1> QED
  BY <1>2, <1>3 DEF Link

LEMMA NextOK == IInv /\ [Next]_vars => IInv'
<1> SUFFICES ASSUME IInv, [Next]_vars PROVE IInv'
  OBVIOUS
<1>1. CASE UNCHANGED vars
  BY <1>1 DEF vars, IInv, TransportTypeOK, SlotOK, CaptureOK, CacheIsBacked, Usable, Captures
<1>2. CASE Tick
  BY <1>2, TickOK
<1>3. ASSUME NEW p \in Procs, Working(p) PROVE IInv'
  BY <1>3, EndsOK, MissOK, AcquireOK, StartOK, UnansweredOK, AnswerOK, WriteMetadataOK,
     CheckSuccessOK, BackoffOK, ParseOK, LinkOK DEF Working, Answered
<1>4. ASSUME NEW p \in Procs, Crash(p) \/ (\E q \in Requests : Begin(p, q)) PROVE IInv'
  BY <1>4, EndsOK, BeginOK
<1> QED
  BY <1>1, <1>2, <1>3, <1>4 DEF Next

-----------------------------------------------------------------------------
(***************************************************************************)
(* The invariant holds in every state, for any number of processes that    *)
(* share the raw root and die where they like.                             *)
(***************************************************************************)
THEOREM Invariance == Spec => []IInv
<1> QED
  BY InitOK, NextOK, PTL DEF Spec

(***************************************************************************)
(* What the cache index names was retained whole, was successful, was      *)
(* parsed and answers that very request.                                   *)
(***************************************************************************)
THEOREM CacheNamesWholeResponses == Spec => []CacheIsBacked
<1>1. IInv => CacheIsBacked
  BY DEF IInv
<1> QED
  BY <1>1, Invariance, PTL

\* Only Start sends a request.
LEMMA OnlyStartSends ==
  ASSUME IInv, [Next]_vars, NEW p \in Procs, At(p, "wait"), job'[p].at = "get"
  PROVE  Start(p)
<1>1. job \in [Procs -> Job] /\ job[p].at = "wait"
  BY DEF At, IInv, TransportTypeOK
<1>2. CASE UNCHANGED vars
  BY <1>1, <1>2 DEF vars
<1>3. CASE Tick
  BY <1>1, <1>3 DEF Tick, Job
<1>4. ASSUME NEW q \in Procs, q # p,
             Working(q) \/ Crash(q) \/ (\E r \in Requests : Begin(q, r))
      PROVE  FALSE
  <2>1. job'[p] = job[p]
    BY <1>1, <1>4 DEF Working, Crash, Begin, Hit, Miss, Acquire, Start, Unanswered, RetainFails,
       Answered, Answer, WriteMetadata, CheckSuccess, CheckRetry, CheckRaises, Backoff, Parse,
       IndexExists, IndexMissing, Link, Goto, Raise
  <2> QED
    BY <1>1, <2>1
<1>5. CASE Working(p) \/ Crash(p) \/ (\E r \in Requests : Begin(p, r))
  <2>1. CASE Crash(p)
    BY <1>1, <2>1 DEF Crash, Idle
  <2>2. CASE ~Crash(p)
    BY <1>1, <1>5, <2>2 DEF Working, Begin, Hit, Miss, Acquire, Unanswered, RetainFails,
       Answered, Answer, WriteMetadata, CheckSuccess, CheckRetry, CheckRaises, Backoff, Parse,
       IndexExists, IndexMissing, Link, At
  <2> QED
    BY <2>1, <2>2
<1> QED
  BY <1>2, <1>3, <1>4, <1>5 DEF Next

(***************************************************************************)
(* Two requests to Baseball-Reference start at least the interval apart,   *)
(* whoever sends them and whoever died in between: the lock file is held   *)
(* from reading the last start to recording the next.                      *)
(***************************************************************************)
THEOREM RequestsKeepTheInterval == Spec => RequestsAreSpaced
<1>1. ASSUME IInv, [Next]_vars, NEW p \in Procs, At(p, "wait"), job'[p].at = "get",
             job[p].request \in Pages
      PROVE  since = Interval
  BY <1>1, OnlyStartSends, StartWaited
<1>2. IInv /\ [Next]_vars =>
        [\A p \in Procs : At(p, "wait") /\ job'[p].at = "get" /\ job[p].request \in Pages
           => since = Interval]_vars
  BY <1>1
<1> QED
  BY <1>2, Invariance, PTL DEF Spec, RequestsAreSpaced

\* What a step does to the captures and the cache.
EvidenceStays ==
  /\ \A k \in Captures :
       /\ k \in DOMAIN capture'
       /\ capture[k].whole => capture'[k] = capture[k]
  /\ \A q \in Pages : cache[q] # 0 => cache'[q] = cache[q]

LEMMA NextKeepsEvidence == IInv /\ [Next]_vars => EvidenceStays
<1> SUFFICES ASSUME IInv, [Next]_vars PROVE EvidenceStays
  OBVIOUS
<1>1. UNCHANGED <<capture, cache>> => EvidenceStays
  BY DEF EvidenceStays, Captures
<1>2. CASE UNCHANGED vars
  BY <1>1, <1>2 DEF vars
<1>3. CASE Tick
  BY <1>1, <1>3 DEF Tick
<1>4. ASSUME NEW p \in Procs, Working(p) PROVE EvidenceStays
  <2>1. CASE Answered(p)
    <3>1. PICK new \in Capture : capture' = Append(capture, new) /\ UNCHANGED cache
      BY <2>1 DEF Answered, Answer, At, Capture, IInv, SlotOK
    <3> QED
      BY <3>1 DEF EvidenceStays, Captures, IInv, TransportTypeOK
  <2>2. CASE WriteMetadata(p)
    <3>1. UNCHANGED cache
      BY <2>2 DEF WriteMetadata
    <3> QED
      BY <2>2, <3>1, WriteMetadataFacts DEF EvidenceStays, Captures, IInv, TransportTypeOK
  <2>3. CASE Link(p)
    BY <2>3 DEF Link, EvidenceStays, Captures, IInv, TransportTypeOK
  <2>4. CASE ~(Answered(p) \/ WriteMetadata(p) \/ Link(p))
    BY <1>1, <1>4, <2>4 DEF Working, Hit, Miss, Acquire, Start, Unanswered, RetainFails,
       CheckSuccess, CheckRetry, CheckRaises, Backoff, Parse, IndexExists, IndexMissing
  <2> QED
    BY <2>1, <2>2, <2>3, <2>4
<1>5. ASSUME NEW p \in Procs, Crash(p) \/ (\E q \in Requests : Begin(p, q)) PROVE EvidenceStays
  BY <1>1, <1>5 DEF Crash, Begin
<1> QED
  BY <1>2, <1>3, <1>4, <1>5 DEF Next

(***************************************************************************)
(* A capture with its metadata never changes or disappears, and an index   *)
(* entry is never redirected, however many processes publish it.           *)
(***************************************************************************)
THEOREM EvidenceIsNeverRewritten == Spec => EvidenceIsWriteOnce
<1>1. IInv /\ [Next]_vars =>
        [/\ \A k \in Captures :
              /\ k \in DOMAIN capture'
              /\ capture[k].whole => capture'[k] = capture[k]
         /\ \A q \in Pages : cache[q] # 0 => cache'[q] = cache[q]]_vars
  BY NextKeepsEvidence DEF EvidenceStays
<1> QED
  BY <1>1, Invariance, PTL DEF Spec, EvidenceIsWriteOnce
-----------------------------------------------------------------------------
(***************************************************************************)
(* How the games of a day are told apart, for every day: any number of     *)
(* games of the two clubs, rows, feeds and conflicts.                      *)
(***************************************************************************)
\* A set with as many values as members has a value for each.
LEMMA ValuesTellApart ==
  ASSUME NEW S, IsFiniteSet(S), NEW f, f = [x \in S |-> f[x]],
         NEW N, N \subseteq {f[x] : x \in S}, Cardinality(N) = Cardinality(S)
  PROVE  \A x, y \in S : f[x] = f[y] => x = y
<1> DEFINE R == {f[x] : x \in S}
<1>1. f \in Surjection(S, R)
  <2>1. f \in [S -> R]
    OBVIOUS
  <2>2. \A y \in R : \E x \in S : f[x] = y
    OBVIOUS
  <2>3. QED
    BY <2>1, <2>2 DEF Surjection
<1>2. IsFiniteSet(R) /\ Cardinality(R) <= Cardinality(S)
      /\ (Cardinality(R) = Cardinality(S) <=> f \in Injection(S, R))
  BY <1>1, FS_Surjection
<1>3. Cardinality(N) <= Cardinality(R)
  BY <1>2, FS_Subset
<1>4. Cardinality(N) \in Nat /\ Cardinality(R) \in Nat /\ IsFiniteSet(N)
  BY <1>2, FS_CardinalityType, FS_Subset
<1>5. f \in Injection(S, R)
  BY <1>2, <1>3, <1>4
<1>6. QED
  BY <1>5 DEF Injection, IsInjective

\* Games and feeds paired by their numbers are paired one to one.
LEMMA SequencesPairOneToOne ==
  ASSUME NEW games, NEW feeds, IsFiniteSet(games), IsFiniteSet(feeds),
         Cardinality(games) = Cardinality(feeds),
         NEW m \in PairedBySequence(games, feeds), NEW n \in PairedBySequence(games, feeds)
  PROVE  /\ m[1] = n[1] <=> m[2] = n[2]
         /\ m \in games \X feeds
         /\ BoxSequence(m[1]) = ExplicitSequence(m[2]) /\ BoxSequence(m[1]) # None
<1> DEFINE box == [g \in games |-> BoxSequence(g)]
           explicit == [f \in feeds |-> ExplicitSequence(f)]
           N == {box[g] : g \in games} \ {None}
<1>1. /\ Cardinality(N) = Cardinality(games)
      /\ N = {explicit[f] : f \in feeds} \ {None}
      /\ m \in games \X feeds /\ BoxSequence(m[1]) = ExplicitSequence(m[2])
      /\ n \in games \X feeds /\ BoxSequence(n[1]) = ExplicitSequence(n[2])
  BY DEF PairedBySequence
<1>2. \A g, h \in games : box[g] = box[h] => g = h
  <2>1. N \subseteq {box[g] : g \in games}
    OBVIOUS
  <2>2. QED
    BY <1>1, <2>1, ValuesTellApart
<1>3. \A f, e \in feeds : explicit[f] = explicit[e] => f = e
  <2>1. N \subseteq {explicit[f] : f \in feeds} /\ Cardinality(N) = Cardinality(feeds)
    BY <1>1
  <2>2. QED
    BY <2>1, ValuesTellApart
<1>4. m[1] \in games /\ n[1] \in games /\ m[2] \in feeds /\ n[2] \in feeds
  BY <1>1
<1>5. box[m[1]] # None
  <2> DEFINE R == {box[g] : g \in games}
  <2>1. IsFiniteSet(R) /\ Cardinality(R) <= Cardinality(games) /\ N \subseteq R
    <3>1. box \in Surjection(games, R)
      <4>1. box \in [games -> R]
        OBVIOUS
      <4>2. \A y \in R : \E x \in games : box[x] = y
        OBVIOUS
      <4>3. QED
        BY <4>1, <4>2 DEF Surjection
    <3>2. QED
      BY <3>1, FS_Surjection
  <2>2. N = R
    <3>1. Cardinality(N) <= Cardinality(R) /\ (Cardinality(R) = Cardinality(N) => R = N)
      BY <2>1, FS_Subset
    <3>2. Cardinality(R) \in Nat /\ Cardinality(games) \in Nat
      BY <2>1, FS_CardinalityType
    <3>3. QED
      BY <1>1, <2>1, <3>1, <3>2
  <2>3. QED
    BY <1>4, <2>2
<1>6. QED
  BY <1>1, <1>2, <1>3, <1>4, <1>5

\* Identities are the entries' and the feeds' own.
Told(schedule, feeds) ==
  /\ IsFiniteSet(schedule) /\ \A g, h \in schedule : g.id = h.id => g = h
  /\ IsFiniteSet(feeds) /\ \A f, e \in feeds : f.pk = e.pk => f = e

\* A game is matched with a feed of its score: the only one on both sides, or the
\* one of its number.
LEMMA MatchedAtAScore ==
  ASSUME NEW schedule, NEW feeds, NEW conflicts, Told(schedule, feeds), NEW score,
         NEW m \in MatchedAt(score, schedule, feeds, conflicts)
  PROVE  /\ m = <<m[1], m[2]>>
         /\ m[1] \in FinalGames(schedule) /\ m[1].score = score
         /\ m[2] \in Evidence(feeds) /\ FeedScore(m[2]) = score /\ m[2].pk \notin conflicts
         /\ \/ \A g \in FinalGames(schedule) : g.score = score => g = m[1]
            \/ BoxSequence(m[1]) = ExplicitSequence(m[2]) /\ BoxSequence(m[1]) # None
         /\ \A n \in MatchedAt(score, schedule, feeds, conflicts) : m[1] = n[1] <=> m[2] = n[2]
<1> DEFINE games  == {g \in FinalGames(schedule) : g.score = score}
           usable == {f \in Evidence(feeds) : FeedScore(f) = score /\ f.pk \notin conflicts}
<1>1. IsFiniteSet(games) /\ IsFiniteSet(usable)
  <2>1. games \subseteq schedule /\ usable \subseteq feeds
    BY DEF FinalGames, Evidence
  <2>2. QED
    BY <2>1, FS_Subset DEF Told
<1>2. Cardinality(games) = Cardinality(usable)
  BY DEF MatchedAt
<1>3. CASE Cardinality(games) = 1
  <2>1. MatchedAt(score, schedule, feeds, conflicts) = games \X usable
    BY <1>2, <1>3 DEF MatchedAt
  <2>2. PICK g : games = {g}
    BY <1>1, <1>3, FS_Singleton
  <2>3. PICK f : usable = {f}
    BY <1>1, <1>2, <1>3, FS_Singleton
  <2>4. m = <<m[1], m[2]>> /\ m[1] = g /\ m[2] = f
    BY <2>1, <2>2, <2>3
  <2>5. \A n \in MatchedAt(score, schedule, feeds, conflicts) : n[1] = g /\ n[2] = f
    BY <2>1, <2>2, <2>3
  <2>6. g \in games /\ f \in usable
    BY <2>2, <2>3
  <2>7. \A h \in FinalGames(schedule) : h.score = score => h = m[1]
    BY <2>2, <2>4
  <2>8. QED
    BY <2>4, <2>5, <2>6, <2>7
<1>4. CASE Cardinality(games) # 1
  <2>1. MatchedAt(score, schedule, feeds, conflicts) = PairedBySequence(games, usable)
    BY <1>2, <1>4 DEF MatchedAt
  <2>2. ASSUME NEW n \in PairedBySequence(games, usable)
        PROVE  /\ m \in games \X usable
               /\ BoxSequence(m[1]) = ExplicitSequence(m[2]) /\ BoxSequence(m[1]) # None
               /\ m[1] = n[1] <=> m[2] = n[2]
    <3> HIDE DEF games, usable
    <3>1. m \in PairedBySequence(games, usable)
      BY <2>1
    <3>2. /\ m[1] = n[1] <=> m[2] = n[2]
          /\ m \in games \X usable
          /\ BoxSequence(m[1]) = ExplicitSequence(m[2]) /\ BoxSequence(m[1]) # None
      BY <1>1, <1>2, <2>2, <3>1, SequencesPairOneToOne
    <3>3. QED
      BY <3>2
  <2>3. /\ m = <<m[1], m[2]>> /\ m[1] \in games /\ m[2] \in usable
        /\ BoxSequence(m[1]) = ExplicitSequence(m[2]) /\ BoxSequence(m[1]) # None
    <3>1. m \in PairedBySequence(games, usable)
      BY <2>1
    <3>2. /\ m \in games \X usable
          /\ BoxSequence(m[1]) = ExplicitSequence(m[2]) /\ BoxSequence(m[1]) # None
      BY <2>2, <3>1
    <3>3. QED
      BY <3>2
  <2>4. /\ m[1] \in FinalGames(schedule) /\ m[1].score = score
        /\ m[2] \in Evidence(feeds) /\ FeedScore(m[2]) = score /\ m[2].pk \notin conflicts
    BY <2>3
  <2>5. \A n \in MatchedAt(score, schedule, feeds, conflicts) : m[1] = n[1] <=> m[2] = n[2]
    BY <2>1, <2>2
  <2> HIDE DEF games, usable
  <2>6. QED
    BY <2>3, <2>4, <2>5, Zenon
<1>5. QED
  BY <1>3, <1>4

LEMMA MatchesAre ==
  ASSUME NEW schedule, NEW feeds, NEW conflicts, Told(schedule, feeds),
         NEW m \in Matches(schedule, feeds, conflicts)
  PROVE  \E g \in FinalGames(schedule), f \in Evidence(feeds) :
            /\ m = <<g.id, f.pk>> /\ g.score = FeedScore(f) /\ f.pk \notin conflicts
            /\ <<g, f>> \in MatchedAt(g.score, schedule, feeds, conflicts)
<1>0. PICK h \in FinalGames(schedule) :
        \E pair \in MatchedAt(h.score, schedule, feeds, conflicts) :
           m = <<pair[1].id, pair[2].pk>>
  BY DEF Matches
<1>1. PICK pair \in MatchedAt(h.score, schedule, feeds, conflicts) :
        m = <<pair[1].id, pair[2].pk>>
  BY <1>0
<1>2. /\ pair = <<pair[1], pair[2]>>
      /\ pair[1] \in FinalGames(schedule) /\ pair[1].score = h.score
      /\ pair[2] \in Evidence(feeds) /\ FeedScore(pair[2]) = h.score
      /\ pair[2].pk \notin conflicts
  BY <1>1, MatchedAtAScore
<1>3. QED
  BY <1>1, <1>2

\* No feed serves two entries, no entry has two feeds, and a conflicted feed
\* serves none; a game that is told to be complete has ended, is matched and is
\* not in doubt: whatever the pages and the feeds show.
THEOREM GamesAreMatchedOnce ==
  ASSUME NEW schedule, NEW feeds, NEW conflicts, Told(schedule, feeds)
  PROVE  LET matches == Matches(schedule, feeds, conflicts)
             states  == GameStates(schedule, feeds, conflicts)
         IN  /\ MatchesAreOneToOne(matches, conflicts)
             /\ \A id \in DOMAIN states : states[id].complete =>
                   /\ states[id].validated /\ id \in {m[1] : m \in matches}
                   /\ \E g \in FinalGames(schedule) : g.id = id
<1> DEFINE matches == Matches(schedule, feeds, conflicts)
           states  == GameStates(schedule, feeds, conflicts)
<1>1. ASSUME NEW m \in matches, NEW n \in matches
      PROVE  (m[1] = n[1]) <=> (m[2] = n[2])
  <2>1. PICK g \in FinalGames(schedule), f \in Evidence(feeds) :
          /\ m = <<g.id, f.pk>> /\ g.score = FeedScore(f) /\ f.pk \notin conflicts
          /\ <<g, f>> \in MatchedAt(g.score, schedule, feeds, conflicts)
    BY <1>1, MatchesAre
  <2>2. PICK h \in FinalGames(schedule), e \in Evidence(feeds) :
          /\ n = <<h.id, e.pk>> /\ h.score = FeedScore(e) /\ e.pk \notin conflicts
          /\ <<h, e>> \in MatchedAt(h.score, schedule, feeds, conflicts)
    BY <1>1, MatchesAre
  <2>3. /\ g \in schedule /\ h \in schedule /\ f \in feeds /\ e \in feeds
    BY DEF FinalGames, Evidence
  <2>4. (m[1] = n[1] => g = h) /\ (m[2] = n[2] => f = e)
    BY <2>1, <2>2, <2>3 DEF Told
  <2>5. g.score = h.score => (<<g, f>>[1] = <<h, e>>[1] <=> <<g, f>>[2] = <<h, e>>[2])
    BY <2>1, <2>2, MatchedAtAScore
  <2>6. g.score = h.score => (g = h <=> f = e)
    BY <2>5
  <2>7. QED
    BY <2>1, <2>2, <2>4, <2>6
<1>2. ASSUME NEW m \in matches PROVE m[2] \notin conflicts
  <2>1. PICK g \in FinalGames(schedule), f \in Evidence(feeds) :
          /\ m = <<g.id, f.pk>> /\ g.score = FeedScore(f) /\ f.pk \notin conflicts
          /\ <<g, f>> \in MatchedAt(g.score, schedule, feeds, conflicts)
    BY <1>2, MatchesAre
  <2>2. QED
    BY <2>1
<1>3. ASSUME NEW id \in DOMAIN states, states[id].complete
      PROVE  /\ states[id].validated /\ id \in {m[1] : m \in matches}
             /\ \E g \in FinalGames(schedule) : g.id = id
  <2> DEFINE game == CHOOSE g \in schedule : g.id = id
  <2>1. /\ id \in {g.id : g \in schedule}
        /\ states[id].complete <=> /\ id \notin ValidationFailed(schedule, feeds, conflicts)
                                   /\ game.status = "final"
                                   /\ id \in {m[1] : m \in matches}
        /\ states[id].validated <=>
             /\ id \notin ValidationFailed(schedule, feeds, conflicts)
             /\ game.status = "final" => None \notin {game.score[1], game.score[2]}
    BY <1>3 DEF GameStates
  <2>2. game \in schedule /\ game.id = id
    BY <2>1
  <2>3. PICK m \in matches : id = m[1]
    BY <1>3, <2>1
  <2>4. PICK g \in FinalGames(schedule), f \in Evidence(feeds) :
          /\ m = <<g.id, f.pk>> /\ g.score = FeedScore(f) /\ f.pk \notin conflicts
          /\ <<g, f>> \in MatchedAt(g.score, schedule, feeds, conflicts)
    BY <2>3, MatchesAre
  <2>5. g = game
    BY <2>2, <2>3, <2>4 DEF Told, FinalGames
  <2>6. None \notin {game.score[1], game.score[2]}
    <3>1. PICK x, y : game.score = << <<x>>, <<y>> >>
      BY <2>4, <2>5 DEF FeedScore
    <3>2. <<x>> # <<>> /\ <<y>> # <<>>
      OBVIOUS
    <3>3. QED
      BY <3>1, <3>2 DEF None
  <2>7. QED
    BY <1>3, <2>1, <2>2, <2>5, <2>6
<1>4. QED
  BY <1>1, <1>2, <1>3 DEF MatchesAreOneToOne

\* Every complete feed is of a game that the schedule shows as final, with the
\* score of that game; and whoever numbers a game numbers it right.
FeedsFitSchedule(schedule, feeds, gameOf) ==
  \A f \in Evidence(feeds) :
     \E g \in FinalGames(schedule) : IsOf(g, gameOf[f.pk]) /\ g.score = FeedScore(f)

NumbersAreReal(schedule, feeds, gameOf, number) ==
  /\ \A g \in schedule : g.of # {} /\ g.of \subseteq DOMAIN number
  /\ \A f \in feeds : gameOf[f.pk] \in DOMAIN number
  /\ \A x, y \in DOMAIN number : number[x] = number[y] => x = y
  /\ \A g \in schedule : BoxSequence(g) # None => \A x \in g.of : BoxSequence(g) = number[x]
  /\ \A f \in feeds : ExplicitSequence(f) # None => ExplicitSequence(f) = number[gameOf[f.pk]]

\* An entry is matched with the feed of its own game, as long as no feed is of a
\* game the schedule does not show as final: for any number of games of two
\* clubs on one day, numbered or not.  So an entry that mixes the rows of two games
\* stays unmatched.
THEOREM GamesAreMatchedWithTheirFeeds ==
  ASSUME NEW schedule, NEW feeds, NEW conflicts, Told(schedule, feeds),
         NEW gameOf, NEW number,
         FeedsFitSchedule(schedule, feeds, gameOf),
         NumbersAreReal(schedule, feeds, gameOf, number)
  PROVE  MatchesAreOwn(schedule, Matches(schedule, feeds, conflicts), gameOf)
<1>1. SUFFICES ASSUME NEW m \in Matches(schedule, feeds, conflicts),
                      NEW entry \in schedule, entry.id = m[1]
               PROVE  IsOf(entry, gameOf[m[2]])
  BY DEF MatchesAreOwn
<1>2. PICK g \in FinalGames(schedule), f \in Evidence(feeds) :
        /\ m = <<g.id, f.pk>> /\ g.score = FeedScore(f) /\ f.pk \notin conflicts
        /\ <<g, f>> \in MatchedAt(g.score, schedule, feeds, conflicts)
  BY <1>1, MatchesAre
<1>3. g \in schedule /\ f \in feeds /\ g.status = "final"
  BY DEF FinalGames, Evidence
<1>4. entry = g /\ m[2] = f.pk
  BY <1>1, <1>2, <1>3 DEF Told
<1> DEFINE pair == <<g, f>>
<1>5. \/ \A h \in FinalGames(schedule) : h.score = g.score => h = g
      \/ BoxSequence(g) = ExplicitSequence(f) /\ BoxSequence(g) # None
  <2>1. pair \in MatchedAt(g.score, schedule, feeds, conflicts) /\ pair[1] = g /\ pair[2] = f
    BY <1>2
  <2> HIDE DEF pair
  <2>2. \/ \A h \in FinalGames(schedule) : h.score = g.score => h = pair[1]
        \/ BoxSequence(pair[1]) = ExplicitSequence(pair[2]) /\ BoxSequence(pair[1]) # None
    BY <2>1, MatchedAtAScore
  <2>3. QED
    BY <2>1, <2>2
<1>6. CASE \A h \in FinalGames(schedule) : h.score = g.score => h = g
  BY <1>2, <1>4, <1>6 DEF FeedsFitSchedule
<1>7. CASE BoxSequence(g) = ExplicitSequence(f) /\ BoxSequence(g) # None
  <2>1. /\ g.of # {} /\ g.of \subseteq DOMAIN number /\ gameOf[f.pk] \in DOMAIN number
        /\ \A x \in g.of : number[x] = number[gameOf[f.pk]]
    BY <1>3, <1>7 DEF NumbersAreReal
  <2>2. \A x \in g.of : x = gameOf[f.pk]
    BY <2>1 DEF NumbersAreReal
  <2>3. g.of = {gameOf[f.pk]}
    BY <2>1, <2>2
  <2>4. QED
    BY <1>4, <2>3 DEF IsOf
<1>8. QED
  BY <1>5, <1>6, <1>7

\* The schedule that two clubs' pages are accepted as has an entry for a game
\* once, both clubs show it, and it has the score of every game its rows are
\* about: so it mixes two games only if they ended alike.
THEOREM AcceptedScoresAreReal ==
  ASSUME NEW pages, NEW last, NEW scores,
         \A c \in Clubs : \A k \in DOMAIN RegularGames(pages, c) :
            LET game == RegularGames(pages, c)[k]
            IN  game.status = "final" => game.score = scores[game.of]
  PROVE  LET schedule == DaySchedule(pages, last)
         IN  /\ ScoresAreReal(schedule, scores)
             /\ \A g, h \in schedule : g.id = h.id => g = h
             /\ \A g \in FinalGames(schedule) : None \notin {g.score[1], g.score[2]}
<1> DEFINE schedule == DaySchedule(pages, last)
           shown(c, k) == RegularGames(pages, c)[k]
<1>1. ASSUME NEW entry \in schedule
      PROVE  \E k \in Occurrences(pages) :
                GroupAccepted(pages, k) /\ entry = Representative(pages, k, last)
  BY <1>1 DEF DaySchedule, ScheduleAccepted
<1>2. \A k : Representative(pages, k, last).id = k
  BY DEF Representative
<1>3. \A g, h \in schedule : g.id = h.id => g = h
  BY <1>1, <1>2
<1>4. ASSUME NEW entry \in FinalGames(schedule)
      PROVE  /\ \A x \in entry.of : entry.score = scores[x]
             /\ None \notin {entry.score[1], entry.score[2]}
  <2>1. PICK k \in Occurrences(pages) :
          GroupAccepted(pages, k) /\ entry = Representative(pages, k, last)
    BY <1>1, <1>4 DEF FinalGames
  <2>2. /\ Observed(pages, k) = Clubs
        /\ shown("home", k).status = shown("away", k).status
        /\ shown("home", k).score = shown("away", k).score
    BY <2>1 DEF GroupAccepted, PairPasses
  <2>3. PICK c \in Clubs : /\ entry.status = shown(c, k).status
                           /\ entry.score = shown(c, k).score
                           /\ entry.of = {g.of : g \in ObservedGames(pages, k)}
    <3>1. Only(Clubs) \in Clubs
      BY DEF Only, Clubs
    <3>2. QED
      BY <2>1, <2>2, <3>1 DEF Representative
  <2>4. entry.status = "final"
    BY <1>4 DEF FinalGames
  <2>5. \A d \in Clubs : /\ shown(d, k).status = "final" /\ shown(d, k).score = entry.score
                         /\ k \in DOMAIN RegularGames(pages, d)
    BY <2>2, <2>3, <2>4 DEF Clubs, Observed
  <2>6. \A d \in Clubs : entry.score = scores[shown(d, k).of]
    BY <2>5
  <2>7. ObservedGames(pages, k) = {shown(d, k) : d \in Clubs}
    BY <2>2 DEF ObservedGames
  <2>8. \A x \in entry.of : entry.score = scores[x]
    BY <2>3, <2>6, <2>7
  <2>9. None \notin {entry.score[1], entry.score[2]}
    <3>1. FactsAgree(ObservedGames(pages, k))
      BY <2>1 DEF GroupAccepted
    <3>2. {g.status : g \in ObservedGames(pages, k)} = {"final"}
      BY <2>5, <2>7 DEF Clubs
    <3>3. Cardinality(ScoreFacts(ObservedGames(pages, k))) = 1
      BY <3>1, <3>2 DEF FactsAgree
    <3>4. {g.score : g \in ObservedGames(pages, k)} = {entry.score}
      BY <2>5, <2>7 DEF Clubs
    <3>5. entry.score # NoScore
      <4>1. SUFFICES ASSUME entry.score = NoScore PROVE FALSE
        OBVIOUS
      <4>2. ScoreFacts(ObservedGames(pages, k)) = {}
        BY <3>4, <4>1 DEF ScoreFacts
      <4>3. Cardinality({}) = 0
        BY FS_EmptySet
      <4>4. QED
        BY <3>3, <4>2, <4>3
    <3>6. entry.score \in ScoreFacts(ObservedGames(pages, k))
      BY <3>4, <3>5 DEF ScoreFacts
    <3>7. QED
      BY <3>1, <3>2, <3>6 DEF FactsAgree
  <2>10. QED
    BY <2>8, <2>9
<1>5. QED
  BY <1>3, <1>4 DEF ScoresAreReal

-----------------------------------------------------------------------------
(***************************************************************************)
(* The odds of a game: what process_game decides about a capture is what   *)
(* the stored rows show of it, for any number of books and captures.       *)
(* First, that the median of finitely many times is a number, so that of   *)
(* one line the newest is that line.                                       *)
(***************************************************************************)
LEMMA SomeLeast ==
  ASSUME NEW S \in SUBSET Nat, S # {}
  PROVE  \E n \in S : \A k \in S : n <= k
<1>1. PICK n \in S : \A k \in S : ~(<<k, n>> \in OpToRel(<, Nat))
  BY NatLessThanWellFounded, WFMin
<1>2. \A k \in S : k \in Nat /\ n \in Nat /\ ~(k < n)
  BY <1>1 DEF OpToRel
<1>3. QED
  BY <1>2

\* Of the sets without a greatest member none is smallest.
LEMMA SomeGreatest ==
  ASSUME NEW S \in SUBSET Nat, S # {}, IsFiniteSet(S)
  PROVE  \E n \in S : \A k \in S : k <= n
<1> DEFINE Peaks(T) == \E n \in T : \A k \in T : k <= n
           Counter(T, n) == /\ T \in SUBSET Nat /\ T # {} /\ IsFiniteSet(T)
                            /\ Cardinality(T) = n /\ ~Peaks(T)
           C == {n \in Nat : \E T : Counter(T, n)}
<1>1. SUFFICES ASSUME ~Peaks(S) PROVE FALSE
  OBVIOUS
<1>2. Cardinality(S) \in C
  BY <1>1, FS_CardinalityType
<1>3. PICK n \in C : \A k \in C : n <= k
  <2>1. C \in SUBSET Nat /\ C # {}
    BY <1>2
  <2> HIDE DEF C
  <2>2. QED
    BY <2>1, SomeLeast
<1>4. PICK T : Counter(T, n)
  BY <1>3
<1>5. PICK x \in T : TRUE
  BY <1>4
<1> DEFINE above == {y \in T : y > x}
<1>6. IsFiniteSet(above) /\ Cardinality(above) \in Nat /\ Cardinality(above) < n
  <2>1. /\ IsFiniteSet(above) /\ Cardinality(above) <= Cardinality(T)
        /\ (Cardinality(T) = Cardinality(above) => T = above)
    BY <1>4, FS_Subset
  <2>2. T # above
    BY <1>4, <1>5
  <2>3. Cardinality(above) \in Nat
    BY <2>1, FS_CardinalityType
  <2>4. QED
    BY <1>3, <1>4, <2>1, <2>2, <2>3
<1>7. CASE above = {}
  BY <1>4, <1>5, <1>7
<1>8. CASE above # {}
  <2>1. Cardinality(above) \notin C
    BY <1>3, <1>6
  <2>2. Peaks(above)
    BY <1>4, <1>6, <1>8, <2>1
  <2>3. PICK m \in above : \A k \in above : k <= m
    BY <2>2
  <2>4. m \in T /\ \A k \in T : k <= m
    BY <1>4, <1>5, <2>3
  <2>5. QED
    BY <1>4, <2>4
<1>9. QED
  BY <1>7, <1>8

LEMMA RankedIsNumber ==
  ASSUME NEW f, IsFiniteSet(DOMAIN f), \A x \in DOMAIN f : f[x] \in Nat,
         NEW k \in 1 .. Cardinality(DOMAIN f)
  PROVE  Ranked(f, k) \in Nat
<1> DEFINE D == DOMAIN f
           R == {f[x] : x \in D}
           upTo(v) == {x \in D : f[x] <= v}
           W == {v \in Nat : Cardinality(upTo(v)) >= k}
<1>1. /\ Cardinality(D) \in Nat /\ k \in Nat /\ k >= 1 /\ k <= Cardinality(D)
      /\ R \in SUBSET Nat
  BY FS_CardinalityType
<1>2. R # {}
  <2>1. D # {}
    BY <1>1, FS_EmptySet
  <2>2. QED
    BY <2>1
<1>3. IsFiniteSet(R)
  <2> DEFINE g == [x \in D |-> f[x]]
  <2>1. g \in [D -> R]
    OBVIOUS
  <2>2. \A y \in R : \E x \in D : g[x] = y
    OBVIOUS
  <2>3. g \in Surjection(D, R)
    BY <2>1, <2>2 DEF Surjection
  <2>4. QED
    BY <2>3, FS_Surjection
<1>4. W # {}
  <2>1. PICK v \in R : \A r \in R : r <= v
    BY <1>1, <1>2, <1>3, SomeGreatest
  <2>2. upTo(v) = D
    BY <2>1
  <2>3. QED
    BY <1>1, <2>1, <2>2
<1>5. PICK v \in W : \A w \in W : v <= w
  <2>1. W \in SUBSET Nat
    OBVIOUS
  <2> HIDE DEF W
  <2>2. QED
    BY <1>4, <2>1, SomeLeast
<1> DEFINE below == {x \in D : f[x] < v}
<1>6. Cardinality(below) < k
  <2>1. CASE v = 0
    <3>1. below = {}
      BY <2>1
    <3>2. QED
      BY <1>1, <3>1, FS_EmptySet
  <2>2. CASE v # 0
    <3>1. v - 1 \in Nat /\ v - 1 \notin W
      BY <1>5, <2>2
    <3>2. upTo(v - 1) = below
      BY <1>5, <2>2
    <3>3. ~(Cardinality(below) >= k)
      BY <3>1, <3>2
    <3>4. Cardinality(below) \in Nat
      BY FS_Subset, FS_CardinalityType
    <3>5. QED
      BY <1>1, <3>3, <3>4
  <2>3. QED
    BY <2>1, <2>2
<1>7. v \in R
  <2>1. SUFFICES ASSUME v \notin R PROVE FALSE
    OBVIOUS
  <2>2. below = upTo(v)
    BY <1>5, <2>1
  <2>3. Cardinality(upTo(v)) >= k /\ Cardinality(below) \in Nat
    BY <1>5, FS_Subset, FS_CardinalityType
  <2>4. QED
    BY <1>1, <1>6, <2>2, <2>3
<1>8. /\ v \in {f[x] : x \in DOMAIN f}
      /\ Cardinality({x \in DOMAIN f : f[x] < v}) < k
      /\ Cardinality({x \in DOMAIN f : f[x] <= v}) >= k
  BY <1>5, <1>6, <1>7
<1>9. Ranked(f, k) \in R
  BY <1>8 DEF Ranked
<1>10. QED
  BY <1>1, <1>9

LEMMA MedianIsNumber ==
  ASSUME NEW f, IsFiniteSet(DOMAIN f), DOMAIN f # {}, \A x \in DOMAIN f : f[x] \in Nat
  PROVE  TwiceMedian(f) \in Nat
<1> DEFINE n == Cardinality(DOMAIN f)
<1>1. n \in Nat /\ n # 0
  BY FS_CardinalityType, FS_EmptySet
<1>2. (n + 1) \div 2 \in 1 .. n /\ n \div 2 + 1 \in 1 .. n
  BY <1>1
<1>3. Ranked(f, (n + 1) \div 2) \in Nat /\ Ranked(f, n \div 2 + 1) \in Nat
  BY <1>2, RankedIsNumber
<1>4. QED
  BY <1>3 DEF TwiceMedian

\* What the two computations can agree on: no book has two objects of the market
\* or quotes a side twice, and no time is in the future.
IsTime(stamp, now) == \E n \in Nat : stamp = <<n>> /\ n - now <= FutureTolerance

Comparable(c, key) ==
  /\ key \in {"spreads", "totals"} /\ c.home \in {"t1", "t2"} /\ c.at \in Nat
  /\ IsFiniteSet(DOMAIN c.books)
  /\ \A b \in DOMAIN c.books :
       LET markets == c.books[b].markets
       IN  /\ c.books[b].stamp = Missing \/ IsTime(c.books[b].stamp, c.at)
           /\ \A j, l \in DOMAIN markets :
                (markets[j].key = key /\ markets[l].key = key) => j = l
           /\ \A j \in DOMAIN markets : markets[j].key = key =>
                /\ markets[j].stamp = Missing \/ IsTime(markets[j].stamp, c.at)
                /\ \A k, m \in DOMAIN markets[j].outcomes :
                     markets[j].outcomes[k].name = markets[j].outcomes[m].name => k = m
                /\ \A k \in DOMAIN markets[j].outcomes :
                     \/ markets[j].outcomes[k].point = Missing
                     \/ \E n \in Int : markets[j].outcomes[k].point = <<n>>

IsQuote(c, key, b, j, k) ==
  /\ b \in DOMAIN c.books /\ j \in DOMAIN c.books[b].markets
  /\ c.books[b].markets[j].key = key /\ k \in DOMAIN c.books[b].markets[j].outcomes

\* The row of an offer.
RowOf(o, c, key) ==
  [ at |-> c.at, book |-> o.book, market |-> key, order |-> o.order, name |-> o.side,
    price |-> o.price, point |-> o.point, time |-> o.time ]

LEMMA OffersAreQuotes ==
  ASSUME NEW c, NEW key
  PROVE  \A o : o \in AllOffers(c, key) <=>
            /\ \E b, j, k : IsQuote(c, key, b, j, k) /\ o = OfferAt(c, b, j, k)
            /\ o.side \in AllowedNames(key) \/ key = "totals"
BY DEF AllOffers, IsQuote

LEMMA RowsAreQuotes ==
  ASSUME NEW c, NEW key
  PROVE  \A r : (r \in SnapshotRows(c) /\ r.market = key) <=>
            \E b, j, k : IsQuote(c, key, b, j, k) /\ r = SnapshotRow(c, b, j, k)
BY DEF SnapshotRows, IsQuote, SnapshotRow

\* Of the rows of all captures, those of one retrieval are those of its capture.
LEMMA RowsOfOneCapture ==
  ASSUME NEW all, NEW key, NEW i \in DOMAIN all,
         \A n \in DOMAIN all : all[n].at = all[i].at => n = i
  PROVE  \A r : (r \in OddsHistory(all) /\ r.market = key /\ r.at = all[i].at) <=>
            \E b, j, k : IsQuote(all[i], key, b, j, k) /\ r = SnapshotRow(all[i], b, j, k)
<1>1. \A n \in DOMAIN all : \A r \in SnapshotRows(all[n]) : r.at = all[n].at
  BY DEF SnapshotRows, SnapshotRow
<1>2. \A r : (r \in OddsHistory(all) /\ r.at = all[i].at) <=> r \in SnapshotRows(all[i])
  BY <1>1 DEF OddsHistory
<1>3. QED
  BY <1>2, RowsAreQuotes

LEMMA RowsAreOfOffers ==
  ASSUME NEW c, NEW key, Comparable(c, key), NEW b, NEW j, NEW k, IsQuote(c, key, b, j, k)
  PROVE  /\ SnapshotRow(c, b, j, k) = RowOf(OfferAt(c, b, j, k), c, key)
         /\ OfferAt(c, b, j, k).time = Missing
            \/ \E n \in Nat : OfferAt(c, b, j, k).time = <<n>>
         /\ OfferAt(c, b, j, k).line = Missing
            \/ \E n \in Int : OfferAt(c, b, j, k).line = <<n>>
         /\ OfferAt(c, b, j, k).line =
              CanonicalLine(key, OfferAt(c, b, j, k).side, OfferAt(c, b, j, k).point, c.home)
         /\ OfferAt(c, b, j, k).eligible =
              CalculationEligible(c.books[b].markets[j])
<1> DEFINE market == c.books[b].markets[j]
           quote == market.outcomes[k]
           o == OfferAt(c, b, j, k)
           sent == IF market.stamp # Missing THEN market.stamp ELSE c.books[b].stamp
<1>1. /\ key \in {"spreads", "totals"} /\ c.at \in Nat /\ market.key = key
      /\ c.books[b].stamp = Missing \/ IsTime(c.books[b].stamp, c.at)
      /\ market.stamp = Missing \/ IsTime(market.stamp, c.at)
      /\ quote.point = Missing \/ \E n \in Int : quote.point = <<n>>
  BY DEF Comparable, IsQuote
<1>2. \A stamp : stamp = Missing \/ IsTime(stamp, c.at) => UsableTime(stamp, c.at) = stamp
  <2>1. ASSUME NEW stamp, IsTime(stamp, c.at)
        PROVE  UsableTime(stamp, c.at) = stamp
    <3>1. PICK n \in Nat : stamp = <<n>> /\ n - c.at <= FutureTolerance
      BY <2>1 DEF IsTime
    <3>2. stamp[1] = n
      BY <3>1
    <3>3. FutureTolerance \in Nat /\ c.at \in Nat
      BY <1>1, OddsAssumption
    <3>4. ~(stamp[1] - c.at > FutureTolerance)
      BY <3>1, <3>2, <3>3
    <3>5. QED
      BY <3>4 DEF UsableTime
  <2>2. UsableTime(Missing, c.at) = Missing
    BY DEF UsableTime
  <2>3. QED
    BY <2>1, <2>2
<1>3. MarketTime(c.books[b], market, c.at) = sent
  BY <1>1, <1>2 DEF MarketTime
<1>4. sent = Missing \/ \E n \in Nat : sent = <<n>>
  BY <1>1 DEF IsTime
<1>5. /\ o.book = b /\ o.order = <<j, k>> /\ o.side = quote.name /\ o.price = quote.price
      /\ o.point = quote.point /\ o.time = sent /\ o.eligible = CalculationEligible(market)
      /\ o.line = CanonicalLine(key, quote.name, quote.point, c.home)
  BY <1>1, <1>3 DEF OfferAt
<1>6. SnapshotRow(c, b, j, k) = RowOf(o, c, key)
  BY <1>1, <1>5 DEF SnapshotRow, RowOf
<1>7. o.line = Missing \/ \E n \in Int : o.line = <<n>>
  <2>1. CASE quote.point = Missing
    BY <1>1, <1>5, <2>1 DEF CanonicalLine
  <2>2. ASSUME NEW n \in Int, quote.point = <<n>>
        PROVE  o.line = Missing \/ \E m \in Int : o.line = <<m>>
    <3>1. quote.point[1] = n
      BY <2>2
    <3>2. o.line \in {Missing, quote.point, <<-quote.point[1]>>}
      BY <1>1, <1>5 DEF CanonicalLine
    <3>3. -n \in Int
      BY <2>2
    <3>4. QED
      BY <2>2, <3>1, <3>2, <3>3
  <2>3. QED
    BY <1>1, <2>1, <2>2
<1> HIDE DEF sent, o, market, quote
<1>8. QED
  BY <1>4, <1>5, <1>6, <1>7 DEF o, market

\* A side of a book's market is quoted once.
LEMMA QuotesDiffer ==
  ASSUME NEW c, NEW key, Comparable(c, key),
         NEW b, NEW j, NEW k, IsQuote(c, key, b, j, k),
         NEW l, NEW m, IsQuote(c, key, b, l, m),
         c.books[b].markets[j].outcomes[k].name = c.books[b].markets[l].outcomes[m].name
  PROVE  j = l /\ k = m
BY DEF Comparable, IsQuote

\* The offers with a line that can be used, and the rows they are stored as.
LEMMA ValidAre ==
  ASSUME NEW c, NEW key, Comparable(c, key)
  PROVE  /\ \A o : o \in Valid(MarketOffers(c, key)) <=>
              \E b, j, k : /\ IsQuote(c, key, b, j, k) /\ o = OfferAt(c, b, j, k)
                           /\ CalculationEligible(c.books[b].markets[j])
                           /\ IsAmerican(o.price) /\ o.line # Missing
         /\ \A o, p \in MarketOffers(c, key) : (o.book = p.book /\ o.side = p.side) => o = p
         /\ \A o \in MarketOffers(c, key) :
              /\ \E n \in Int : o.line = <<n>>
              /\ o.time = Missing \/ \E n \in Nat : o.time = <<n>>
              /\ o.book \in DOMAIN c.books
         /\ \A o \in Valid(MarketOffers(c, key)) :
              o.side \in AllowedNames(key) /\ o \in MarketOffers(c, key)
<1>1. ASSUME NEW o \in AllOffers(c, key)
      PROVE  \E b, j, k : IsQuote(c, key, b, j, k) /\ o = OfferAt(c, b, j, k)
  BY <1>1, OffersAreQuotes
<1>2. MarketOffers(c, key) = {o \in AllOffers(c, key) : o.line # Missing}
  BY DEF MarketOffers
<1>3. ASSUME NEW b, NEW j, NEW k, IsQuote(c, key, b, j, k)
      PROVE  /\ OfferAt(c, b, j, k).book = b
             /\ OfferAt(c, b, j, k).side = c.books[b].markets[j].outcomes[k].name
             /\ OfferAt(c, b, j, k).eligible = CalculationEligible(c.books[b].markets[j])
             /\ CalculationEligible(c.books[b].markets[j]) =>
                  /\ OfferAt(c, b, j, k).side \in AllowedNames(key)
                  /\ OfferAt(c, b, j, k) \in AllOffers(c, key)
  <2>1. /\ OfferAt(c, b, j, k).book = b
        /\ OfferAt(c, b, j, k).side = c.books[b].markets[j].outcomes[k].name
    BY DEF OfferAt
  <2>2. OfferAt(c, b, j, k).eligible = CalculationEligible(c.books[b].markets[j])
    BY <1>3, RowsAreOfOffers
  <2>3. CalculationEligible(c.books[b].markets[j]) =>
           c.books[b].markets[j].outcomes[k].name \in AllowedNames(key)
    BY <1>3 DEF CalculationEligible, IsQuote
  <2>4. QED
    BY <1>3, <2>1, <2>2, <2>3, OffersAreQuotes
<1>4. \A o : o \in Valid(MarketOffers(c, key)) <=>
              \E b, j, k : /\ IsQuote(c, key, b, j, k) /\ o = OfferAt(c, b, j, k)
                           /\ CalculationEligible(c.books[b].markets[j])
                           /\ IsAmerican(o.price) /\ o.line # Missing
  <2>1. ASSUME NEW o \in Valid(MarketOffers(c, key))
        PROVE  \E b, j, k : /\ IsQuote(c, key, b, j, k) /\ o = OfferAt(c, b, j, k)
                            /\ CalculationEligible(c.books[b].markets[j])
                            /\ IsAmerican(o.price) /\ o.line # Missing
    <3>1. o \in AllOffers(c, key) /\ o.line # Missing /\ o.eligible /\ IsAmerican(o.price)
      BY <1>2, <2>1 DEF Valid
    <3>2. PICK b, j, k : IsQuote(c, key, b, j, k) /\ o = OfferAt(c, b, j, k)
      BY <1>1, <3>1
    <3>3. QED
      BY <1>3, <3>1, <3>2
  <2>2. ASSUME NEW b, NEW j, NEW k, IsQuote(c, key, b, j, k),
               CalculationEligible(c.books[b].markets[j]),
               IsAmerican(OfferAt(c, b, j, k).price), OfferAt(c, b, j, k).line # Missing
        PROVE  OfferAt(c, b, j, k) \in Valid(MarketOffers(c, key))
    BY <1>2, <1>3, <2>2 DEF Valid
  <2>3. QED
    BY <2>1, <2>2
<1>5. ASSUME NEW o \in MarketOffers(c, key), NEW p \in MarketOffers(c, key),
             o.book = p.book, o.side = p.side
      PROVE  o = p
  <2>1. PICK b, j, k : IsQuote(c, key, b, j, k) /\ o = OfferAt(c, b, j, k)
    BY <1>1, <1>2, <1>5
  <2>2. PICK d, l, m : IsQuote(c, key, d, l, m) /\ p = OfferAt(c, d, l, m)
    BY <1>1, <1>2, <1>5
  <2>3. d = b
    BY <1>3, <1>5, <2>1, <2>2
  <2>4. j = l /\ k = m
    BY <1>3, <1>5, <2>1, <2>2, <2>3, QuotesDiffer
  <2>5. QED
    BY <2>1, <2>2, <2>3, <2>4
<1>6. ASSUME NEW o \in MarketOffers(c, key)
      PROVE  /\ \E n \in Int : o.line = <<n>>
             /\ o.time = Missing \/ \E n \in Nat : o.time = <<n>>
             /\ o.book \in DOMAIN c.books
  <2>1. PICK b, j, k : IsQuote(c, key, b, j, k) /\ o = OfferAt(c, b, j, k)
    BY <1>1, <1>2, <1>6
  <2>2. o.line # Missing
    BY <1>2, <1>6
  <2>3. o.book \in DOMAIN c.books
    BY <1>3, <2>1 DEF IsQuote
  <2>4. QED
    BY <2>1, <2>2, <2>3, RowsAreOfOffers
<1>7. \A o \in Valid(MarketOffers(c, key)) :
         o.side \in AllowedNames(key) /\ o \in MarketOffers(c, key)
  BY <1>3, <1>4 DEF Valid
<1>8. QED
  BY <1>4, <1>5, <1>6, <1>7

LEMMA SelectedAreValid ==
  ASSUME NEW c, NEW key, Comparable(c, key), NEW rows,
         \A r : r \in rows <=>
            \E b, j, k : IsQuote(c, key, b, j, k) /\ r = SnapshotRow(c, b, j, k)
  PROVE  {r \in SelectedRows(rows, key) : HistoryLine(r, c.home) # Missing}
            = {RowOf(o, c, key) : o \in Valid(MarketOffers(c, key))}
<1>1. ASSUME NEW b, NEW j, NEW k, IsQuote(c, key, b, j, k)
      PROVE  /\ SnapshotRow(c, b, j, k).book = b /\ SnapshotRow(c, b, j, k).at = c.at
             /\ SnapshotRow(c, b, j, k).name = c.books[b].markets[j].outcomes[k].name
             /\ SnapshotRow(c, b, j, k).price = OfferAt(c, b, j, k).price
             /\ SnapshotRow(c, b, j, k) = RowOf(OfferAt(c, b, j, k), c, key)
             /\ HistoryLine(SnapshotRow(c, b, j, k), c.home) = OfferAt(c, b, j, k).line
             /\ SnapshotRow(c, b, j, k) \in rows
  <2>1. SnapshotRow(c, b, j, k) = RowOf(OfferAt(c, b, j, k), c, key)
    BY <1>1, RowsAreOfOffers
  <2>2. HistoryLine(RowOf(OfferAt(c, b, j, k), c, key), c.home) = OfferAt(c, b, j, k).line
    BY <1>1, RowsAreOfOffers DEF HistoryLine, RowOf
  <2>3. OfferAt(c, b, j, k).price = c.books[b].markets[j].outcomes[k].price
    BY DEF OfferAt
  <2>4. QED
    BY <1>1, <2>1, <2>2, <2>3 DEF SnapshotRow
<1>2. ASSUME NEW r \in rows, NEW s \in rows, r.book = s.book, r.name = s.name
      PROVE  r = s
  <2>1. PICK b, j, k : IsQuote(c, key, b, j, k) /\ r = SnapshotRow(c, b, j, k)
    BY <1>2
  <2>2. PICK d, l, m : IsQuote(c, key, d, l, m) /\ s = SnapshotRow(c, d, l, m)
    BY <1>2
  <2>3. d = b
    BY <1>1, <1>2, <2>1, <2>2
  <2>4. j = l /\ k = m
    BY <1>1, <1>2, <2>1, <2>2, <2>3, QuotesDiffer
  <2>5. QED
    BY <2>1, <2>2, <2>3, <2>4
<1>3. ASSUME NEW b, NEW j, NEW k, IsQuote(c, key, b, j, k)
      PROVE  SnapshotRow(c, b, j, k) \in EligibleRows(rows, key)
                <=> CalculationEligible(c.books[b].markets[j])
  <2>1. key # "h2h" /\ c.books[b].markets[j].key = key
    BY <1>3 DEF Comparable, IsQuote
  <2>2. ASSUME CalculationEligible(c.books[b].markets[j]), NEW other \in rows,
               other.book = b
        PROVE  other.name \in AllowedNames(key)
    <3>1. PICK d, l, m : IsQuote(c, key, d, l, m) /\ other = SnapshotRow(c, d, l, m)
      BY <2>2
    <3>2. d = b /\ other.name = c.books[d].markets[l].outcomes[m].name
      BY <1>1, <2>2, <3>1
    <3>3. l = j
      BY <1>3, <3>1, <3>2 DEF Comparable, IsQuote
    <3>4. QED
      BY <2>1, <2>2, <3>1, <3>2, <3>3 DEF CalculationEligible, IsQuote
  <2>3. ASSUME NEW m \in DOMAIN c.books[b].markets[j].outcomes,
               \A other \in rows : (other.book = b /\ other.at = c.at) =>
                  other.name \in AllowedNames(key)
        PROVE  c.books[b].markets[j].outcomes[m].name \in AllowedNames(key)
    <3>1. IsQuote(c, key, b, j, m)
      BY <1>3, <2>3 DEF IsQuote
    <3>2. QED
      BY <1>1, <2>3, <3>1
  <2>4. (\A other \in rows : (other.book = b /\ other.at = c.at) =>
                               other.name \in AllowedNames(key))
           <=> CalculationEligible(c.books[b].markets[j])
    BY <2>1, <2>2, <2>3 DEF CalculationEligible
  <2>5. SnapshotRow(c, b, j, k) \in rows /\ SnapshotRow(c, b, j, k).book = b
        /\ SnapshotRow(c, b, j, k).at = c.at
    BY <1>1, <1>3
  <2>6. QED
    BY <2>1, <2>4, <2>5 DEF EligibleRows
<1>4. SelectedRows(rows, key) = {r \in EligibleRows(rows, key) : IsAmerican(r.price)}
  BY <1>2 DEF SelectedRows, EligibleRows, SameOffer
<1>5. ASSUME NEW r
      PROVE  (r \in SelectedRows(rows, key) /\ HistoryLine(r, c.home) # Missing)
                <=> \E o \in Valid(MarketOffers(c, key)) : r = RowOf(o, c, key)
  <2>1. ASSUME r \in SelectedRows(rows, key), HistoryLine(r, c.home) # Missing
        PROVE  \E o \in Valid(MarketOffers(c, key)) : r = RowOf(o, c, key)
    <3>1. r \in EligibleRows(rows, key) /\ r \in rows /\ IsAmerican(r.price)
      BY <1>4, <2>1 DEF EligibleRows
    <3>2. PICK b, j, k : IsQuote(c, key, b, j, k) /\ r = SnapshotRow(c, b, j, k)
      BY <3>1
    <3>3. /\ CalculationEligible(c.books[b].markets[j]) /\ IsAmerican(OfferAt(c, b, j, k).price)
          /\ OfferAt(c, b, j, k).line # Missing /\ r = RowOf(OfferAt(c, b, j, k), c, key)
      BY <1>1, <1>3, <2>1, <3>1, <3>2
    <3>4. OfferAt(c, b, j, k) \in Valid(MarketOffers(c, key))
      BY <3>2, <3>3, ValidAre
    <3>5. QED
      BY <3>3, <3>4
  <2>2. ASSUME NEW o \in Valid(MarketOffers(c, key)), r = RowOf(o, c, key)
        PROVE  r \in SelectedRows(rows, key) /\ HistoryLine(r, c.home) # Missing
    <3>1. PICK b, j, k : /\ IsQuote(c, key, b, j, k) /\ o = OfferAt(c, b, j, k)
                         /\ CalculationEligible(c.books[b].markets[j])
                         /\ IsAmerican(o.price) /\ o.line # Missing
      BY <2>2, ValidAre
    <3>2. r = SnapshotRow(c, b, j, k) /\ IsAmerican(r.price)
      BY <1>1, <2>2, <3>1
    <3>3. QED
      BY <1>1, <1>3, <1>4, <3>1, <3>2
  <2>3. QED
    BY <2>1, <2>2
<1>6. QED
  BY <1>5

(***************************************************************************)
(* What either computation comes to, as a function of the usable offers.   *)
(***************************************************************************)
OfBook(S, b)   == {x \in S : x.book = b}
ForBook(S, b)  == CHOOSE x \in S : x.book = b
Named(S, n)    == {r \in S : r.name = n}
OffersOn(V, l) == {o \in V : o.line = <<l>>}
LinesIn(V)     == {o.line[1] : o \in V}
BooksOn(V, l)  == {o.book : o \in OffersOn(V, l)}
TimedOn(V, l)  == {o \in OffersOn(V, l) : o.time # Missing}
TimesOn(V, l)  == [b \in {o.book : o \in TimedOn(V, l)} |->
                     Greatest({o.time[1] : o \in OfBook(TimedOn(V, l), b)})]
MostOf(V)      == {l \in LinesIn(V) : \A k \in LinesIn(V) :
                     Cardinality(BooksOn(V, k)) <= Cardinality(BooksOn(V, l))}
PrimaryOf(V)   == Least(NewestAmong([l \in MostOf(V) |-> TimesOn(V, l)]))
SideOn(V, l, s) == {o \in OffersOn(V, l) : o.side = s}
QuotedOn(V, l, s) == [b \in {o.book : o \in SideOn(V, l, s)} |->
                        Probability(ForBook(SideOn(V, l, s), b).price)]
Decision(V) ==
  IF V = {} THEN [primary |-> Missing, consensus |-> Missing]
  ELSE [ primary |-> <<PrimaryOf(V)>>,
         consensus |-> [s \in {o.side : o \in OffersOn(V, PrimaryOf(V))} |->
                          <<TwiceMedian(QuotedOn(V, PrimaryOf(V), s))>>] ]

\* The history, from the rows the usable offers are stored as.
LEMMA HistoryComesTo ==
  ASSUME NEW c, NEW key, Comparable(c, key), NEW rows,
         \A r : r \in rows <=>
            \E b, j, k : IsQuote(c, key, b, j, k) /\ r = SnapshotRow(c, b, j, k)
  PROVE  PrimaryMovement(rows, c.home, key) = Decision(Valid(MarketOffers(c, key)))
<1> DEFINE V         == Valid(MarketOffers(c, key))
           Stored(S) == {RowOf(o, c, key) : o \in S}
           selected  == {r \in SelectedRows(rows, key) : HistoryLine(r, c.home) # Missing}
           lines     == {HistoryLine(r, c.home)[1] : r \in selected}
           on(l)     == {r \in selected : HistoryLine(r, c.home) = <<l>>}
           books(l)  == {r.book : r \in on(l)}
           known(l)  == {r \in on(l) : r.time # Missing}
           times(l)  == [b \in {r.book : r \in known(l)} |->
                           Greatest({r.time[1] : r \in OfBook(known(l), b)})]
           most      == {l \in lines : \A k \in lines :
                           Cardinality(books(k)) <= Cardinality(books(l))}
           newest    == [l \in most |-> times(l)]
           primary   == Least(NewestAmong(newest))
           quotes(s) == Named(on(primary), s)
           said(s)   == [b \in {r.book : r \in quotes(s)} |->
                           Probability(ForBook(quotes(s), b).price)]
           sides     == {r.name : r \in on(primary)}
<1>1. PrimaryMovement(rows, c.home, key) =
        IF lines = {} THEN [primary |-> Missing, consensus |-> Missing]
        ELSE [primary |-> <<primary>>,
              consensus |-> [s \in sides |-> <<TwiceMedian(said(s))>>]]
  BY DEF PrimaryMovement, OfBook, ForBook, Named
<1>2. selected = Stored(V)
  BY SelectedAreValid
<1>3. ASSUME NEW o \in V
      PROVE  /\ HistoryLine(RowOf(o, c, key), c.home) = o.line
             /\ RowOf(o, c, key).book = o.book /\ RowOf(o, c, key).name = o.side
             /\ RowOf(o, c, key).price = o.price /\ RowOf(o, c, key).time = o.time
  <2>1. PICK b, j, k : IsQuote(c, key, b, j, k) /\ o = OfferAt(c, b, j, k)
    BY <1>3, ValidAre
  <2>2. o.line = CanonicalLine(key, o.side, o.point, c.home)
    BY <2>1, RowsAreOfOffers
  <2>3. QED
    BY <2>2 DEF RowOf, HistoryLine
<1> HIDE DEF V, selected
<1>4. ASSUME NEW S, S \subseteq V
      PROVE  /\ {r.book : r \in Stored(S)} = {o.book : o \in S}
             /\ {r.name : r \in Stored(S)} = {o.side : o \in S}
             /\ {r \in Stored(S) : r.time # Missing} = Stored({o \in S : o.time # Missing})
             /\ \A b : OfBook(Stored(S), b) = Stored(OfBook(S, b))
             /\ \A n : Named(Stored(S), n) = Stored({o \in S : o.side = n})
             /\ {r.time[1] : r \in Stored(S)} = {o.time[1] : o \in S}
  <2>1. \A o \in S : /\ RowOf(o, c, key).book = o.book /\ RowOf(o, c, key).name = o.side
                     /\ RowOf(o, c, key).time = o.time
    BY <1>3, <1>4
  <2>2. \A r : r \in Stored(S) <=> \E o \in S : r = RowOf(o, c, key)
    OBVIOUS
  <2>3. {r.book : r \in Stored(S)} = {o.book : o \in S}
    BY <2>1, <2>2
  <2>4. {r.name : r \in Stored(S)} = {o.side : o \in S}
    BY <2>1, <2>2
  <2>5. {r \in Stored(S) : r.time # Missing} = Stored({o \in S : o.time # Missing})
    BY <2>1
  <2>6. \A b : OfBook(Stored(S), b) = Stored(OfBook(S, b))
    BY <2>1 DEF OfBook
  <2>7. \A n : Named(Stored(S), n) = Stored({o \in S : o.side = n})
    BY <2>1 DEF Named
  <2>8. {r.time[1] : r \in Stored(S)} = {o.time[1] : o \in S}
    BY <2>1, <2>2
  <2>9. QED
    BY <2>3, <2>4, <2>5, <2>6, <2>7, <2>8
<1>5. lines = LinesIn(V)
  BY <1>2, <1>3 DEF LinesIn
<1>6. \A l : on(l) = Stored(OffersOn(V, l)) /\ OffersOn(V, l) \subseteq V
  BY <1>2, <1>3 DEF OffersOn
<1> HIDE DEF on, lines, Stored
<1>7. \A l : /\ books(l) = BooksOn(V, l)
            /\ known(l) = Stored(TimedOn(V, l)) /\ TimedOn(V, l) \subseteq V
  BY <1>4, <1>6 DEF BooksOn, TimedOn
<1>8. most = MostOf(V)
  BY <1>5, <1>7 DEF MostOf
<1> HIDE DEF books, known
<1>9. ASSUME NEW l
      PROVE  times(l) = TimesOn(V, l)
  <2>1. {r.book : r \in known(l)} = {o.book : o \in TimedOn(V, l)}
    BY <1>4, <1>7
  <2>2. ASSUME NEW b
        PROVE  {r.time[1] : r \in OfBook(known(l), b)}
                 = {o.time[1] : o \in OfBook(TimedOn(V, l), b)}
    <3>1. OfBook(known(l), b) = Stored(OfBook(TimedOn(V, l), b))
      BY <1>4, <1>7
    <3>2. OfBook(TimedOn(V, l), b) \subseteq V
      BY <1>7 DEF OfBook
    <3>3. QED
      BY <1>4, <3>1, <3>2
  <2>3. QED
    BY <2>1, <2>2 DEF TimesOn
<1> HIDE DEF times, most
<1>10. newest = [l \in MostOf(V) |-> TimesOn(V, l)]
  BY <1>8, <1>9
<1>11. primary = PrimaryOf(V)
  BY <1>10 DEF PrimaryOf
<1> HIDE DEF newest, primary
<1>12. sides = {o.side : o \in OffersOn(V, PrimaryOf(V))}
  BY <1>4, <1>6, <1>11
<1>13. ASSUME NEW s
       PROVE  said(s) = QuotedOn(V, PrimaryOf(V), s)
  <2> DEFINE offers == SideOn(V, PrimaryOf(V), s)
  <2>1. quotes(s) = Stored(offers) /\ offers \subseteq V
    <3>1. on(primary) = Stored(OffersOn(V, PrimaryOf(V))) /\ OffersOn(V, PrimaryOf(V)) \subseteq V
      BY <1>6, <1>11
    <3>2. Named(on(primary), s) = Stored({o \in OffersOn(V, PrimaryOf(V)) : o.side = s})
      BY <1>4, <3>1
    <3>3. QED
      BY <3>1, <3>2 DEF SideOn
  <2> HIDE DEF offers
  <2>2. {r.book : r \in quotes(s)} = {o.book : o \in offers}
    BY <1>4, <2>1
  <2> HIDE DEF quotes
  <2>3. ASSUME NEW o \in offers
        PROVE  ForBook(quotes(s), o.book).price = ForBook(offers, o.book).price
    <3>1. \A p \in offers : p.book = o.book => p = o
      <4>1. \A p \in offers : p.side = s /\ p \in MarketOffers(c, key)
        BY <2>1, ValidAre DEF SideOn, offers, V
      <4>2. QED
        BY <2>3, <4>1, ValidAre
    <3>2. ForBook(offers, o.book) = o
      BY <2>3, <3>1 DEF ForBook
    <3>3. RowOf(o, c, key) \in quotes(s) /\ RowOf(o, c, key).book = o.book
      BY <1>3, <2>1, <2>3 DEF Stored
    <3>4. ASSUME NEW r \in quotes(s), r.book = o.book
          PROVE  r = RowOf(o, c, key)
      <4>1. PICK p \in offers : r = RowOf(p, c, key)
        BY <2>1, <3>4 DEF Stored
      <4>2. p \in V
        BY <2>1
      <4>3. RowOf(p, c, key).book = p.book
        BY <1>3, <4>2
      <4>4. QED
        BY <3>1, <3>4, <4>1, <4>3
    <3>5. ForBook(quotes(s), o.book) = RowOf(o, c, key)
      BY <3>3, <3>4 DEF ForBook
    <3>6. RowOf(o, c, key).price = o.price
      BY <1>3, <2>1, <2>3
    <3>7. QED
      BY <3>2, <3>5, <3>6
  <2>4. \A b \in {o.book : o \in offers} :
          ForBook(quotes(s), b).price = ForBook(offers, b).price
    BY <2>3
  <2>5. said(s) = [b \in {o.book : o \in offers} |-> Probability(ForBook(offers, b).price)]
    BY <2>2, <2>4
  <2>6. QED
    BY <2>5 DEF QuotedOn, offers
<1> HIDE DEF said, sides
<1>14. [s \in sides |-> <<TwiceMedian(said(s))>>]
         = [s \in {o.side : o \in OffersOn(V, PrimaryOf(V))} |->
              <<TwiceMedian(QuotedOn(V, PrimaryOf(V), s))>>]
  BY <1>12, <1>13
<1>15. (lines = {}) <=> (V = {})
  BY <1>5 DEF LinesIn
<1>16. QED
  BY <1>1, <1>11, <1>14, <1>15 DEF Decision, V

\* The usable offers are finitely many, and so are their lines; some line has
\* most of the books, and a single one is the newest of its kind.
LEMMA LinesAreFinite ==
  ASSUME NEW c, NEW key, Comparable(c, key)
  PROVE  LET V == Valid(MarketOffers(c, key))
         IN  /\ IsFiniteSet(LinesIn(V))
             /\ V # {} => MostOf(V) # {}
             /\ \A l : IsFiniteSet(DOMAIN TimesOn(V, l))
                       /\ \A b \in DOMAIN TimesOn(V, l) : TimesOn(V, l)[b] \in Nat
<1> DEFINE V == Valid(MarketOffers(c, key))
           D == DOMAIN c.books
           Names == AllowedNames(key)
           N == Cardinality(D)
<1>1. /\ \A o \in V : /\ \E n \in Int : o.line = <<n>>
                      /\ o.time = Missing \/ \E n \in Nat : o.time = <<n>>
                      /\ o.book \in D /\ o.side \in Names
      /\ \A o, p \in V : (o.book = p.book /\ o.side = p.side) => o = p
  BY ValidAre
<1> HIDE DEF V
<1>2. IsFiniteSet(D) /\ N \in Nat
  BY FS_CardinalityType DEF Comparable
<1>3. IsFiniteSet(V)
  <2> DEFINE at == [o \in V |-> <<o.book, o.side>>]
  <2>1. at \in Injection(V, D \X Names)
    <3>1. at \in [V -> D \X Names]
      BY <1>1
    <3>2. \A o, p \in V : at[o] = at[p] => o = p
      BY <1>1
    <3>3. QED
      BY <3>1, <3>2 DEF Injection, IsInjective
  <2>2. IsFiniteSet(D \X Names)
    <3>1. Names = {"Over", "Under"} \/ Names = {"t1", "t2"}
      BY DEF AllowedNames
    <3>2. ASSUME NEW x, NEW y
          PROVE  IsFiniteSet({x, y})
      <4>1. IsFiniteSet({x} \cup {y})
        BY FS_Singleton, FS_AddElement
      <4>2. {x, y} = {x} \cup {y}
        OBVIOUS
      <4>3. QED
        BY <4>1, <4>2
    <3>3. QED
      BY <1>2, <3>1, <3>2, FS_Product
  <2>3. QED
    BY <2>1, <2>2, FS_Injection
<1>4. IsFiniteSet(LinesIn(V))
  <2> DEFINE f == [o \in V |-> o.line[1]]
  <2>1. f \in [V -> LinesIn(V)]
    BY DEF LinesIn
  <2>2. \A l \in LinesIn(V) : \E o \in V : f[o] = l
    BY DEF LinesIn
  <2>3. f \in Surjection(V, LinesIn(V))
    BY <2>1, <2>2 DEF Surjection
  <2>4. QED
    BY <1>3, <2>3, FS_Surjection
<1>5. \A l : BooksOn(V, l) \subseteq D /\ Cardinality(BooksOn(V, l)) \in 0 .. N
  <2>1. \A l : BooksOn(V, l) \subseteq D
    BY <1>1 DEF BooksOn, OffersOn
  <2>2. ASSUME NEW l PROVE Cardinality(BooksOn(V, l)) \in 0 .. N
    <3>1. IsFiniteSet(BooksOn(V, l)) /\ Cardinality(BooksOn(V, l)) <= N
      BY <1>2, <2>1, FS_Subset
    <3>2. Cardinality(BooksOn(V, l)) \in Nat
      BY <3>1, FS_CardinalityType
    <3>3. QED
      BY <1>2, <3>1, <3>2
  <2>3. QED
    BY <2>1, <2>2
<1>6. ASSUME V # {} PROVE MostOf(V) # {}
  <2> DEFINE sizes == {Cardinality(BooksOn(V, l)) : l \in LinesIn(V)}
  <2>1. sizes \in SUBSET Nat /\ sizes \subseteq 0 .. N /\ sizes # {}
    BY <1>2, <1>5, <1>6 DEF LinesIn
  <2>2. IsFiniteSet(0 .. N)
    BY <1>2, FS_Interval
  <2>3. IsFiniteSet(sizes)
    BY <2>1, <2>2, FS_Subset
  <2>4. PICK n \in sizes : \A k \in sizes : k <= n
    BY <2>1, <2>3, SomeGreatest
  <2>5. PICK l \in LinesIn(V) : n = Cardinality(BooksOn(V, l))
    BY <2>4
  <2>6. l \in MostOf(V)
    BY <2>4, <2>5 DEF MostOf
  <2>7. QED
    BY <2>6
<1>7. ASSUME NEW l
      PROVE  /\ IsFiniteSet(DOMAIN TimesOn(V, l))
             /\ \A b \in DOMAIN TimesOn(V, l) : TimesOn(V, l)[b] \in Nat
  <2>1. DOMAIN TimesOn(V, l) = {o.book : o \in TimedOn(V, l)}
    BY DEF TimesOn
  <2>2. DOMAIN TimesOn(V, l) \subseteq D
    BY <1>1, <2>1 DEF TimedOn, OffersOn
  <2>3. ASSUME NEW b \in DOMAIN TimesOn(V, l)
        PROVE  TimesOn(V, l)[b] \in Nat
    <3> DEFINE mine == OfBook(TimedOn(V, l), b)
               times == {o.time[1] : o \in mine}
    <3>1. mine \subseteq V /\ mine # {} /\ \A o \in mine : o.time # Missing
      BY <2>1, <2>3 DEF TimedOn, OffersOn, OfBook
    <3>2. \A o \in mine : o.time[1] \in Nat
      BY <1>1, <3>1
    <3>3. IsFiniteSet(times)
      <4> DEFINE f == [o \in mine |-> o.time[1]]
      <4> HIDE DEF mine
      <4>1. f \in [mine -> times]
        OBVIOUS
      <4>2. \A t \in times : \E o \in mine : f[o] = t
        OBVIOUS
      <4>3. f \in Surjection(mine, times)
        BY <4>1, <4>2 DEF Surjection
      <4>4. IsFiniteSet(mine)
        BY <1>3, <3>1, FS_Subset
      <4>5. QED
        BY <4>3, <4>4, FS_Surjection
    <3>4. \E n \in times : \A k \in times : k <= n
      <4> HIDE DEF mine
      <4>1. times \in SUBSET Nat /\ times # {}
        BY <3>1, <3>2
      <4> HIDE DEF times
      <4>2. QED
        BY <3>3, <4>1, SomeGreatest
    <3>5. Greatest(times) \in times
      BY <3>4 DEF Greatest
    <3>6. TimesOn(V, l)[b] = Greatest(times)
      BY <2>1, <2>3 DEF TimesOn
    <3>7. QED
      BY <3>2, <3>5, <3>6
  <2>4. QED
    BY <1>2, <2>2, <2>3, FS_Subset
<1>8. QED
  BY <1>4, <1>6, <1>7 DEF V

\* What the payload's computation takes of one side of a line.
PricedOn(V, l, s) == [b \in {o.book : o \in SideOn(V, l, s)} |-> ForBook(SideOn(V, l, s), b).price]

LEMMA PricesAreQuoted ==
  ASSUME NEW c, NEW key, Comparable(c, key), NEW l, NEW s
  PROVE  PricesByBook(MarketOffers(c, key), <<l>>, s) = PricedOn(Valid(MarketOffers(c, key)), l, s)
<1> DEFINE offers == MarketOffers(c, key)
           here   == {o \in offers : o.line = <<l>> /\ o.side = s}
           chosen == {ChooseOffer(OfBook(here, b)) : b \in {o.book : o \in here}}
<1>1. \A o, p \in offers : (o.book = p.book /\ o.side = p.side) => o = p
  BY ValidAre
<1>2. PricesByBook(offers, <<l>>, s) =
        [b \in {o.book : o \in Valid(chosen)} |-> ForBook(Valid(chosen), b).price]
  BY DEF PricesByBook, OfBook, ForBook
<1>3. Valid(here) = SideOn(Valid(offers), l, s)
  BY DEF Valid, SideOn, OffersOn
<1>4. \A o, p \in here : o.book = p.book => o = p
  BY <1>1
<1> HIDE DEF offers, here
<1>5. ASSUME NEW o \in here
      PROVE  ChooseOffer(OfBook(here, o.book)) = o
  <2>1. OfBook(here, o.book) = {o}
    BY <1>4, <1>5 DEF OfBook
  <2>2. ChooseOffer({o}) = o
    BY DEF ChooseOffer
  <2>3. QED
    BY <2>1, <2>2
<1>6. chosen = here
  BY <1>5
<1>7. QED
  BY <1>2, <1>3, <1>6 DEF PricedOn, offers

\* The line both computations end with, from the lines most books quote.
LEMMA NewestOfOne ==
  ASSUME NEW f, NEW l, DOMAIN f = {l}, IsFiniteSet(DOMAIN f[l]),
         \A b \in DOMAIN f[l] : f[l][b] \in Nat
  PROVE  NewestAmong(f) = {l}
<1>1. CASE DOMAIN f[l] = {}
  BY <1>1 DEF NewestAmong
<1>2. CASE DOMAIN f[l] # {}
  <2>1. TwiceMedian(f[l]) \in Nat
    BY <1>2, MedianIsNumber
  <2>2. TwiceMedian(f[l]) <= TwiceMedian(f[l])
    BY <2>1
  <2>3. {k \in DOMAIN f : DOMAIN f[k] # {}} = {l}
    BY <1>2
  <2>4. QED
    BY <2>2, <2>3 DEF NewestAmong
<1>3. QED
  BY <1>1, <1>2

LEMMA LineIsPrimary ==
  ASSUME NEW c, NEW key, Comparable(c, key)
  PROVE  SelectPrimaryLine(MarketOffers(c, key)) =
            IF Valid(MarketOffers(c, key)) = {} THEN Missing
            ELSE <<PrimaryOf(Valid(MarketOffers(c, key)))>>
<1> DEFINE offers == MarketOffers(c, key)
           V == Valid(offers)
           quoted == {l \in LinesOf(offers) : LineBooks(offers, l) # {}}
<1>1. V \subseteq offers /\ \A o \in V : \E n \in Int : o.line = <<n>>
  BY ValidAre
<1>2. \A l : LineBooks(offers, l) = BooksOn(V, l) /\ LineTimes(offers, l) = TimesOn(V, l)
  <2>1. \A l : LineBooks(offers, l) = BooksOn(V, l)
    BY DEF LineBooks, BooksOn, OffersOn
  <2>2. ASSUME NEW l
        PROVE  LineTimes(offers, l) = TimesOn(V, l)
    <3>1. TimedOn(V, l) = {o \in V : o.line = <<l>> /\ o.time # Missing}
      BY DEF TimedOn, OffersOn
    <3>2. QED
      BY <3>1 DEF LineTimes, TimesOn, OfBook
  <2>3. QED
    BY <2>1, <2>2
<1> HIDE DEF V, offers
<1>3. quoted = LinesIn(V)
  <2>1. ASSUME NEW l \in LinesIn(V)
        PROVE  l \in LinesOf(offers) /\ BooksOn(V, l) # {}
    <3>1. PICK o \in V : l = o.line[1]
      BY <2>1 DEF LinesIn
    <3>2. o.line = <<l>>
      BY <1>1, <3>1
    <3>3. QED
      BY <1>1, <3>1, <3>2 DEF LinesOf, BooksOn, OffersOn
  <2>2. ASSUME NEW l, BooksOn(V, l) # {}
        PROVE  l \in LinesIn(V)
    <3>1. PICK o \in V : o.line = <<l>>
      BY <2>2 DEF BooksOn, OffersOn
    <3>2. o.line[1] = l
      BY <3>1
    <3>3. QED
      BY <3>2 DEF LinesIn
  <2>3. QED
    BY <1>2, <2>1, <2>2
<1>4. MostBooks(offers) = MostOf(V)
  BY <1>2, <1>3 DEF MostBooks, MostOf
<1>5. /\ IsFiniteSet(LinesIn(V))
      /\ V # {} => MostOf(V) # {}
      /\ \A l : IsFiniteSet(DOMAIN TimesOn(V, l))
                /\ \A b \in DOMAIN TimesOn(V, l) : TimesOn(V, l)[b] \in Nat
  BY LinesAreFinite DEF V, offers
<1>6. CASE V = {}
  <2>1. MostOf(V) = {}
    BY <1>6 DEF MostOf, LinesIn
  <2>2. QED
    BY <1>4, <1>6, <2>1 DEF SelectPrimaryLine, V, offers
<1>7. CASE V # {}
  <2> DEFINE times == [l \in MostOf(V) |-> TimesOn(V, l)]
  <2>1. times = [l \in MostOf(V) |-> LineTimes(offers, l)]
    BY <1>2
  <2>2. IsFiniteSet(MostOf(V)) /\ MostOf(V) # {}
    <3>1. MostOf(V) \subseteq LinesIn(V)
      BY DEF MostOf
    <3>2. QED
      BY <1>5, <1>7, <3>1, FS_Subset
  <2>3. ASSUME ~(Cardinality(MostOf(V)) > 1)
        PROVE  NewestAmong(times) = MostOf(V)
    <3>1. PICK l : l \in MostOf(V)
      BY <2>2
    <3>2. MostOf(V) = {l}
      <4>1. IsFiniteSet(MostOf(V) \ {l})
            /\ Cardinality(MostOf(V) \ {l}) = Cardinality(MostOf(V)) - 1
        BY <2>2, <3>1, FS_RemoveElement
      <4>2. Cardinality(MostOf(V)) \in Nat /\ Cardinality(MostOf(V) \ {l}) \in Nat
        BY <2>2, <4>1, FS_CardinalityType
      <4>3. Cardinality(MostOf(V) \ {l}) = 0
        BY <2>3, <4>1, <4>2
      <4>4. MostOf(V) \ {l} = {}
        BY <4>1, <4>3, FS_EmptySet
      <4>5. QED
        BY <3>1, <4>4
    <3>3. DOMAIN times = {l} /\ times[l] = TimesOn(V, l)
      BY <3>2
    <3> HIDE DEF times
    <3>4. QED
      BY <1>5, <3>2, <3>3, NewestOfOne
  <2> HIDE DEF times
  <2>4. SelectPrimaryLine(offers) = <<Least(NewestAmong(times))>>
    BY <1>4, <2>1, <2>2, <2>3 DEF SelectPrimaryLine
  <2>5. QED
    BY <1>7, <2>4 DEF PrimaryOf, times, V, offers
<1>8. QED
  BY <1>6, <1>7

\* The payload's computation.
LEMMA ProcessComesTo ==
  ASSUME NEW c, NEW key, Comparable(c, key)
  PROVE  ProcessMarket(c, key) = Decision(Valid(MarketOffers(c, key)))
<1> DEFINE offers  == MarketOffers(c, key)
           V       == Valid(offers)
           primary == SelectPrimaryLine(offers)
           sides   == {s \in {o.side : o \in offers} : PricesByBook(offers, primary, s) # Missing}
<1>1. ProcessMarket(c, key) =
        [primary |-> primary,
         consensus |-> [s \in sides |-> SummarizeOutcome(offers, primary, s).consensus]]
  BY DEF ProcessMarket
<1>2. CASE V = {}
  <2>1. primary = Missing
    BY <1>2, LineIsPrimary
  <2>2. ASSUME NEW s
        PROVE  PricesByBook(offers, Missing, s) = Missing
    <3> DEFINE here   == {o \in offers : o.line = Missing /\ o.side = s}
               chosen == {ChooseOffer(OfBook(here, b)) : b \in {o.book : o \in here}}
    <3>1. PricesByBook(offers, Missing, s) =
            [b \in {o.book : o \in Valid(chosen)} |-> ForBook(Valid(chosen), b).price]
      BY DEF PricesByBook, OfBook, ForBook
    <3>2. here = {}
      BY DEF MarketOffers
    <3> HIDE DEF here
    <3>3. Valid(chosen) = {}
      BY <3>2 DEF Valid
    <3> HIDE DEF chosen
    <3>4. [b \in {o.book : o \in Valid(chosen)} |-> ForBook(Valid(chosen), b).price] = <<>>
      BY <3>3
    <3>5. QED
      BY <3>1, <3>4 DEF Missing
  <2>3. sides = {}
    BY <2>1, <2>2
  <2> HIDE DEF sides, primary
  <2>4. [s \in sides |-> SummarizeOutcome(offers, primary, s).consensus] = Missing
    BY <2>3 DEF Missing
  <2>5. QED
    BY <1>1, <1>2, <2>1, <2>4 DEF Decision
<1>3. CASE V # {}
  <2> DEFINE p == PrimaryOf(V)
  <2>1. primary = <<p>>
    BY <1>3, LineIsPrimary
  <2>2. \A s : PricesByBook(offers, <<p>>, s) = PricedOn(V, p, s)
    BY PricesAreQuoted
  <2>3. \A s : DOMAIN PricedOn(V, p, s) = {o.book : o \in SideOn(V, p, s)}
    BY DEF PricedOn
  <2>4. \A s : PricedOn(V, p, s) # Missing <=> SideOn(V, p, s) # {}
    <3>1. ASSUME NEW s, SideOn(V, p, s) # {}
          PROVE  DOMAIN PricedOn(V, p, s) # {}
      <4>1. PICK o : o \in SideOn(V, p, s)
        BY <3>1
      <4>2. o.book \in DOMAIN PricedOn(V, p, s)
        BY <2>3, <4>1
      <4>3. QED
        BY <4>2
    <3>2. \A s : SideOn(V, p, s) = {} => PricedOn(V, p, s) = Missing
      BY DEF PricedOn, Missing
    <3>3. DOMAIN Missing = {}
      BY DEF Missing
    <3>4. QED
      BY <3>1, <3>2, <3>3
  <2>5. V \subseteq offers
    BY DEF Valid
  <2> HIDE DEF V, p, offers, primary
  <2>6. sides = {o.side : o \in OffersOn(V, p)}
    BY <2>1, <2>2, <2>4, <2>5 DEF SideOn, OffersOn
  <2>7. ASSUME NEW s \in sides
        PROVE  SummarizeOutcome(offers, primary, s).consensus = <<TwiceMedian(QuotedOn(V, p, s))>>
    <3>1. PICK o : o \in SideOn(V, p, s)
      BY <2>1, <2>2, <2>4, <2>7
    <3>2. o.book \in DOMAIN PricedOn(V, p, s)
      BY <2>3, <3>1
    <3>3. ImpliedProbabilities(PricedOn(V, p, s)) = QuotedOn(V, p, s)
      BY <2>3 DEF ImpliedProbabilities, QuotedOn, PricedOn
    <3>4. SummarizeOutcome(offers, primary, s).consensus =
            IF DOMAIN PricedOn(V, p, s) # {}
              THEN <<TwiceMedian(ImpliedProbabilities(PricedOn(V, p, s)))>> ELSE Missing
      BY <2>1, <2>2 DEF SummarizeOutcome
    <3>5. QED
      BY <3>2, <3>3, <3>4
  <2> HIDE DEF sides
  <2>8. [s \in sides |-> SummarizeOutcome(offers, primary, s).consensus] =
          [s \in {o.side : o \in OffersOn(V, p)} |-> <<TwiceMedian(QuotedOn(V, p, s))>>]
    BY <2>6, <2>7
  <2>9. QED
    BY <1>1, <1>3, <2>1, <2>8 DEF Decision, p, V, offers
<1>4. QED
  BY <1>2, <1>3

(***************************************************************************)
(* What the report of a capture says of a market is what the stored        *)
(* history shows for it, in the capture's own run and in every later one,  *)
(* however many books there are and whatever they quote: the same primary  *)
(* line, and the same consensus probability of each of its sides           *)
(* (process_game and _primary_market_movement).  It is asked that a book   *)
(* has one market of the kind and quotes a side once, that no time lies    *)
(* beyond the tolerance, that the captures have their own times, and that  *)
(* the teams are still those of the capture.                               *)
(***************************************************************************)
THEOREM HistoryShowsDecisions ==
  ASSUME NEW all, NEW key, NEW i \in DOMAIN all, Comparable(all[i], key),
         \A n \in DOMAIN all : all[n].at = all[i].at => n = i,
         PresentHome(all) = all[i].home
  PROVE  ProcessMarket(all[i], key) = ShownAt(all, key, all[i].at)
<1> DEFINE c     == all[i]
           V     == Valid(MarketOffers(c, key))
           rows  == {r \in OddsHistory(all) : r.market = key}
           at(t) == PrimaryMovement({r \in rows : r.at = t}, c.home, key)
           seen  == {t \in {r.at : r \in rows} : at(t).primary # Missing}
           none  == [primary |-> Missing, consensus |-> Missing]
<1>1. Observations(all, key) = [t \in seen |-> at(t)]
  BY DEF Observations
<1>2. \A x : x \in {r \in rows : r.at = c.at} <=>
               \E b, j, k : IsQuote(c, key, b, j, k) /\ x = SnapshotRow(c, b, j, k)
  <2>1. \A x : x \in {r \in rows : r.at = c.at} <=>
                 x \in OddsHistory(all) /\ x.market = key /\ x.at = c.at
    OBVIOUS
  <2>2. \A x : (x \in OddsHistory(all) /\ x.market = key /\ x.at = c.at) <=>
                 \E b, j, k : IsQuote(c, key, b, j, k) /\ x = SnapshotRow(c, b, j, k)
    BY RowsOfOneCapture
  <2>3. QED
    BY <2>1, <2>2
<1>3. at(c.at) = Decision(V)
  BY <1>2, HistoryComesTo
<1>4. ProcessMarket(c, key) = Decision(V)
  BY ProcessComesTo
<1>5. ShownAt(all, key, c.at) = IF c.at \in seen THEN at(c.at) ELSE none
  BY <1>1 DEF ShownAt
<1>6. CASE V = {}
  <2>1. Decision(V) = none
    BY <1>6 DEF Decision
  <2> HIDE DEF V, at, rows
  <2>2. c.at \notin seen
    BY <1>3, <2>1
  <2>3. QED
    BY <1>4, <1>5, <2>1, <2>2
<1>7. CASE V # {}
  <2>1. PICK o : o \in V
    BY <1>7
  <2>2. PICK b, j, k : IsQuote(c, key, b, j, k)
    BY <2>1, ValidAre
  <2>3. SnapshotRow(c, b, j, k) \in {r \in rows : r.at = c.at}
    BY <1>2, <2>2
  <2>4. c.at \in {r.at : r \in rows}
    BY <2>3
  <2>5. Decision(V).primary = <<PrimaryOf(V)>>
    BY <1>7 DEF Decision
  <2> HIDE DEF V, at, rows
  <2>6. at(c.at).primary # Missing
    BY <1>3, <2>5 DEF Missing
  <2>7. c.at \in seen
    BY <2>4, <2>6
  <2>8. QED
    BY <1>3, <1>4, <1>5, <2>7
<1>8. QED
  BY <1>6, <1>7
=============================================================================
