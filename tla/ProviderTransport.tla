-------------------------- MODULE ProviderTransport --------------------------
(***************************************************************************)
(* Statistics requests of several processes that share one raw root:       *)
(* HttpStatsTransport with its provider locks and the rate-limit state of  *)
(* Baseball-Reference, RawArtifactStore with its write-once captures and   *)
(* the response cache.  A process fetches serially.  Files outlive it, its *)
(* memory does not, and the system releases the locks of a process that    *)
(* dies.                                                                   *)
(*                                                                         *)
(* A capture is a <capture_id>.bin; it is whole once its .json is there.   *)
(* Time is counted from the last recorded start, up to the interval.       *)
(***************************************************************************)
EXTENDS Naturals, Sequences

CONSTANTS
  Procs,         \* processes with a transport
  Pages,         \* Baseball-Reference requests with persistent_cache
  Queries,       \* Statcast requests
  MaxAttempts,   \* StatsRequest.max_attempts
  Interval,      \* minimum_interval_seconds of Baseball-Reference
  MaxCaptures,   \* bound: responses retained
  NoProc, NoRequest

ASSUME TransportAssumption ==
  /\ Pages \cap Queries = {}
  /\ NoRequest \notin Pages \cup Queries
  /\ NoProc \notin Procs
  /\ {MaxAttempts, Interval} \subseteq Nat \ {0}
  /\ MaxCaptures \in Nat

VARIABLES
  capture,   \* capture[k]: the k-th artifact published in the raw root
  cache,     \* cache[q]: the capture the cache index of q names, 0 if none
  since,     \* time since the start in baseball_reference.json, at most Interval
  lock,      \* lock[v]: the process that holds the lock file of provider v
  job        \* job[p]: the fetch process p is executing

vars == <<capture, cache, since, lock, job>>

Requests == Pages \cup Queries

Providers == {"baseball_reference", "statcast"}

Provider(q) == IF q \in Pages THEN "baseball_reference" ELSE "statcast"

(***************************************************************************)
(* What the loop makes of a response.  Transient statuses are retried, but *)
(* a 429 of Baseball-Reference is a block and refused, like a redirection  *)
(* to another host or an encoding nobody asked for (_retryable_status,     *)
(* _validate_final_url).                                                   *)
(***************************************************************************)
Status == {"success", "transient", "refused"}

Capture ==
  [request : Requests, status : Status, valid : BOOLEAN, whole : BOOLEAN]

Place == {"idle", "lookup", "slot", "wait", "get", "metadata", "check",
          "backoff", "parse", "index", "link"}

Job == [at : Place, request : Requests \cup {NoRequest}, attempt : 0 .. MaxAttempts,
        left : 0 .. Interval, last : 0 .. MaxCaptures]

Idle == [at |-> "idle", request |-> NoRequest, attempt |-> 0, left |-> 0,
         last |-> 0]

Captures == DOMAIN capture

Init ==
  /\ capture = <<>>
  /\ cache = [q \in Pages |-> 0]
  /\ since = Interval
  /\ lock = [v \in Providers |-> NoProc]
  /\ job = [p \in Procs |-> Idle]

-----------------------------------------------------------------------------
At(p, place) == job[p].at = place

Goto(p, place) == job' = [job EXCEPT ![p].at = place]

Raise(p) == job' = [job EXCEPT ![p] = Idle]

Release(p) ==
  lock' = [v \in Providers |-> IF lock[v] = p THEN NoProc ELSE lock[v]]

Begin(p, q) ==
  /\ At(p, "idle")
  /\ job' = [job EXCEPT ![p] = [Idle EXCEPT !.at = IF q \in Pages THEN "lookup" ELSE "slot",
                                            !.request = q, !.attempt = 1]]
  /\ UNCHANGED <<capture, cache, since, lock>>

Usable(k, q) ==
  /\ k \in Captures
  /\ capture[k].whole /\ capture[k].request = q /\ capture[k].status = "success"

(***************************************************************************)
(* load_cached_response verifies the index, the metadata and the bytes; a  *)
(* hit is parsed like a response but never published again.                *)
(***************************************************************************)
Hit(p) ==
  /\ At(p, "lookup")
  /\ cache[job[p].request] # 0
  /\ Usable(cache[job[p].request], job[p].request)
  /\ Raise(p)
  /\ UNCHANGED <<capture, cache, since, lock>>

Miss(p) ==
  /\ At(p, "lookup")
  /\ cache[job[p].request] = 0
  /\ Goto(p, "slot")
  /\ UNCHANGED <<capture, cache, since, lock>>

\* Mistake: the interval is kept without the lock file.
AcquireUnlocked(p) ==
  LET v == Provider(job[p].request)
  IN /\ At(p, "slot")
     /\ lock' = [lock EXCEPT ![v] = p]
     /\ job' = [job EXCEPT ![p].at = "wait", ![p].left =
                  IF v = "baseball_reference" THEN Interval - since ELSE 0]
     /\ UNCHANGED <<capture, cache, since>>

(***************************************************************************)
(* _provider_request_slot takes the lock file of the provider and reads    *)
(* the start of the previous request, which any process may have recorded. *)
(***************************************************************************)
Acquire(p) ==
  LET v == Provider(job[p].request)
  IN /\ At(p, "slot")
     /\ lock[v] = NoProc
     /\ lock' = [lock EXCEPT ![v] = p]
     /\ job' = [job EXCEPT ![p].at = "wait", ![p].left =
                  IF v = "baseball_reference" THEN Interval - since ELSE 0]
     /\ UNCHANGED <<capture, cache, since>>

Tick ==
  /\ \E p \in Procs : job[p].left > 0
  /\ since' = IF since < Interval THEN since + 1 ELSE since
  /\ job' = [p \in Procs |->
               [job[p] EXCEPT !.left = IF @ > 0 THEN @ - 1 ELSE 0]]
  /\ UNCHANGED <<capture, cache, lock>>

\* The start is recorded before the request is sent, so a crash counts it.
Start(p) ==
  /\ At(p, "wait")
  /\ job[p].left = 0
  /\ since' = IF job[p].request \in Pages THEN 0 ELSE since
  /\ Goto(p, "get")
  /\ UNCHANGED <<capture, cache, lock>>

\* Mistake: a retry keeps the slot it sleeps in and waits for it again.
UnansweredKeepsSlot(p) ==
  /\ At(p, "get")
  /\ IF job[p].attempt < MaxAttempts
     THEN /\ job' = [job EXCEPT ![p].at = "slot", ![p].attempt = @ + 1]
          /\ UNCHANGED lock
     ELSE Release(p) /\ Raise(p)
  /\ UNCHANGED <<capture, cache, since>>

(***************************************************************************)
(* No answer, or one whose body ends early: retain_stream removes the part *)
(* file and publishes nothing.  The retry sleeps inside the slot.          *)
(***************************************************************************)
Unanswered(p) ==
  /\ At(p, "get")
  /\ Release(p)
  /\ IF job[p].attempt < MaxAttempts
     THEN job' = [job EXCEPT ![p].at = "slot", ![p].attempt = @ + 1]
     ELSE Raise(p)
  /\ UNCHANGED <<capture, cache, since>>

\* An error the loop does not translate leaves it without its captures.
RetainFails(p) ==
  /\ At(p, "get") \/ At(p, "metadata")
  /\ Release(p)
  /\ Raise(p)
  /\ UNCHANGED <<capture, cache, since>>

(***************************************************************************)
(* retain_stream publishes the bytes under a capture id of their own, by a *)
(* link that replaces nothing, and only then their metadata.  Bound: the   *)
(* network is silent once MaxCaptures responses are retained.              *)
(***************************************************************************)
Answer(p, status, valid) ==
  /\ At(p, "get")
  /\ Len(capture) < MaxCaptures
  /\ capture' = Append(capture, [request |-> job[p].request, status |-> status,
                                 valid |-> valid, whole |-> FALSE])
  /\ job' = [job EXCEPT ![p].at = "metadata", ![p].last = Len(capture) + 1]
  /\ UNCHANGED <<cache, since, lock>>

\* With the metadata the slot ends; the response is judged outside it.
WriteMetadata(p) ==
  /\ At(p, "metadata")
  /\ capture' = [capture EXCEPT ![job[p].last].whole = TRUE]
  /\ Release(p)
  /\ Goto(p, "check")
  /\ UNCHANGED <<cache, since>>

CheckSuccess(p) ==
  /\ At(p, "check")
  /\ capture[job[p].last].status = "success"
  /\ Goto(p, "parse")
  /\ UNCHANGED <<capture, cache, since, lock>>

CheckRetry(p) ==
  /\ At(p, "check")
  /\ capture[job[p].last].status = "transient"
  /\ job[p].attempt < MaxAttempts
  /\ Goto(p, "backoff")
  /\ UNCHANGED <<capture, cache, since, lock>>

CheckRaises(p) ==
  /\ At(p, "check")
  /\ \/ capture[job[p].last].status = "refused"
     \/ capture[job[p].last].status = "transient" /\ job[p].attempt = MaxAttempts
  /\ Raise(p)
  /\ UNCHANGED <<capture, cache, since, lock>>

Backoff(p) ==
  /\ At(p, "backoff")
  /\ job' = [job EXCEPT ![p].at = "slot", ![p].attempt = @ + 1, ![p].last = 0]
  /\ UNCHANGED <<capture, cache, since, lock>>

\* Mistake: every successful response is published, parsed or not.
ParseAnything(p) ==
  /\ At(p, "parse")
  /\ IF job[p].request \in Pages THEN Goto(p, "index") ELSE Raise(p)
  /\ UNCHANGED <<capture, cache, since, lock>>

(***************************************************************************)
(* The provider reads the exact bytes and rejects block pages and anything *)
(* but the table it asked for; only then a Baseball-Reference response is  *)
(* committed to the cache (collect_table, StatcastProvider.collect).       *)
(***************************************************************************)
Parse(p) ==
  /\ At(p, "parse")
  /\ IF job[p].request \in Pages /\ capture[job[p].last].valid
     THEN Goto(p, "index")
     ELSE Raise(p)
  /\ UNCHANGED <<capture, cache, since, lock>>

\* publish_cached_response keeps an index it finds and verifies it.
IndexExists(p) ==
  /\ At(p, "index")
  /\ cache[job[p].request] # 0
  /\ Raise(p)
  /\ UNCHANGED <<capture, cache, since, lock>>

IndexMissing(p) ==
  /\ At(p, "index")
  /\ cache[job[p].request] = 0
  /\ Goto(p, "link")
  /\ UNCHANGED <<capture, cache, since, lock>>

\* Mistake: the index file is replaced.
LinkReplaces(p) ==
  /\ At(p, "link")
  /\ cache' = [cache EXCEPT ![job[p].request] = job[p].last]
  /\ Raise(p)
  /\ UNCHANGED <<capture, since, lock>>

\* The second of two publishers gets "cache publication failed".
Link(p) ==
  /\ At(p, "link")
  /\ IF cache[job[p].request] = 0
     THEN cache' = [cache EXCEPT ![job[p].request] = job[p].last]
     ELSE UNCHANGED cache
  /\ Raise(p)
  /\ UNCHANGED <<capture, since, lock>>

Crash(p) ==
  /\ ~At(p, "idle")
  /\ Release(p)
  /\ job' = [job EXCEPT ![p] = Idle]
  /\ UNCHANGED <<capture, cache, since>>

-----------------------------------------------------------------------------
Answered(p) ==
  \E status \in Status, valid \in BOOLEAN :
    (valid => status = "success") /\ Answer(p, status, valid)

Working(p) ==
  \/ Hit(p) \/ Miss(p) \/ Acquire(p) \/ Start(p)
  \/ Unanswered(p) \/ RetainFails(p) \/ Answered(p) \/ WriteMetadata(p)
  \/ CheckSuccess(p) \/ CheckRetry(p) \/ CheckRaises(p) \/ Backoff(p)
  \/ Parse(p) \/ IndexExists(p) \/ IndexMissing(p) \/ Link(p)

Next ==
  \/ Tick
  \/ \E p \in Procs :
       Working(p) \/ Crash(p) \/ (\E q \in Requests : Begin(p, q))

Spec == Init /\ [][Next]_vars

(***************************************************************************)
(* A process that is not killed goes on, the network answers or times out, *)
(* and sleeping ends; nobody has to begin a fetch.  A lock file is granted *)
(* in the order it is asked for, so a waiter is not passed over for ever.  *)
(***************************************************************************)
TransportFairness ==
  /\ WF_vars(Tick)
  /\ \A p \in Procs : WF_vars(Working(p)) /\ SF_vars(Acquire(p))
FairSpec == Spec /\ TransportFairness

-----------------------------------------------------------------------------
(***************************************************************************)
(* Requests to Baseball-Reference start at least the interval apart,       *)
(* whichever process sends them, through retries and crashes: the start    *)
(* read in _wait_for_provider_interval is still the last when the next one *)
(* is recorded.                                                            *)
(***************************************************************************)
RequestsAreSpaced ==
  [][\A p \in Procs :
       At(p, "wait") /\ job'[p].at = "get" /\ job[p].request \in Pages
         => since = Interval]_vars

(***************************************************************************)
(* The cache answers with nothing that was not retained whole, successful, *)
(* parsed and for that very request, although it is published long after   *)
(* the response and by processes that may die in between; so a hit never   *)
(* fails its verification.                                                 *)
(***************************************************************************)
CacheIsBacked ==
  \A q \in Pages :
    cache[q] # 0 => Usable(cache[q], q) /\ capture[cache[q]].valid

(***************************************************************************)
(* Evidence is written once: a published capture only gains its metadata,  *)
(* and an index entry is never redirected, however many publish it.        *)
(***************************************************************************)
EvidenceIsWriteOnce ==
  [][/\ \A k \in Captures :
          /\ k \in DOMAIN capture'
          /\ capture[k].whole => capture'[k] = capture[k]
     /\ \A q \in Pages : cache[q] # 0 => cache'[q] = cache[q]]_vars

(***************************************************************************)
(* Every fetch ends or its process does: attempts are bounded, sleeping in *)
(* the slot delays the other processes but nobody keeps a lock.            *)
(***************************************************************************)
FetchEnds == \A p \in Procs : ~At(p, "idle") ~> At(p, "idle")
=============================================================================
