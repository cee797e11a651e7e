------------------------------ MODULE DailySlate ------------------------------
(***************************************************************************)
(* Daily slates persisted by handlers of the operated controller:          *)
(* app/daily_slate/repository.py with the triggers of its two tables.  A   *)
(* handler of the daily_slate phase persists a slate for the attempt it    *)
(* was called for, and its attempt may be overtaken before it does.  A     *)
(* snapshot and its games are inserted and sealed by one transaction,      *)
(* never changed after, so the table is a set of sealed snapshots.         *)
(*                                                                         *)
(* A slate is told apart by the canonical player its starter is resolved   *)
(* to, a set of at most one.  How the handler came by it is its own        *)
(* affair: resolve_probable_starter is a read, and what it read may be     *)
(* stale, so any slate may be persisted.  The date comes from the run.     *)
(***************************************************************************)
EXTENDS OperatedPipeline

CONSTANTS
  SlatePhase,  \* ordinal of the daily_slate phase
  Players      \* canonical players the starter may be mapped to

ASSUME SlatePhaseAssumption == SlatePhase \in Phases

VARIABLES
  mapping,     \* canonical players with a verified mapping of the starter
  snapshot,    \* daily_slate_snapshots with their daily_slate_games
  handler      \* handler[p]: whether the slate handler of process p has persisted

slates == <<mapping, snapshot, handler>>
slateVars == <<operatedVars, slates>>

Slate == {{}} \cup {{c} : c \in Players}

Snapshot == [run : Runs, attempt : Nat, slate : Slate]

Handler == {"called", "persisted"}

SlateInit ==
  /\ OperatedInit
  /\ mapping = {} /\ snapshot = {}
  /\ handler = [p \in Procs |-> "called"]

-----------------------------------------------------------------------------
\* record_player_identifier_mapping: mappings are added, never changed.
RecordMapping(c) ==
  /\ mapping' = mapping \cup {c}
  /\ UNCHANGED <<operatedVars, snapshot, handler>>

InSlateHandler(p, place) ==
  /\ pc[p] = "handling"
  /\ view[p].phase = SlatePhase
  /\ handler[p] = place

\* An exception leaves the handler: the controller records a failure.
Raise(p) ==
  /\ Goto(p, "fail")
  /\ handler' = [handler EXCEPT ![p] = "called"]
  /\ UNCHANGED <<run, phase, view, borrow, mapping, snapshot>>

\* resolve_probable_starter raises if verified mappings contradict each other.
ResolveConflict(p) ==
  /\ InSlateHandler(p, "called")
  /\ mapping \notin Slate
  /\ MayFail(p)
  /\ Raise(p)

(***************************************************************************)
(* persist_daily_slate and the trigger daily_slate_snapshots_validate_     *)
(* phase: the run's phase is running in this very attempt, the starter's   *)
(* mapping is still verified, and the attempt has no snapshot yet.         *)
(***************************************************************************)
CanPersist(r, attempt, slate) ==
  /\ Exists(r)
  /\ StatusOf(r, SlatePhase) = "running"
  /\ phase[r][SlatePhase].attempt = attempt
  /\ slate \subseteq mapping
  /\ \A x \in snapshot : x.run = r => x.attempt # attempt

\* Mistake: the attempt is read from the row, not taken from the context.
PersistCurrent(p) ==
  LET r == view[p].run
      attempt == phase[r][SlatePhase].attempt
  IN /\ InSlateHandler(p, "called")
     /\ \E slate \in Slate :
          /\ CanPersist(r, attempt, slate)
          /\ snapshot' = snapshot \cup
               {[run |-> r, attempt |-> attempt, slate |-> slate]}
     /\ handler' = [handler EXCEPT ![p] = "persisted"]
     /\ UNCHANGED <<operatedVars, mapping>>

Persist(p) ==
  LET r == view[p].run
      attempt == view[p].attempt
  IN /\ InSlateHandler(p, "called")
     /\ \E slate \in Slate :
          /\ CanPersist(r, attempt, slate)
          /\ snapshot' = snapshot \cup
               {[run |-> r, attempt |-> attempt, slate |-> slate]}
     /\ handler' = [handler EXCEPT ![p] = "persisted"]
     /\ UNCHANGED <<operatedVars, mapping>>

PersistRefused(p) ==
  /\ InSlateHandler(p, "called")
  /\ MayFail(p)
  /\ \E slate \in Slate : ~CanPersist(view[p].run, view[p].attempt, slate)
  /\ Raise(p)

(***************************************************************************)
(* Everything else goes on as before.  The handler itself is supplied by   *)
(* the operator of the service, none is in the repository: assumed of it   *)
(* is that it returns a result only once it has persisted its slate.       *)
(***************************************************************************)
Otherwise ==
  /\ OperatedNext
  /\ \A p \in Procs :
       pc[p] = "handling" /\ pc'[p] = "complete" /\ view[p].phase = SlatePhase
         => handler[p] = "persisted"
  /\ handler' = [p \in Procs |-> IF pc'[p] = "handling" THEN handler[p]
                                                        ELSE "called"]
  /\ UNCHANGED <<mapping, snapshot>>

SlateNext ==
  \/ \E p \in Procs :
       ResolveConflict(p) \/ Persist(p) \/ PersistRefused(p)
  \/ \E c \in Players : RecordMapping(c)
  \/ Otherwise

SlateSpec == SlateInit /\ [][SlateNext]_slateVars

-----------------------------------------------------------------------------
(***************************************************************************)
(* The output of a completed slate phase is a sealed snapshot: that of the *)
(* attempt whose handler produced it, also when the phase was failed and   *)
(* retried under that handler's feet (persist_daily_slate takes the        *)
(* attempt from the handler's context, the phase row keeps its output).    *)
(***************************************************************************)
OutputIsSealed ==
  \A r \in Runs :
    LET row == phase[r][SlatePhase]
    IN row.status \in HandlerStatus /\ row.output # 0
         => \E x \in snapshot : x.run = r /\ x.attempt = row.output

-----------------------------------------------------------------------------
(***************************************************************************)
(* What makes it inductive: a handler that has persisted, or whose result  *)
(* waits to be recorded, has its snapshot, of the attempt it was called    *)
(* for.                                                                    *)
(***************************************************************************)
SlateTypeOK ==
  /\ mapping \subseteq Players
  /\ snapshot \subseteq Snapshot
  /\ handler \in [Procs -> Handler]

HasSnapshot(r, attempt) == \E x \in snapshot : x.run = r /\ x.attempt = attempt

HandlerOK(p) ==
  /\ pc[p] # "handling" => handler[p] = "called"
  /\ handler[p] = "persisted" => HasSnapshot(view[p].run, view[p].attempt)
  /\ pc[p] = "complete" /\ view[p].phase = SlatePhase =>
       HasSnapshot(view[p].run, view[p].attempt)

SlateInv ==
  /\ OperatedInv /\ SlateTypeOK
  /\ \A p \in Procs : HandlerOK(p)
  /\ OutputIsSealed
=============================================================================
