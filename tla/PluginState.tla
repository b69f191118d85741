---------------------------- MODULE PluginState ----------------------------
(***************************************************************************)
(* Per-request plugin data (pkg/epp/plugins/plugin_state.go): two          *)
(* sync.Maps, storage and requestToLastAccessTime, that are never updated  *)
(* together.  The goroutine of a request reads, writes and deletes its     *)
(* data one map operation at a time while the cleanup goroutine ranges     *)
(* over the access times and deletes what it finds stale.                  *)
(*                                                                         *)
(* An access time is kept as its age; ages above StalenessThreshold are    *)
(* not told apart, so time may run for ever.                               *)
(***************************************************************************)
EXTENDS Integers

CONSTANTS Requests,            \* the request ids
          Keys,                \* the state keys plugins use
          StalenessThreshold   \* stalenessThreshold, in clock ticks

ASSUME StalenessAssumption == StalenessThreshold \in Nat

VARIABLES storage,     \* storage[r]: the keys stored for r; {} is no entry
          lastAccess,  \* lastAccess[r]: the age of r's access time, or NoTime
          pc,          \* pc[r]: where r's goroutine stands in a call
          cleaner,     \* the cleanup goroutine: its step, the range left to
                       \* visit and the entry it holds
          cancelled,   \* the context of NewPluginState is done
          written,     \* history: the keys r wrote since its last Delete
          lapsed       \* history: r let its data become stale while in use

vars == <<storage, lastAccess, pc, cleaner, cancelled, written, lapsed>>

NoTime == -1
MaxAge == StalenessThreshold + 1
Idle == [at |-> "idle", key |-> {}, map |-> {}]

Init == /\ storage = [r \in Requests |-> {}]
        /\ lastAccess = [r \in Requests |-> NoTime]
        /\ pc = [r \in Requests |-> Idle]
        /\ cleaner = [at |-> "wait", todo |-> {}, id |-> {}]
        /\ cancelled = FALSE
        /\ written = [r \in Requests |-> {}]
        /\ lapsed = [r \in Requests |-> FALSE]

-----------------------------------------------------------------------------
\* The goroutine of request r.

TouchForgotten(r, op, k) ==
    /\ pc[r].at = "idle"
    /\ pc' = [pc EXCEPT ![r] = [at |-> op, key |-> {k}, map |-> {}]]
    /\ UNCHANGED <<storage, lastAccess, cleaner, cancelled, written, lapsed>>

\* Read and Write both begin by storing the access time.
Touch(r, op, k) ==
    /\ pc[r].at = "idle"
    /\ lastAccess' = [lastAccess EXCEPT ![r] = 0]
    /\ pc' = [pc EXCEPT ![r] = [at |-> op, key |-> {k}, map |-> {}]]
    /\ UNCHANGED <<storage, cleaner, cancelled, written, lapsed>>

\* Read and ReadPluginStateKey load the map and return what it holds.
Read(r) ==
    /\ pc[r].at = "read"
    /\ pc' = [pc EXCEPT ![r] = Idle]
    /\ UNCHANGED <<storage, lastAccess, cleaner, cancelled, written, lapsed>>

WriteLoadFresh(r) ==
    /\ pc[r].at = "write"
    /\ pc' = [pc EXCEPT ![r].at = "store"]
    /\ UNCHANGED <<storage, lastAccess, cleaner, cancelled, written, lapsed>>

WriteLoad(r) ==
    /\ pc[r].at = "write"
    /\ pc' = [pc EXCEPT ![r].at = "store", ![r].map = storage[r]]
    /\ UNCHANGED <<storage, lastAccess, cleaner, cancelled, written, lapsed>>

WriteStore(r) ==
    /\ pc[r].at = "store"
    /\ storage' = [storage EXCEPT ![r] = pc[r].map \union pc[r].key]
    /\ written' = [written EXCEPT ![r] = @ \union pc[r].key]
    /\ pc' = [pc EXCEPT ![r] = Idle]
    /\ UNCHANGED <<lastAccess, cleaner, cancelled, lapsed>>

DeleteData(r) ==
    /\ pc[r].at = "idle"
    /\ storage' = [storage EXCEPT ![r] = {}]
    /\ written' = [written EXCEPT ![r] = {}]
    /\ pc' = [pc EXCEPT ![r].at = "delete"]
    /\ UNCHANGED <<lastAccess, cleaner, cancelled, lapsed>>

DeleteTime(r) ==
    /\ pc[r].at = "delete"
    /\ lastAccess' = [lastAccess EXCEPT ![r] = NoTime]
    /\ pc' = [pc EXCEPT ![r] = Idle]
    /\ UNCHANGED <<storage, cleaner, cancelled, written, lapsed>>

\* The request ends, with or without a Delete.
Finish(r) ==
    /\ pc[r].at = "idle"
    /\ pc' = [pc EXCEPT ![r].at = "done"]
    /\ UNCHANGED <<storage, lastAccess, cleaner, cancelled, written, lapsed>>

Call(r) == \/ \E op \in {"read", "write"}, k \in Keys : Touch(r, op, k)
           \/ Read(r)
           \/ WriteLoad(r)
           \/ WriteStore(r)
           \/ DeleteData(r)
           \/ DeleteTime(r)
           \/ Finish(r)

-----------------------------------------------------------------------------
\* The cleanup goroutine.

CleanupTick ==
    /\ cleaner.at = "wait"
    /\ cleaner' = [cleaner EXCEPT !.at = "range", !.todo = Requests]
    /\ UNCHANGED <<storage, lastAccess, pc, cancelled, written, lapsed>>

IsStale(age) == age > StalenessThreshold

\* Range hands the callback one entry at a time, each key at most once.  The
\* callback takes the age of the entry it is given; a fresh one is kept.
CleanupVisit(r) ==
    /\ cleaner.at = "range"
    /\ r \in cleaner.todo
    /\ cleaner' = IF IsStale(lastAccess[r])
                    THEN [at |-> "data", todo |-> cleaner.todo \ {r}, id |-> {r}]
                    ELSE [cleaner EXCEPT !.todo = @ \ {r}]
    /\ UNCHANGED <<storage, lastAccess, pc, cancelled, written, lapsed>>

CleanupRangeEnd ==
    /\ cleaner.at = "range"
    /\ cleaner.todo = {}
    /\ cleaner' = [cleaner EXCEPT !.at = "wait"]
    /\ UNCHANGED <<storage, lastAccess, pc, cancelled, written, lapsed>>

\* A stale one loses its data first ...
CleanupDeleteData ==
    /\ cleaner.at = "data"
    /\ storage' = [r \in Requests |-> IF r \in cleaner.id THEN {} ELSE storage[r]]
    /\ cleaner' = [cleaner EXCEPT !.at = "time"]
    /\ UNCHANGED <<lastAccess, pc, cancelled, written, lapsed>>

\* ... and then its access time.
CleanupDeleteTime ==
    /\ cleaner.at = "time"
    /\ lastAccess' = [r \in Requests |->
                        IF r \in cleaner.id THEN NoTime ELSE lastAccess[r]]
    /\ cleaner' = [cleaner EXCEPT !.at = "range", !.id = {}]
    /\ UNCHANGED <<storage, pc, cancelled, written, lapsed>>

CleanupExit ==
    /\ cleaner.at = "wait"
    /\ cancelled
    /\ cleaner' = [cleaner EXCEPT !.at = "exited"]
    /\ UNCHANGED <<storage, lastAccess, pc, cancelled, written, lapsed>>

Cleanup == \/ CleanupTick
           \/ \E r \in Requests : CleanupVisit(r)
           \/ CleanupRangeEnd
           \/ CleanupDeleteData
           \/ CleanupDeleteTime
           \/ CleanupExit

Older(age) == IF age = NoTime \/ age = MaxAge THEN age ELSE age + 1

Advance ==
    /\ lastAccess' = [r \in Requests |-> Older(lastAccess[r])]
    /\ lapsed' = [r \in Requests |->
                    lapsed[r] \/ (/\ pc[r].at # "done"
                                  /\ IsStale(lastAccess'[r]))]
    /\ UNCHANGED <<storage, pc, cleaner, cancelled, written>>

Cancel ==
    /\ ~cancelled
    /\ cancelled' = TRUE
    /\ UNCHANGED <<storage, lastAccess, pc, cleaner, written, lapsed>>

Next == \/ \E r \in Requests : Call(r)
        \/ Cleanup
        \/ Advance
        \/ Cancel

\* The ticker keeps firing, the runtime keeps scheduling the cleanup
\* goroutine, and time passes.
Fairness == WF_vars(Cleanup) /\ WF_vars(Advance)

Spec == Init /\ [][Next]_vars /\ Fairness

-----------------------------------------------------------------------------
TypeOK ==
    /\ storage \in [Requests -> SUBSET Keys]
    /\ lastAccess \in [Requests -> NoTime .. MaxAge]
    /\ pc \in [Requests -> [at : {"idle", "read", "write", "store", "delete",
                                  "done"},
                            key : SUBSET Keys, map : SUBSET Keys]]
    /\ cleaner \in [at : {"wait", "range", "data", "time", "exited"},
                    todo : SUBSET Requests, id : SUBSET Requests]
    /\ cancelled \in BOOLEAN
    /\ written \in [Requests -> SUBSET Keys]
    /\ lapsed \in [Requests -> BOOLEAN]

\* A request that never leaves its data untouched for longer than the
\* staleness threshold keeps exactly the keys it wrote, whatever the cleanup
\* goroutine is doing between the two maps.
FreshDataKept ==
    \A r \in Requests :
        pc[r].at # "done" /\ ~lapsed[r] => storage[r] = written[r]

Abandoned(r) == pc[r].at = "done" /\ ~lapsed[r]
Collected(r) == storage[r] = {} \/ cancelled

\* The data of a request that ended without Delete is collected, unless the
\* state is shut down first.  (A request that lets its data become stale
\* while it still uses it can leave data without an access time behind, which
\* no cleanup ever visits: that is what ~lapsed excludes.)
StaleDataCollected == \A r \in Requests : Abandoned(r) ~> Collected(r)
=============================================================================
