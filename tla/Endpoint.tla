----------------------------- MODULE Endpoint -----------------------------
(***************************************************************************)
(* The memory behind one endpoint.  ModelServer of the data layer, and      *)
(* podMetrics of the EPP's own scraper, hold atomic pointers to a pod and a *)
(* metrics object, and a map from attribute names to objects.  Reconcilers  *)
(* and collectors replace the objects; the director's readers load a        *)
(* pointer and copy what it points to, field by field and without a lock.   *)
(*                                                                          *)
(* An object has two fields, set together by UpdatePod and one by one by    *)
(* Extract; its values tell the updates apart.                              *)
(***************************************************************************)
EXTENDS Integers, Sequences

CONSTANTS Readers,
          MaxObjects   \* bound: objects allocated in a behaviour

VARIABLES heap,      \* the objects, by address
          cell,      \* the pointers of the endpoint: pod, metrics and one attribute
          extractor, \* the collector's goroutine: its step, its clone, what it wrote
          reader,    \* the goroutines that take snapshots
          panicked   \* a nil object was written to

endpointVars == <<heap, cell, extractor, reader, panicked>>

Nil == 0
Pointers == {"pod", "metrics", "attribute"}
Fields == {"first", "second"}

\* What readers copy, in order.  A clone of the endpoint shares its attributes
\* and copies the rest.
toSchedulerPodMetrics == <<"pod", "metrics">>
AttributesGet == <<"attribute">>
ModelServerClone == <<"pod", "metrics">>
Plans == {toSchedulerPodMetrics, AttributesGet, ModelServerClone}

Stamp == Len(heap) + 1
Object(v) == [f \in Fields |-> v]
Allocate(v) == Len(heap) < MaxObjects /\ heap' = Append(heap, v)

NotReading == [plan |-> << >>, source |-> Nil, saw |-> Object(Nil), copied |-> {}, copy |-> Object(Nil)]

\* NewEndpoint: every pointer is nil.
EndpointInit == /\ heap = << >>
        /\ cell = [c \in Pointers |-> Nil]
        /\ extractor = [at |-> "idle", clone |-> Nil, todo |-> {}, updated |-> FALSE]
        /\ reader = [r \in Readers |-> NotReading]
        /\ panicked = FALSE

-----------------------------------------------------------------------------
\* Writers.

Store(c, address) == cell' = [cell EXCEPT ![c] = address]

\* UpdatePod converts the Kubernetes pod into an object of its own.
UpdatePod ==
    /\ Allocate(Object(Stamp))
    /\ Store("pod", Stamp)
    /\ UNCHANGED <<extractor, reader, panicked>>

\* The owner of the endpoint gives it an empty metrics object.
UpdateMetrics ==
    /\ cell["metrics"] = Nil
    /\ Allocate(Object(Stamp))
    /\ Store("metrics", Stamp)
    /\ UNCHANGED <<extractor, reader, panicked>>

\* Put stores the caller's object itself.
Put ==
    /\ Allocate(Object(Stamp))
    /\ Store("attribute", Stamp)
    /\ UNCHANGED <<extractor, reader, panicked>>

\* Mutant: the metrics in use are updated in place.
ExtractBeginInPlace ==
    /\ extractor.at = "idle" /\ cell["metrics"] # Nil
    /\ \E found \in SUBSET Fields :
         extractor' = [at |-> "write", clone |-> cell["metrics"], todo |-> found, updated |-> found # {}]
    /\ UNCHANGED <<heap, cell, reader, panicked>>

\* Extract works on a clone of the current metrics; found are the fields the
\* page has a value for.  The clone of nil is nil, and writing to it panics.
ExtractBegin ==
    /\ extractor.at = "idle"
    /\ \E found \in SUBSET Fields :
         IF cell["metrics"] = Nil
         THEN /\ panicked' = (found # {})
              /\ UNCHANGED <<heap, extractor>>
         ELSE /\ Allocate(heap[cell["metrics"]])
              /\ extractor' = [at |-> "write", clone |-> Stamp, todo |-> found, updated |-> found # {}]
              /\ UNCHANGED panicked
    /\ UNCHANGED <<cell, reader>>

\* The value of a page, taken to differ from the last one.
ExtractField(f) ==
    /\ extractor.at = "write" /\ f \in extractor.todo
    /\ f = "second" => "first" \notin extractor.todo
    /\ heap' = [heap EXCEPT ![extractor.clone][f] = @ + 1]
    /\ extractor' = [extractor EXCEPT !.todo = @ \ {f}]
    /\ UNCHANGED <<cell, reader, panicked>>

\* The clone replaces the metrics if it holds anything new.
ExtractEnd ==
    /\ extractor.at = "write" /\ extractor.todo = {}
    /\ IF extractor.updated THEN Store("metrics", extractor.clone) ELSE UNCHANGED cell
    /\ extractor' = [at |-> "idle", clone |-> Nil, todo |-> {}, updated |-> FALSE]
    /\ UNCHANGED <<heap, reader, panicked>>

-----------------------------------------------------------------------------
\* Readers.

\* A reader that has loaded the pointer of the first cell of its plan.
Reading(plan) ==
    LET address == cell[Head(plan)]
    IN  [plan |-> plan, source |-> address, saw |-> heap[address], copied |-> {}, copy |-> Object(Nil)]

\* A pointer is loaded; a reader that meets nil has nothing to copy.
Load(r, plan) ==
    /\ reader[r].plan = << >>
    /\ cell[Head(plan)] # Nil
    /\ reader' = [reader EXCEPT ![r] = Reading(plan)]
    /\ UNCHANGED <<heap, cell, extractor, panicked>>

\* Clone of a pod, of metrics, or of an attribute: field by field.
CloneField(r, f) ==
    /\ reader[r].plan # << >> /\ f \notin reader[r].copied
    /\ f = "second" => "first" \in reader[r].copied
    /\ reader' = [reader EXCEPT ![r].copied = @ \union {f},
                                ![r].copy[f] = heap[reader[r].source][f]]
    /\ UNCHANGED <<heap, cell, extractor, panicked>>

\* The copy is used, and the next pointer of the plan loaded.
NextOfPlan(r) ==
    /\ reader[r].copied = Fields
    /\ LET plan == Tail(reader[r].plan)
       IN reader' = [reader EXCEPT ![r] =
                       IF plan = << >> \/ cell[Head(plan)] = Nil THEN NotReading ELSE Reading(plan)]
    /\ UNCHANGED <<heap, cell, extractor, panicked>>

EndpointNext == /\ ~panicked
        /\ \/ UpdatePod \/ UpdateMetrics \/ Put
           \/ ExtractBegin \/ ExtractEnd \/ \E f \in Fields : ExtractField(f)
           \/ \E r \in Readers : \/ \E plan \in Plans : Load(r, plan)
                                 \/ \E f \in Fields : CloneField(r, f)
                                 \/ NextOfPlan(r)

EndpointSpec == EndpointInit /\ [][EndpointNext]_endpointVars

-----------------------------------------------------------------------------
\* What a reader copies is what its pointer led to when it was loaded: whole,
\* never half of one update and half of the next, although nothing is locked
\* and the collector writes while readers copy.
SnapshotsWhole ==
    \A r \in Readers : \A f \in reader[r].copied : reader[r].copy[f] = reader[r].saw[f]
=============================================================================
