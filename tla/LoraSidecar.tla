---------------------------- MODULE LoraSidecar ----------------------------
(***************************************************************************)
(* The dynamic LoRA sidecar (tools/dynamic-lora-sidecar/sidecar): two      *)
(* threads, the periodic loop of main and the file watcher, both run       *)
(* LoraReconciler.reconcile against one model server, without a lock.      *)
(* Every property of the reconciler re-reads the configuration file, so    *)
(* one reconciliation can mix two versions of it.                          *)
(***************************************************************************)
EXTENDS Integers

CONSTANTS Adapters,    \* adapter ids; adapters compare by id only
          Configs,     \* file contents: the ids under ensureExist and
                       \* ensureNotExist; a file that cannot be read or does
                       \* not validate has neither
          MaxFaults    \* bound: file changes, server outages and crashes

VARIABLES config,    \* the file
          modified,  \* the watcher has an event to handle
          up,        \* the model server answers
          loaded,    \* the adapters it has
          thread,    \* thread[t]: where a reconciliation stands
          gauge,     \* ADAPTER_STATUS_METRICS, by adapter; Unset when absent
          faults

vars == <<config, modified, up, loaded, thread, gauge, faults>>

Threads == {"main", "watcher"}
Unset == -1
Resting == [at |-> "rest", verb |-> "load", first |-> {}, todo |-> {}, cur |-> {}]

Init == /\ config \in Configs
        /\ modified = FALSE
        /\ up \in BOOLEAN
        /\ loaded = {}
        /\ thread = [t \in Threads |-> Resting]
        /\ gauge = [a \in Adapters |-> Unset]
        /\ faults = 0

-----------------------------------------------------------------------------
\* reconcile, in thread t.

Goto(t, place) == thread' = [thread EXCEPT ![t].at = place]

\* The main thread wakes up after its interval, the watcher on an event.
Begin(t) ==
    /\ thread[t].at = "rest"
    /\ t = "watcher" => modified
    /\ modified' = (modified /\ t # "watcher")
    /\ Goto(t, "health")
    /\ UNCHANGED <<config, up, loaded, gauge, faults>>

\* is_server_healthy polls until the server answers or the timeout passes.
Healthy(t) ==
    /\ thread[t].at = "health"
    /\ up
    /\ Goto(t, "first")
    /\ UNCHANGED <<config, modified, up, loaded, gauge, faults>>

Unhealthy(t) ==
    /\ thread[t].at = "health"
    /\ ~up
    /\ Goto(t, "rest")
    /\ UNCHANGED <<config, modified, up, loaded, gauge, faults>>

\* adapters_to_load reads ensureExist and then ensureNotExist;
\* adapters_to_unload reads them the other way round.
Wanted(verb) == IF verb = "load" THEN config.exist ELSE config.notExist
Unwanted(verb) == IF verb = "load" THEN config.notExist ELSE config.exist

ReadFirst(t) ==
    /\ thread[t].at = "first"
    /\ thread' = [thread EXCEPT ![t].at = "second",
                                ![t].first = Wanted(thread[t].verb)]
    /\ UNCHANGED <<config, modified, up, loaded, gauge, faults>>

ReadSecond(t) ==
    /\ thread[t].at = "second"
    /\ thread' = [thread EXCEPT ![t].at = "each", ![t].first = {},
                                ![t].todo = thread[t].first \ Unwanted(thread[t].verb)]
    /\ UNCHANGED <<config, modified, up, loaded, gauge, faults>>

\* load_adapter and unload_adapter first ask for the registered adapters: what
\* is already as wanted only has its gauge set.
Registered(t, a) ==
    /\ thread[t].at = "each"
    /\ a \in thread[t].todo
    /\ up
    /\ thread' = [thread EXCEPT ![t].todo = @ \ {a}, ![t].cur = {a},
                                ![t].at = IF (a \in loaded) = (thread[t].verb = "load")
                                            THEN "gauge" ELSE "post"]
    /\ UNCHANGED <<config, modified, up, loaded, gauge, faults>>

\* An unhealthy server or a failed request counts as no adapters at all: a
\* load is sent, an unload is taken for done.
RegisteredFails(t, a) ==
    /\ thread[t].at = "each"
    /\ a \in thread[t].todo
    /\ thread' = [thread EXCEPT ![t].todo = @ \ {a}, ![t].cur = {a},
                                ![t].at = IF thread[t].verb = "load"
                                            THEN "post" ELSE "gauge"]
    /\ UNCHANGED <<config, modified, up, loaded, gauge, faults>>

\* The server refuses to load what it has and to unload what it has not.
PostSucceeds(t) ==
    /\ thread[t].at = "post"
    /\ up
    /\ \A a \in thread[t].cur : (a \in loaded) # (thread[t].verb = "load")
    /\ loaded' = IF thread[t].verb = "load" THEN loaded \union thread[t].cur
                                            ELSE loaded \ thread[t].cur
    /\ Goto(t, "gauge")
    /\ UNCHANGED <<config, modified, up, gauge, faults>>

PostFails(t) ==
    /\ thread[t].at = "post"
    /\ thread' = [thread EXCEPT ![t].at = "each", ![t].cur = {}]
    /\ UNCHANGED <<config, modified, up, loaded, gauge, faults>>

UpdateAdapterStatusMetrics(t) ==
    /\ thread[t].at = "gauge"
    /\ gauge' = [a \in Adapters |->
                   IF a \in thread[t].cur
                     THEN IF thread[t].verb = "load" THEN 1 ELSE 0
                     ELSE gauge[a]]
    /\ thread' = [thread EXCEPT ![t].at = "each", ![t].cur = {}]
    /\ UNCHANGED <<config, modified, up, loaded, faults>>

\* Mutant: the thread rests after the loads.
EachDoneAfterLoads(t) ==
    /\ thread[t].at = "each"
    /\ thread[t].todo = {}
    /\ thread' = [thread EXCEPT ![t] = Resting]
    /\ UNCHANGED <<config, modified, up, loaded, gauge, faults>>

\* After the loads come the unloads, after those the thread rests.
EachDone(t) ==
    /\ thread[t].at = "each"
    /\ thread[t].todo = {}
    /\ thread' = [thread EXCEPT ![t] =
                    IF @.verb = "load" THEN [@ EXCEPT !.verb = "unload", !.at = "first"]
                                       ELSE Resting]
    /\ UNCHANGED <<config, modified, up, loaded, gauge, faults>>

\* An answer without "data" raises what registered_adapters does not catch.
\* In main it ends the process, which is restarted; in the watcher it ends
\* the thread.
Raises(t) ==
    /\ faults < MaxFaults /\ faults' = faults + 1
    /\ thread[t].at = "each" /\ thread[t].todo # {} /\ up
    /\ IF t = "main"
         THEN /\ thread' = [s \in Threads |-> Resting]
              /\ gauge' = [a \in Adapters |-> Unset]
              /\ modified' = FALSE
         ELSE /\ thread' = [thread EXCEPT ![t] = [Resting EXCEPT !.at = "dead"]]
              /\ UNCHANGED <<gauge, modified>>
    /\ UNCHANGED <<config, up, loaded>>

-----------------------------------------------------------------------------
ConfigChange ==
    /\ faults < MaxFaults /\ faults' = faults + 1
    /\ config' \in Configs \ {config}
    /\ modified' = TRUE
    /\ UNCHANGED <<up, loaded, thread, gauge>>

\* The server stops, losing its adapters, or starts.
ServerStops ==
    /\ up
    /\ faults < MaxFaults /\ faults' = faults + 1
    /\ up' = FALSE /\ loaded' = {}
    /\ UNCHANGED <<config, modified, thread, gauge>>

ServerStarts ==
    /\ ~up
    /\ up' = TRUE
    /\ UNCHANGED <<config, modified, loaded, thread, gauge, faults>>

Step(t) == \/ Begin(t) \/ Healthy(t) \/ Unhealthy(t)
           \/ ReadFirst(t) \/ ReadSecond(t) \/ EachDone(t)
           \/ \E a \in Adapters : Registered(t, a) \/ RegisteredFails(t, a)
           \/ PostSucceeds(t) \/ PostFails(t)
           \/ UpdateAdapterStatusMetrics(t)

Next == \/ \E t \in Threads : Step(t) \/ Raises(t)
        \/ ConfigChange \/ ServerStops \/ ServerStarts

\* Both threads run, and requests to a server that is up do not all fail.
Fairness == /\ WF_vars(Step("main")) /\ WF_vars(Step("watcher"))
            /\ \A t \in Threads : SF_vars(PostSucceeds(t))
            /\ \A t \in Threads, a \in Adapters :
                 /\ SF_vars(thread[t].verb = "load" /\ Registered(t, a))
                 /\ SF_vars(thread[t].verb = "unload" /\ Registered(t, a))

Spec == Init /\ [][Next]_vars /\ Fairness

-----------------------------------------------------------------------------
\* What the file asks for without contradicting itself.
ToLoad == config.exist \ config.notExist
ToUnload == config.notExist \ config.exist

Converged == /\ ToLoad \subseteq loaded /\ ToUnload \cap loaded = {}
             /\ \A a \in ToLoad : gauge[a] = 1
             /\ \A a \in ToUnload : gauge[a] = 0

\* Once the file and the server stay as they are, the server ends up with
\* exactly what the file asks for, although both threads may have been half
\* way through a reconciliation of an older file, or of two files at once; and
\* the status metric then tells the truth about the adapters it asks for.
SidecarConverges == <>[]up => <>[]Converged
=============================================================================
