----------------------------- MODULE DataLayer -----------------------------
(***************************************************************************)
(* The data layer of one endpoint (pkg/epp/datalayer): the registry of     *)
(* data sources, the metrics source with its extractors, the endpoint's    *)
(* metrics and attributes, and the Collector, whose goroutine runs every   *)
(* source on every tick until it is stopped.  Start and Stop may be called *)
(* by different goroutines.                                                *)
(***************************************************************************)
EXTENDS MetricsExtraction

CONSTANTS Sources,      \* the names data sources register under
          Pages,        \* the pages the model server shows, by name
          Specifications, \* what an extractor may be configured with: [queue, kv, lora]
          MaxChanges    \* bound: page and port changes in a behaviour

VARIABLES registry,   \* DataSourceRegistry.sources
          extractors, \* the metrics extractors: of which source, for which families
          starts,     \* starts[c]: where the c-th caller of Start stands
          running,    \* the sources the collector was started with
          context,    \* Collector.ctx and cancel: "nil", "live" or "done"
          parent,     \* the caller's context is done
          loop,       \* the goroutine: its step and the sources left to run
          stopped,    \* what Stop has returned: "no", "error" or "ok"
          endpoint,   \* the endpoint's metrics
          legacy,     \* the metrics the EPP's scraper makes of the same pages
          server,     \* the page the model server shows, or Down
          clear,      \* history: every page extracted was unambiguous
          changes

vars == <<registry, extractors, starts, running, context, parent, loop,
          stopped, endpoint, legacy, server, clear, changes>>

Down == "down"
Callers == {1, 2}

Init == /\ registry = {} /\ extractors = {}
        /\ starts = [c \in Callers |-> "none"]
        /\ running = {} /\ context = "nil" /\ parent = FALSE
        /\ loop = [at |-> "none", todo |-> {}, source |-> {}, page |-> Down]
        /\ stopped = "no"
        /\ endpoint = NewMetricsState /\ legacy = NewMetricsState
        /\ server \in DOMAIN Pages
        /\ clear = TRUE /\ changes = 0

-----------------------------------------------------------------------------
\* Registration.  A second registration under a name is refused.

Register(s) ==
    /\ s \notin registry
    /\ registry' = registry \union {s}
    /\ UNCHANGED <<extractors, starts, running, context, parent, loop, stopped,
                   endpoint, legacy, server, clear, changes>>

Extractors(s) == {e \in extractors : e.source = s}

NewExtractor(s, specs) == [source |-> s, mapping |-> NewMapping(specs).families]

\* A malformed specification gives no extractor, and a source refuses a second
\* extractor of the same name.
AddExtractor(s, specs) ==
    /\ s \in registry /\ Extractors(s) = {}
    /\ ~NewMapping(specs).err
    /\ extractors' = extractors \union {NewExtractor(s, specs)}
    /\ UNCHANGED <<registry, starts, running, context, parent, loop, stopped,
                   endpoint, legacy, server, clear, changes>>

-----------------------------------------------------------------------------
\* The Collector.

\* startOnce: the first caller creates the context and the goroutine, any
\* other gets an error.  Callers are numbered in the order they call.
Start(c) ==
    /\ starts[c] = "none" /\ \A d \in 1 .. c - 1 : starts[d] # "none"
    /\ IF context = "nil"
         THEN /\ context' = IF parent THEN "done" ELSE "live"
              /\ running' = registry
              /\ loop' = [loop EXCEPT !.at = "new"]
              /\ starts' = [starts EXCEPT ![c] = "waiting"]
         ELSE /\ starts' = [starts EXCEPT ![c] = "error"]
              /\ UNCHANGED <<context, running, loop>>
    /\ UNCHANGED <<registry, extractors, parent, stopped, endpoint, legacy,
                   server, clear, changes>>

\* Start returns when the goroutine is ready, or cancels it when the caller's
\* context ends first.
StartReturns(c) ==
    /\ starts[c] = "waiting"
    /\ \/ /\ loop.at # "new"
          /\ starts' = [starts EXCEPT ![c] = "ok"]
          /\ context' = context
       \/ /\ parent
          /\ starts' = [starts EXCEPT ![c] = "error"]
          /\ context' = "done"
    /\ UNCHANGED <<registry, extractors, running, parent, loop, stopped,
                   endpoint, legacy, server, clear, changes>>

StopWithoutCancel ==
    /\ stopped # "ok"
    /\ stopped' = IF context = "nil" THEN "error" ELSE "ok"
    /\ UNCHANGED <<registry, extractors, starts, running, context, parent,
                   loop, endpoint, legacy, server, clear, changes>>

\* Before Start, Stop is an error that does nothing; afterwards the first Stop
\* cancels the context and any further one is an error.
Stop ==
    /\ stopped # "ok"
    /\ stopped' = IF context = "nil" THEN "error" ELSE "ok"
    /\ context' = IF context = "nil" THEN "nil" ELSE "done"
    /\ UNCHANGED <<registry, extractors, starts, running, parent, loop,
                   endpoint, legacy, server, clear, changes>>

\* The caller's context ends, and with it the collector's.
ParentDone ==
    /\ ~parent
    /\ parent' = TRUE
    /\ context' = IF context = "nil" THEN "nil" ELSE "done"
    /\ UNCHANGED <<registry, extractors, starts, running, loop, stopped,
                   endpoint, legacy, server, clear, changes>>

LoopReady ==
    /\ loop.at = "new"
    /\ loop' = [loop EXCEPT !.at = "select"]
    /\ UNCHANGED <<registry, extractors, starts, running, context, parent,
                   stopped, endpoint, legacy, server, clear, changes>>

\* A tick runs the sources Start was given.
LoopTick ==
    /\ loop.at = "select"
    /\ loop' = [loop EXCEPT !.at = "source", !.todo = running]
    /\ UNCHANGED <<registry, extractors, starts, running, context, parent,
                   stopped, endpoint, legacy, server, clear, changes>>

LoopExit ==
    /\ loop.at = "select"
    /\ context = "done"
    /\ loop' = [loop EXCEPT !.at = "exited"]
    /\ UNCHANGED <<registry, extractors, starts, running, context, parent,
                   stopped, endpoint, legacy, server, clear, changes>>

-----------------------------------------------------------------------------
\* Collect: the sources of a tick run one after the other; a source whose
\* request fails, or whose context is done, is skipped.

CollectDone ==
    /\ loop.at = "source"
    /\ loop.todo = {}
    /\ loop' = [loop EXCEPT !.at = "select"]
    /\ UNCHANGED <<registry, extractors, starts, running, context, parent,
                   stopped, endpoint, legacy, server, clear, changes>>

CollectFails(s) ==
    /\ loop.at = "source"
    /\ s \in loop.todo
    /\ loop' = [loop EXCEPT !.todo = @ \ {s}]
    /\ UNCHANGED <<registry, extractors, starts, running, context, parent,
                   stopped, endpoint, legacy, server, clear, changes>>

\* A source gets the page of the server.
CollectGets(s) ==
    /\ loop.at = "source"
    /\ s \in loop.todo
    /\ server # Down
    /\ context = "live"
    /\ loop' = [at |-> "extract", todo |-> loop.todo \ {s}, source |-> {s},
                page |-> server]
    /\ UNCHANGED <<registry, extractors, starts, running, context, parent,
                   stopped, endpoint, legacy, server, clear, changes>>

\* The source's extractor updates the endpoint if it found anything; the EPP's
\* scraper would have been configured with the same families.
CollectExtracts ==
    /\ loop.at = "extract"
    /\ loop' = [loop EXCEPT !.at = "source", !.source = {}, !.page = Down]
    /\ \/ \E x \in extractors : x.source \in loop.source /\
            LET page == Pages[loop.page]
                e == Extract(x.mapping, page, endpoint)
            IN  /\ endpoint' = IF e.updated THEN e.metrics ELSE endpoint
                /\ legacy' = PromToPodMetrics(x.mapping, page, legacy)
                /\ clear' = (clear /\ Unambiguous(page))
       \/ /\ \A x \in extractors : x.source \notin loop.source
          /\ UNCHANGED <<endpoint, legacy, clear>>
    /\ UNCHANGED <<registry, extractors, starts, running, context, parent,
                   stopped, server, changes>>

PageChange ==
    /\ changes < MaxChanges
    /\ changes' = changes + 1
    /\ server' \in (DOMAIN Pages \union {Down}) \ {server}
    /\ UNCHANGED <<registry, extractors, starts, running, context, parent,
                   loop, stopped, endpoint, legacy, clear>>

Next == \/ \E s \in Sources : \/ Register(s) \/ \E specs \in Specifications : AddExtractor(s, specs)
                              \/ CollectFails(s) \/ CollectGets(s)
        \/ \E c \in Callers : Start(c) \/ StartReturns(c)
        \/ Stop \/ ParentDone \/ LoopReady \/ LoopTick \/ LoopExit
        \/ CollectDone \/ CollectExtracts \/ PageChange

\* The goroutines are scheduled, a request ends within its timeout, and
\* select does not ignore a closed channel for ever.
Fairness == /\ WF_vars(LoopReady \/ CollectDone \/ CollectExtracts
                         \/ \E s \in Sources : CollectFails(s))
            /\ SF_vars(LoopExit)
            /\ \A c \in Callers : WF_vars(StartReturns(c))

Spec == Init /\ [][Next]_vars /\ Fairness

-----------------------------------------------------------------------------
Stopped == stopped = "ok" \/ (parent /\ context # "nil")
Exited == loop.at = "exited"

\* A Stop that reported success, or the end of the caller's context, ends the
\* goroutine: also when it happens between Start's first and last step.
CollectorStops == Stopped ~> Exited

\* The data layer can replace the EPP's own scraper: as long as every page
\* was unambiguous both hold the same metrics, through partial pages and
\* whatever values earlier pages left behind.
ExtractorsAgree == clear => endpoint = legacy
=============================================================================
