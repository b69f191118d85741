----------------------------- MODULE MCServices -----------------------------
(***************************************************************************)
(* The components that promise something to happen, each checked on a      *)
(* small instance of its own.  A behaviour picks one component, part, and  *)
(* is a fair behaviour of that component alone; the components other than  *)
(* PluginState share the variables v1 to v13, and the ones a component     *)
(* does not use stay 0.                                                    *)
(*                                                                         *)
(* As part never changes, one fairness condition on a disjunction of       *)
(* actions of different parts is the same as one condition for each.       *)
(***************************************************************************)
EXTENDS PluginState, MCServiceValues

CONSTANTS s1, p1

VARIABLES part, v1, v2, v3, v4, v5, v6, v7, v8, v9, v10, v11, v12, v13

shared == <<v1, v2, v3, v4, v5, v6, v7, v8, v9, v10, v11, v12, v13>>
MCvars == <<part, shared, vars>>
Zero1to7 == v1 = 0 /\ v2 = 0 /\ v3 = 0 /\ v4 = 0 /\ v5 = 0 /\ v6 = 0 /\ v7 = 0
Zero8to10 == v8 = 0 /\ v9 = 0 /\ v10 = 0
Zero11on == v11 = 0 /\ v12 = 0 /\ v13 = 0

-----------------------------------------------------------------------------
\* One pod that shows two pages, moves and fails; the pool has no port, one
\* of two, and metrics are stale as soon as the clock ticks.
Scraper == INSTANCE PodMetrics WITH Pods <- {p1}, Pages <- [p \in {"busy", "partial"} |-> SomePages[p]],
             TrimSpace <- Trimmed, Mapping <- {"queue", "kv", "lora"},
             Ports <- {8000, 8001}, FlagPort <- 0, StalenessThreshold <- 0, MaxChanges <- 3,
             pool <- v1, listen <- v2, clientPort <- v3, address <- v4, server <- v5,
             refresher <- v6, metrics <- v7, age <- v8, done <- v9, gauges <- v10,
             changes <- v11

\* One source with all three pages.
Collector == INSTANCE DataLayer WITH Sources <- {s1}, Pages <- SomePages, TrimSpace <- Trimmed,
               Specifications <- SomeSpecifications, MaxChanges <- 1,
               registry <- v1, extractors <- v2, starts <- v3, running <- v4,
               context <- v5, parent <- v6, loop <- v7, stopped <- v8, endpoint <- v9,
               legacy <- v10, server <- v11, clear <- v12, changes <- v13

\* Each process, with the settings that matter after its set-up.
Process == INSTANCE EppStartup WITH Options <- RunOptions, MaxStreams <- 1,
             opts <- v1, flags <- v2, step <- v3, ctxDone <- v4, mgrErr <- v5, server <- v6,
             watcher <- v7, streams <- v8, cut <- v9, synced <- v10, ready <- v11, exit <- v12,
             signals <- v13

\* One adapter, every file about it, and two faults.
Sidecar == INSTANCE LoraSidecar WITH Adapters <- {"a"},
             Configs <- [exist : SUBSET {"a"}, notExist : SUBSET {"a"}], MaxFaults <- 2,
             config <- v1, modified <- v2, up <- v3, loaded <- v4, thread <- v5,
             gauge <- v6, faults <- v7

\* Every kind of body in up to three chunks.
Router == INSTANCE BBRStream WITH Bodies <- {"model", "absent", "other", "invalid"},
            MaxChunks <- 3,
            streaming <- v1, kind <- v2, envoy <- v3, inbox <- v4, chunks <- v5,
            buffer <- v6, outbox <- v7, sent <- v8, state <- v9, counters <- v10

-----------------------------------------------------------------------------
MCInit ==
    /\ Init
    /\ \/ part = "scraper" /\ Scraper!Init /\ v12 = 0 /\ v13 = 0
       \/ part = "collector" /\ Collector!Init
       \/ part = "process" /\ Process!Init
       \/ part = "sidecar" /\ Sidecar!Init /\ Zero8to10 /\ Zero11on
       \/ part = "router" /\ Router!Init /\ Zero11on
       \/ part = "state" /\ Zero1to7 /\ Zero8to10 /\ Zero11on

\* A step A of one component leaves the variables it does not use alone.
OnShared(c, A) == part = c /\ A /\ UNCHANGED <<part, vars>>
OnScraper(A) == OnShared("scraper", A) /\ UNCHANGED <<v12, v13>>
OnCollector(A) == OnShared("collector", A)
OnProcess(A) == OnShared("process", A)
OnSidecar(A) == OnShared("sidecar", A) /\ UNCHANGED <<v8, v9, v10, v11, v12, v13>>
OnRouter(A) == OnShared("router", A) /\ UNCHANGED <<v11, v12, v13>>
OnState(A) == part = "state" /\ A /\ UNCHANGED <<part, shared>>

MCNext == \/ OnScraper(Scraper!Next) \/ OnCollector(Collector!Next)
          \/ OnProcess(Process!Next) \/ OnSidecar(Sidecar!Next)
          \/ OnRouter(Router!Next) \/ OnState(Next)

\* The fairness of the components' own specifications.
MCFairness ==
    /\ WF_MCvars(\/ OnScraper(Scraper!RefreshTick(p1))
               \/ OnCollector(\/ Collector!LoopReady \/ Collector!CollectDone
                              \/ Collector!CollectExtracts \/ Collector!CollectFails(s1))
               \/ OnProcess(Process!Setup)
               \/ OnSidecar(Sidecar!Step("main"))
               \/ OnState(Cleanup)
               \/ OnRouter(Router!Process))
    /\ WF_MCvars(\/ OnScraper(Scraper!FetchFails(p1) \/ Scraper!RefreshMetrics(p1))
               \/ OnCollector(Collector!StartReturns(1))
               \/ OnProcess(Process!ServerStep("health"))
               \/ OnSidecar(Sidecar!Step("watcher"))
               \/ OnState(Advance))
    /\ WF_MCvars(\/ OnScraper(Scraper!Advance)
               \/ OnCollector(Collector!StartReturns(2))
               \/ OnProcess(Process!ServerStep("ext-proc")))
    /\ WF_MCvars(OnProcess(Process!Manager))
    /\ SF_MCvars(\/ OnScraper(Scraper!ServerAnswers(p1))
               \/ OnCollector(Collector!LoopExit)
               \/ OnSidecar(Sidecar!PostSucceeds("main")))
    /\ SF_MCvars(\/ OnScraper(Scraper!RefreshMetrics(p1))
               \/ OnSidecar(Sidecar!PostSucceeds("watcher")))
    /\ \A t \in {"main", "watcher"}, verb \in {"load", "unload"} :
         SF_MCvars(OnSidecar(v5[t].verb = verb /\ Sidecar!Registered(t, "a")))

MCSpec == MCInit /\ [][MCNext]_MCvars /\ MCFairness

-----------------------------------------------------------------------------
\* The properties of the other components, as stated in their modules.  TLC
\* evaluates the predicates of a temporal formula in every state, so part is a
\* condition of each of them.

\* A pod's metrics follow its server when that can be scraped.
MetricsConverge == <>[](part = "scraper" /\ Scraper!Scraped(p1))
                     => <>[](part = "scraper" /\ Scraper!Shown(p1))

\* Metrics of a server no scrape can reach become stale.
StaleDetected == <>[](part = "scraper" /\ Scraper!Unreachable(p1))
                   => <>[](part = "scraper" /\ Scraper!IsStale(p1))

\* A collector that was stopped ends.
CollectorStops == (part = "collector" /\ Collector!Stopped)
                    ~> (part = "collector" /\ Collector!Exited)

\* A process does not live on without one of its servers.
ServerLossEndsProcess == (part = "process" /\ Process!ServerLost)
                           ~> (part = "process" /\ Process!Ended)

\* Adapters and their status follow the file once the server stays up.
SidecarConverges == <>[](part = "sidecar" /\ v3)
                      => <>[](part = "sidecar" /\ Sidecar!Converged)

\* A request whose last part was received is answered or its stream ends.
RouterAnswers == (part = "router" /\ Router!Complete)
                   ~> (part = "router" /\ (v9 # "open" \/ Router!Answered))
=============================================================================
