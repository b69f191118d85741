---------------------------- MODULE PodMetrics -----------------------------
(***************************************************************************)
(* The metrics refreshers of pkg/epp/backend/metrics: one goroutine per    *)
(* pod that scrapes the pod's model server on every tick, and the          *)
(* goroutine that flushes the pool's Prometheus gauges.  Model servers     *)
(* change their pages, go down, and come back under another address; the   *)
(* pool appears, disappears and changes its port; a scrape may fail or     *)
(* take long.                                                              *)
(***************************************************************************)
EXTENDS MetricsExtraction, FiniteSetsExt

CONSTANTS Mapping,        \* the subset of {"queue", "kv", "lora"} with a specification
          Pods,
          Pages,               \* the pages servers show, by name
          Ports,               \* the ports an InferencePool may target
          FlagPort,            \* --model-server-metrics-port; 0 is unset
          StalenessThreshold,  \* --metrics-staleness-threshold, in clock ticks
          MaxChanges           \* bound: environment changes in a behaviour

VARIABLES pool,        \* the pool's target port, or NoPool
          listen,      \* the port the servers listen on
          clientPort,  \* PodMetricsClientImpl.ModelServerMetricsPort
          address,     \* address[p]: the generation of p's address
          server,      \* server[p]: the page p shows, or Down
          refresher,   \* refresher[p]: the goroutine of podMetrics p
          metrics,     \* metrics[p]: podMetrics.metrics
          age,         \* age[p]: how long ago metrics[p] was stamped
          done,        \* done[p]: the done channel is closed
          gauges,      \* the pool's Prometheus gauges
          changes      \* environment changes so far

vars == <<pool, listen, clientPort, address, server, refresher, metrics, age,
          done, gauges, changes>>
world == <<pool, listen, address, server, done, changes>>

NoPool == 0
Down == "down"
MaxAge == StalenessThreshold + 1
Waiting == [at |-> "select", address |-> 0, port |-> 0, page |-> Down]

\* NewPodMetrics: empty metrics stamped with the zero time.
Init == /\ listen \in Ports
        /\ pool \in {NoPool, listen}
        /\ clientPort = FlagPort
        /\ address = [p \in Pods |-> 0]
        /\ server \in [Pods -> DOMAIN Pages]
        /\ refresher = [p \in Pods |-> Waiting]
        /\ metrics = [p \in Pods |-> NewMetricsState]
        /\ age = [p \in Pods |-> MaxAge]
        /\ done = [p \in Pods |-> FALSE]
        /\ gauges = [ready |-> 0, queue |-> 0, kv |-> 0]
        /\ changes = 0

-----------------------------------------------------------------------------
\* The world around the EPP.

Change == changes < MaxChanges /\ changes' = changes + 1

PoolChange ==
    /\ Change
    /\ pool' \in {NoPool, listen} \ {pool}
    /\ UNCHANGED <<listen, clientPort, address, server, refresher, metrics,
                   age, done, gauges>>

\* The servers and the pool move to another port.
PortChange ==
    /\ Change
    /\ listen' \in Ports \ {listen}
    /\ pool' = IF pool = NoPool THEN NoPool ELSE listen'
    /\ UNCHANGED <<clientPort, address, server, refresher, metrics, age, done,
                   gauges>>

PageChange(p) ==
    /\ Change
    /\ server' \in {[server EXCEPT ![p] = n] :
                      n \in (DOMAIN Pages \union {Down}) \ {server[p]}}
    /\ UNCHANGED <<pool, listen, clientPort, address, refresher, metrics, age,
                   done, gauges>>

\* The pod restarts under a new address and UpdatePod stores it.
UpdatePod(p) ==
    /\ Change
    /\ address' = [address EXCEPT ![p] = @ + 1]
    /\ UNCHANGED <<pool, listen, clientPort, server, refresher, metrics, age,
                   done, gauges>>

StopRefreshLoop(p) ==
    /\ ~done[p]
    /\ Change
    /\ done' = [done EXCEPT ![p] = TRUE]
    /\ UNCHANGED <<pool, listen, clientPort, address, server, refresher,
                   metrics, age, gauges>>

-----------------------------------------------------------------------------
\* The refresher of pod p.

\* getMetricEndpoint stores the first port it is given in the client that all
\* pods share.
GetMetricEndpoint(port) == IF clientPort = 0 THEN port ELSE clientPort

\* A tick: without a pool refreshMetrics returns; with one FetchMetrics sends
\* the request to the address the pod has now.
RefreshTick(p) ==
    /\ refresher[p].at = "select"
    /\ pool # NoPool
    /\ clientPort' = GetMetricEndpoint(pool)
    /\ refresher' = [refresher EXCEPT ![p] =
                       [at |-> "sent", address |-> address[p],
                        port |-> clientPort', page |-> Down]]
    /\ UNCHANGED <<world, metrics, age, gauges>>

\* The server answers with the page it shows; nothing listens on an old
\* address or another port.
ServerAnswers(p) ==
    /\ refresher[p].at = "sent"
    /\ refresher[p].address = address[p]
    /\ refresher[p].port = listen
    /\ server[p] # Down
    /\ refresher' = [refresher EXCEPT ![p].at = "page", ![p].page = server[p]]
    /\ UNCHANGED <<world, clientPort, metrics, age, gauges>>

FetchFailsButStamps(p) ==
    /\ refresher[p].at \in {"sent", "page"}
    /\ refresher' = [refresher EXCEPT ![p] = Waiting]
    /\ age' = [age EXCEPT ![p] = 0]
    /\ UNCHANGED <<world, clientPort, metrics, gauges>>

\* FetchMetrics returns an error and no metrics: nothing is stored.
FetchFails(p) ==
    /\ refresher[p].at \in {"sent", "page"}
    /\ refresher' = [refresher EXCEPT ![p] = Waiting]
    /\ UNCHANGED <<world, clientPort, metrics, age, gauges>>

RefreshMetricsIfComplete(p) ==
    /\ refresher[p].at = "page"
    /\ IF \A f \in Mapping : Pages[refresher[p].page][f] # << >>
         THEN /\ metrics' = [metrics EXCEPT ![p] =
                               PromToPodMetrics(Mapping, Pages[refresher[p].page], @)]
              /\ age' = [age EXCEPT ![p] = 0]
         ELSE UNCHANGED <<metrics, age>>
    /\ refresher' = [refresher EXCEPT ![p] = Waiting]
    /\ UNCHANGED <<world, clientPort, gauges>>

\* The page is parsed; what it has of the mapped metrics is stored, and the
\* time is stamped whatever was missing.
RefreshMetrics(p) ==
    /\ refresher[p].at = "page"
    /\ metrics' = [metrics EXCEPT ![p] = PromToPodMetrics(Mapping, Pages[refresher[p].page], @)]
    /\ age' = [age EXCEPT ![p] = 0]
    /\ refresher' = [refresher EXCEPT ![p] = Waiting]
    /\ UNCHANGED <<world, clientPort, gauges>>

RefreshExit(p) ==
    /\ refresher[p].at = "select"
    /\ done[p]
    /\ refresher' = [refresher EXCEPT ![p].at = "exited"]
    /\ UNCHANGED <<world, clientPort, metrics, age, gauges>>

-----------------------------------------------------------------------------
\* The gauge flusher.

\* PodList holds the pods whose refreshers were not stopped.
Listed == {p \in Pods : ~done[p]}

PodsWithFreshMetrics == {p \in Listed : age[p] <= StalenessThreshold}

\* refreshPrometheusMetrics: without a fresh pod the gauges keep their values.
\* The averages are integer divisions.
RefreshPrometheusMetrics ==
    LET fresh == PodsWithFreshMetrics
        n == Cardinality(fresh)
        Average(Of(_)) == MapThenSumSet(Of, fresh) \div n
        Queue(p) == metrics[p].queue
        Kv(p) == metrics[p].kv
    IN  /\ pool # NoPool
        /\ fresh # {}
        /\ gauges' = [ready |-> n, queue |-> Average(Queue), kv |-> Average(Kv)]
        /\ UNCHANGED <<world, clientPort, refresher, metrics, age>>

Advance ==
    /\ age' = [p \in Pods |-> IF age[p] = MaxAge THEN MaxAge ELSE age[p] + 1]
    /\ UNCHANGED <<world, clientPort, refresher, metrics, gauges>>

Next == \/ PoolChange \/ PortChange
        \/ \E p \in Pods : \/ PageChange(p) \/ UpdatePod(p)
                            \/ StopRefreshLoop(p) \/ RefreshTick(p)
                            \/ ServerAnswers(p) \/ FetchFails(p)
                            \/ RefreshMetrics(p) \/ RefreshExit(p)
        \/ RefreshPrometheusMetrics
        \/ Advance

\* The tickers keep firing and a scrape ends within fetchMetricsTimeout.  A
\* scrape may fail, but not every scrape of a server that could answer fails.
Fairness == /\ \A p \in Pods : /\ WF_vars(RefreshTick(p))
                              /\ WF_vars(FetchFails(p) \/ RefreshMetrics(p))
                              /\ SF_vars(ServerAnswers(p))
                              /\ SF_vars(RefreshMetrics(p))
            /\ WF_vars(Advance)

Spec == Init /\ [][Next]_vars /\ Fairness

-----------------------------------------------------------------------------
\* The scraper's own target is right: it uses the flag, or a port the pool
\* still has.
OnTarget == clientPort = listen \/ (clientPort = 0 /\ pool = listen)

Scraped(p) == server[p] # Down /\ ~done[p] /\ pool # NoPool /\ OnTarget

Shown(p) == /\ server[p] # Down
            /\ metrics[p] = PromToPodMetrics(Mapping, Pages[server[p]], metrics[p])

\* A pod whose server stays up, in a pool whose port the client did not cache
\* before it changed, ends up with the metrics of the page the server shows,
\* however many scrapes fail and whatever was in flight when it restarted.
MetricsConverge == \A p \in Pods : <>[]Scraped(p) => <>[]Shown(p)

\* No scrape can reach the server of the pod: it is down, there is no pool, or
\* the port the client has cached is not the one the server listens on.
Unreachable(p) == server[p] = Down \/ pool = NoPool \/ ~OnTarget
IsStale(p) == age[p] > StalenessThreshold

\* When a server stays out of reach, be it down or moved to a port other than
\* the one getMetricEndpoint cached, its metrics become stale and stay so:
\* old values are never stamped anew.
StaleDetected == \A p \in Pods : <>[]Unreachable(p) => <>[]IsStale(p)
=============================================================================
