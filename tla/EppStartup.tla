----------------------------- MODULE EppStartup -----------------------------
(***************************************************************************)
(* The two processes cmd/epp and cmd/bbr from their command line to their  *)
(* exit: flags and environment, the set-up steps that may each end the     *)
(* process, the manager that starts the health and the ext-proc gRPC       *)
(* servers, their shutdown when the context is cancelled, and the panics   *)
(* that end the process at once: nothing in the repository recovers one.   *)
(*                                                                         *)
(* Each server is a runnable with a watcher goroutine that stops it        *)
(* gracefully.  The manager (controller-runtime) with its own runnables,   *)
(* the gRPC library, the flag package and the kubelet are external.        *)
(***************************************************************************)
EXTENDS Naturals, Sequences

CONSTANTS Options,     \* what command line, environment and files may hold
          MaxStreams   \* bound on the streams open at a time

Servers == {"health", "ext-proc"}

\* "manager" stands for what the manager runs of its own: the metrics server,
\* the caches and the controllers.
Runnables == Servers \union {"manager"}

VARIABLES opts,     \* the options of this process
          flags,    \* the flags' values: "default", "set" or "zero", for
                    \* the zero value of the type or a negative interval
          step,     \* how many steps of Run are done
          ctxDone,  \* the context of the runnables is cancelled
          mgrErr,   \* the manager got an error from a runnable
          server,   \* where each runnable is
          watcher,  \* where its goroutine is
          streams,  \* ext-proc streams open
          cut,      \* streams were broken off
          synced,   \* Datastore.PoolHasSynced
          ready,    \* the answer to the last readiness probe
          exit,     \* how the process ended
          signals   \* SIGTERM or SIGINT received

serverVars == <<server, watcher, streams, cut>>
vars == <<opts, flags, step, ctxDone, mgrErr, serverVars, synced, ready, exit, signals>>

Flags == {"pool-name", "grpc-port", "secure-serving", "refresh-metrics-interval",
          "refresh-prometheus-metrics-interval"}
DefaultFlags == [f \in Flags |-> "default"]

\* Run of the EPP and run of the router, step by step.
PickerSteps == <<"bind", "parse", "validate", "kubeconfig", "mapping", "manager",
                 "pprof", "plugins", "scheduler", "controllers", "addHealth",
                 "addExtProc", "start">>
RouterSteps == <<"parse", "kubeconfig", "manager", "addHealth", "addExtProc", "start">>
Steps == IF opts.prog = "epp" THEN PickerSteps ELSE RouterSteps

Init == /\ opts \in Options
        /\ flags = DefaultFlags
        /\ step = 0
        /\ ctxDone = FALSE /\ mgrErr = FALSE
        /\ server = [s \in Runnables |-> "added"]
        /\ watcher = [s \in Servers |-> "none"]
        /\ streams = 0 /\ cut = FALSE
        /\ synced = FALSE /\ ready = FALSE
        /\ exit = "none" /\ signals = 0

In(name) == step < Len(Steps) /\ Steps[step + 1] = name
At(name) == exit = "none" /\ In(name)
Running == exit = "none" /\ step = Len(Steps)
Past(name) == \E i \in 1..step : Steps[i] = name

Advance == step' = step + 1 /\ exit' = exit
Fail == exit' = "1" /\ step' = step
Panic == exit' = "2" /\ step' = step

-----------------------------------------------------------------------------
\* Set-up.

\* The flags an environment variable is bound to.
BoundFlags == Flags \ {"refresh-prometheus-metrics-interval"}

\* A text that does not parse stands for the zero value, which flag.Set stores
\* all the same.  Every text is a value of a string flag.
Parsed(text) == IF text = "valid" THEN "set" ELSE "zero"

\* The error of flag.Set is ignored.
bindEnvToFlags ==
    /\ At("bind")
    /\ flags' = [f \in Flags |-> IF f \in BoundFlags /\ opts.env[f] # "" THEN Parsed(opts.env[f]) ELSE flags[f]]
    /\ Advance

\* An argument replaces the value; an invalid one ends the process, and so does
\* a request for help.
ParseFlags ==
    /\ At("parse")
    /\ LET invalid == \E f \in DOMAIN opts.args : opts.args[f] = "invalid"
           help == "help" \in DOMAIN opts.args
       IN  \/ invalid /\ exit' = "2" /\ UNCHANGED <<flags, step>>
           \/ help /\ exit' = "0" /\ UNCHANGED <<flags, step>>
           \/ /\ ~invalid /\ ~help
              /\ flags' = [f \in Flags |-> IF f \in DOMAIN opts.args THEN Parsed(opts.args[f]) ELSE flags[f]]
              /\ Advance

\* A pool name is required, one source of configuration and a known scheme.
validateFlags ==
    /\ At("validate")
    /\ IF flags["pool-name"] = "set" /\ opts.config # "both" /\ opts.scheme # "other"
         THEN Advance ELSE Fail
    /\ UNCHANGED flags

\* An empty specification is a metric that is not scraped.
stringToMetricSpec(spec) == spec # "malformed"

\* NewMetricMapping refuses a malformed metric specification.
NewMetricMapping ==
    /\ At("mapping")
    /\ IF stringToMetricSpec(opts.metrics) THEN Advance ELSE Fail
    /\ UNCHANGED flags

\* Creating the manager fails for an unknown pool group, among others.
NewDefaultManager ==
    /\ At("manager")
    /\ \/ opts.group = "known" /\ Advance
       \/ Fail
    /\ UNCHANGED flags

\* The configuration, if any, is read and loaded, which may fail, or panic for
\* a scorer that was left without a weight (ConfigLoader).
parsePluginsConfiguration ==
    /\ At("plugins")
    /\ \/ Advance
       \/ opts.config # "none" /\ (Fail \/ Panic)
    /\ UNCHANGED flags

\* Without a configuration there is no scheduler.
NewScheduler ==
    /\ At("scheduler")
    /\ IF opts.config = "none" THEN Fail ELSE Advance
    /\ UNCHANGED flags

\* The other steps just succeed or fail.
SetupStep(name) == At(name) /\ (Advance \/ Fail) /\ UNCHANGED flags

GetConfig == SetupStep("kubeconfig")
setupPprofHandlers == SetupStep("pprof")
\* The three reconcilers are registered with the manager.
SetupWithManager == SetupStep("controllers")
registerHealthServer == SetupStep("addHealth")
registerExtProcServer == SetupStep("addExtProc")

\* mgr.Start starts the runnables, each on its own.
StartManager ==
    /\ At("start")
    /\ Advance
    /\ server' = [s \in Runnables |-> IF s = "manager" THEN "serving" ELSE "starting"]
    /\ UNCHANGED <<opts, flags, ctxDone, mgrErr, watcher, streams, cut, synced, ready, signals>>

Setup == \/ /\ \/ bindEnvToFlags \/ ParseFlags \/ validateFlags \/ NewMetricMapping
               \/ NewDefaultManager \/ parsePluginsConfiguration \/ NewScheduler
               \/ GetConfig \/ setupPprofHandlers \/ SetupWithManager
               \/ registerHealthServer \/ registerExtProcServer
            /\ UNCHANGED <<opts, ctxDone, mgrErr, serverVars, synced, ready, signals>>
         \/ StartManager

-----------------------------------------------------------------------------
\* The runnables.

To(s, state) == server' = [server EXCEPT ![s] = state]

\* The EPP's ext-proc runnable first makes the metrics logger's ticker, and
\* time.NewTicker panics for an interval that is not positive.
StartMetricsLogger(s) ==
    s = "ext-proc" /\ opts.prog = "epp" => flags["refresh-prometheus-metrics-interval"] # "zero"

LoggerPanics(s) ==
    /\ server[s] = "starting" /\ ~StartMetricsLogger(s)
    /\ exit' = "2"
    /\ UNCHANGED serverVars

\* AsRunnable: the server is put together ...
Prepare(s) ==
    /\ server[s] = "starting" /\ StartMetricsLogger(s)
    /\ To(s, "listen")
    /\ UNCHANGED <<watcher, streams, cut>>

\* ... unless the certificate that serving securely needs cannot be loaded or
\* made.  The router always serves securely.
CertificateFails(s) ==
    /\ server[s] = "starting" /\ s = "ext-proc" /\ StartMetricsLogger(s)
    /\ flags["secure-serving"] # "zero"
    /\ To(s, "failed")
    /\ UNCHANGED <<watcher, streams, cut>>

ListenFailsLogged(s) ==
    /\ server[s] = "listen"
    /\ To(s, "returned")
    /\ UNCHANGED <<watcher, streams, cut>>

ListenFails(s) ==
    /\ server[s] = "listen"
    /\ To(s, "failed")
    /\ UNCHANGED <<watcher, streams, cut>>

Listen(s) ==
    /\ server[s] = "listen"
    /\ To(s, "listening")
    /\ watcher' = [watcher EXCEPT ![s] = "waiting"]
    /\ UNCHANGED <<streams, cut>>

\* Serve on a server that was stopped already returns ErrServerStopped, which
\* is no failure.
Serve(s) ==
    /\ server[s] = "listening"
    /\ To(s, IF watcher[s] = "waiting" THEN "serving" ELSE "returned")
    /\ UNCHANGED <<watcher, streams, cut>>

AcceptFails(s) ==
    /\ server[s] = "serving" /\ watcher[s] = "waiting"
    /\ To(s, "failed")
    /\ UNCHANGED <<watcher, streams, cut>>

StopServer(s) ==
    /\ watcher[s] = "waiting" /\ ctxDone
    /\ watcher' = [watcher EXCEPT ![s] = "stopped"]
    /\ cut' = (cut \/ (s = "ext-proc" /\ streams > 0))
    /\ streams' = IF s = "ext-proc" THEN 0 ELSE streams
    /\ UNCHANGED server

\* The watcher wakes on the context and stops the server gracefully.
Shutdown(s) ==
    /\ watcher[s] = "waiting" /\ ctxDone
    /\ watcher' = [watcher EXCEPT ![s] = "stopping"]
    /\ UNCHANGED <<server, streams, cut>>

\* GracefulStop accepts nothing new and waits for the open streams.
GracefulStop(s) ==
    /\ watcher[s] = "stopping"
    /\ s = "ext-proc" => streams = 0
    /\ watcher' = [watcher EXCEPT ![s] = "stopped"]
    /\ UNCHANGED <<server, streams, cut>>

\* Serve returns when the stop is complete.
ServeReturns(s) ==
    /\ server[s] = "serving" /\ watcher[s] = "stopped"
    /\ To(s, "returned")
    /\ UNCHANGED <<watcher, streams, cut>>

\* A runnable that has returned closes doneCh, which ends a waiting watcher.
WatcherDone(s) ==
    /\ watcher[s] = "waiting" /\ server[s] \in {"returned", "failed"}
    /\ watcher' = [watcher EXCEPT ![s] = "gone"]
    /\ UNCHANGED <<server, streams, cut>>

ServerStep(s) ==
    /\ Running
    /\ \/ LoggerPanics(s)
       \/ /\ \/ Prepare(s) \/ CertificateFails(s) \/ ListenFails(s) \/ Listen(s) \/ Serve(s) \/ AcceptFails(s)
             \/ Shutdown(s) \/ GracefulStop(s) \/ ServeReturns(s) \/ WatcherDone(s)
          /\ exit' = exit
    /\ UNCHANGED <<opts, flags, step, ctxDone, mgrErr, synced, ready, signals>>

\* Server s has a step of its own to take.
CanStep(s) ==
    \/ server[s] \in {"starting", "listen", "listening"}
    \/ server[s] = "serving" /\ watcher[s] \in {"waiting", "stopped"}
    \/ watcher[s] = "waiting" /\ (ctxDone \/ server[s] \in {"returned", "failed"})
    \/ watcher[s] = "stopping" /\ (s = "ext-proc" => streams = 0)

-----------------------------------------------------------------------------
\* Streams, probes and the pool (external), and the health service.

OpenStream ==
    /\ Running /\ ready
    /\ server["ext-proc"] = "serving" /\ watcher["ext-proc"] = "waiting"
    /\ streams < MaxStreams
    /\ streams' = streams + 1
    /\ UNCHANGED <<opts, flags, step, ctxDone, mgrErr, server, watcher, cut, synced, ready, exit, signals>>

EndStream ==
    /\ Running /\ streams > 0
    /\ streams' = streams - 1
    /\ UNCHANGED <<opts, flags, step, ctxDone, mgrErr, server, watcher, cut, synced, ready, exit, signals>>

PoolChanges ==
    /\ Running /\ opts.prog = "epp"
    /\ synced' = ~synced
    /\ UNCHANGED <<opts, flags, step, ctxDone, mgrErr, serverVars, ready, exit, signals>>

\* The router is always serving, the EPP once its pool has synced.
RouterServing == TRUE
PickerServing == synced

Check ==
    /\ Running /\ server["health"] = "serving" /\ watcher["health"] = "waiting"
    /\ ready' = IF opts.prog = "bbr" THEN RouterServing ELSE PickerServing
    /\ UNCHANGED <<opts, flags, step, ctxDone, mgrErr, serverVars, synced, exit, signals>>

\* The first pod's refresh loop makes a ticker, which panics for interval 0.
RefreshLoopPanics ==
    /\ Running /\ opts.prog = "epp" /\ synced
    /\ flags["refresh-metrics-interval"] = "zero"
    /\ exit' = "2"
    /\ UNCHANGED <<opts, flags, step, ctxDone, mgrErr, serverVars, synced, ready, signals>>

\* The handler of an open stream panics (ExtProcServer's crashed); the gRPC
\* server does not recover.
HandlerPanics ==
    /\ Running /\ opts.prog = "epp" /\ streams > 0
    /\ exit' = "2"
    /\ UNCHANGED <<opts, flags, step, ctxDone, mgrErr, serverVars, synced, ready, signals>>

-----------------------------------------------------------------------------
\* Signals and the manager (external).

\* The EPP installs its handler before Run, the router after its manager is
\* created: an earlier signal kills it.  The first signal cancels the context,
\* the second ends the process.
Signal ==
    /\ exit = "none"
    /\ IF opts.prog = "epp" \/ Past("manager")
         THEN /\ signals' = signals + 1 /\ ctxDone' = TRUE
              /\ IF signals = 0 THEN UNCHANGED <<exit, cut>>
                 ELSE exit' = "1" /\ cut' = (cut \/ streams > 0)
         ELSE exit' = "killed" /\ UNCHANGED <<ctxDone, signals, cut>>
    /\ UNCHANGED <<opts, flags, step, mgrErr, server, watcher, streams, synced, ready>>

\* A runnable of the manager's own fails: the metrics server cannot listen, a
\* cache does not sync.
ManagerRunnableFails ==
    /\ Running /\ ~ctxDone
    /\ server["manager"] = "serving"
    /\ To("manager", "failed")
    /\ UNCHANGED <<opts, flags, step, ctxDone, mgrErr, watcher, streams, cut, synced, ready, exit, signals>>

\* An error from a runnable stops the others; once stopping it is only logged.
ManagerError ==
    /\ Running /\ ~ctxDone
    /\ \E s \in Runnables : server[s] = "failed"
    /\ mgrErr' = TRUE /\ ctxDone' = TRUE
    /\ UNCHANGED <<opts, flags, step, serverVars, synced, ready, exit, signals>>

\* The manager's own runnables return in time.
ManagerReturns ==
    /\ Running /\ ctxDone
    /\ \A s \in Servers : server[s] \in {"returned", "failed"}
    /\ exit' = IF mgrErr THEN "1" ELSE "0"
    /\ UNCHANGED <<opts, flags, step, ctxDone, mgrErr, serverVars, synced, ready, signals>>

\* The grace period is long compared with the servers' own steps: it ends
\* only when they have nothing left to do but wait.
GracePeriodEnds ==
    /\ Running /\ ctxDone
    /\ \E s \in Servers : server[s] \notin {"returned", "failed"}
    /\ \A s \in Servers : ~CanStep(s)
    /\ cut' = (cut \/ streams > 0)
    /\ exit' = "1"
    /\ UNCHANGED <<opts, flags, step, ctxDone, mgrErr, server, watcher, streams, synced, ready, signals>>

Manager == ManagerError \/ ManagerReturns \/ GracePeriodEnds

Next == \/ Setup
        \/ \E s \in Servers : ServerStep(s)
        \/ OpenStream \/ EndStream \/ PoolChanges \/ Check \/ RefreshLoopPanics
        \/ HandlerPanics \/ ManagerRunnableFails \/ Signal \/ Manager

\* Goroutines that can go on do; streams need not end and pools need not sync.
Fairness == /\ WF_vars(Setup)
            /\ \A s \in Servers : WF_vars(ServerStep(s))
            /\ WF_vars(Manager)

Spec == Init /\ [][Next]_vars /\ Fairness

-----------------------------------------------------------------------------
\* The value of flag f that counts is zero: the argument's, or without an
\* argument the environment's, where one that does not parse counts as zero.
ZeroSetting(f) ==
    IF f \in DOMAIN opts.args
      THEN Parsed(opts.args[f]) = "zero"
      ELSE f \in BoundFlags /\ opts.env[f] # "" /\ Parsed(opts.env[f]) = "zero"

\* The exit status is honest.  0: help was asked for, or one signal came and
\* every accepted stream was finished, unless the server itself failed
\* meanwhile.  1 of a process that was set up: streams outlasted the grace
\* period, a second signal came, or a runnable failed and the manager saw it
\* before the signal.  2: an invalid argument, a panic while the plugins are
\* loaded from a configuration or while a stream is handled, or an interval of
\* the EPP that counts as zero, be it set by an argument or by an environment
\* variable that no argument overrides.
ExitHonest ==
    /\ exit = "0" =>
         \/ In("parse") /\ "help" \in DOMAIN opts.args
         \/ /\ signals = 1 /\ ~mgrErr /\ ~cut
            /\ (streams = 0 \/ server["ext-proc"] = "failed")
    /\ exit = "1" /\ step = Len(Steps) =>
         \/ cut
         \/ signals = 2
         \/ mgrErr /\ \E s \in Runnables : server[s] = "failed"
    /\ exit = "2" =>
         \/ In("parse") /\ \E f \in DOMAIN opts.args : opts.args[f] = "invalid"
         \/ In("plugins") /\ opts.config # "none"
         \/ /\ opts.prog = "epp" /\ step = Len(Steps)
            /\ \/ streams > 0
               \/ ZeroSetting("refresh-metrics-interval")
               \/ ZeroSetting("refresh-prometheus-metrics-interval")

ServerLost == \E s \in Servers : server[s] \in {"returned", "failed"}
Ended == exit # "none"

\* The process does not live on without one of its servers: whatever ended a
\* runnable, and whatever streams are open, the process ends too.
ServerLossEndsProcess == ServerLost ~> Ended
=============================================================================
