------------------------------ MODULE Services ------------------------------
(***************************************************************************)
(* Services around request handling that promise something about every     *)
(* state they reach, side by side: the body-based router, the process that *)
(* starts the endpoint picker's servers, and the data layer's collector.   *)
(* They share no state.                                                    *)
(***************************************************************************)
EXTENDS Sequences

CONSTANTS Bodies, MaxChunks,                                    \* the router's
          Options, MaxStreams,                                  \* the process's
          Sources, Pages, Specifications, MaxPageChanges, TrimSpace(_) \* the collector's

VARIABLES streaming, kind, envoy, inbox, chunks, buffer, outbox, sent, state,
          counters,
          opts, flags, step, ctxDone, mgrErr, server, watcher, streams, cut,
          synced, ready, exit, signals,
          registry, extractors, starts, running, context, parent, loop, stopped,
          endpoint, legacy, shown, clear, pageChanges

routerVars == <<streaming, kind, envoy, inbox, chunks, buffer, outbox, sent, state,
                counters>>
processVars == <<opts, flags, step, ctxDone, mgrErr, server, watcher, streams, cut,
                 synced, ready, exit, signals>>
collectorVars == <<registry, extractors, starts, running, context, parent, loop,
                   stopped, endpoint, legacy, shown, clear, pageChanges>>

Router == INSTANCE BBRStream
Process == INSTANCE EppStartup
Collector == INSTANCE DataLayer WITH server <- shown, changes <- pageChanges,
                                     MaxChanges <- MaxPageChanges

-----------------------------------------------------------------------------
\* A streamed request is forwarded whole and in order, behind the header that
\* names its model (pkg/bbr/handlers).
StreamedRequestIntact == Router!StreamedRequestIntact

\* The exit status tells how the process ended (cmd/epp/runner).
ExitHonest == Process!ExitHonest

\* On clear pages the data layer's extractor and the scraper agree
\* (pkg/epp/datalayer/metrics and pkg/epp/backend/metrics).
ExtractorsAgree == Collector!ExtractorsAgree
=============================================================================
