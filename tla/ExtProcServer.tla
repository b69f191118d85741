--------------------------- MODULE ExtProcServer ---------------------------
(***************************************************************************)
(* The endpoint picker's request path: one goroutine per ext-proc stream    *)
(* (pkg/epp/handlers), the director it calls (pkg/epp/requestcontrol), the  *)
(* saturation detector, and the metrics they record.  Envoy is the other    *)
(* end of a stream: it sends headers, body chunks and trailers of a request *)
(* and then of its response, may answer by itself at any time (a local      *)
(* reply), and may close or break the stream.                               *)
(*                                                                          *)
(* Bodies are abstracted to their lengths; the buffer the request and the   *)
(* response share keeps how many bytes of each it holds.  The store is read *)
(* where the director reads it, and may change between two reads.           *)
(***************************************************************************)
EXTENDS Integers, Sequences, FiniteSets, SequencesExt, FiniteSetsExt

CONSTANTS Streams, Pods,
          Loads,          \* functions from streams to the exchanges they may carry: [req, resp]
          Metrics,        \* what a pod may report: [age, queue, kv]
          Criticality,    \* of an objective's name, or Absent; Absent: no such objective
          Env,            \* environment variables of the detector: a number or Absent
          bodyByteLimit,  \* longest chunk sent to Envoy
          MaxEndpoints,   \* the picker's maxNumOfEndpoints
          MaxChanges,     \* bound on changes of the store
          Absent

ASSUME StreamsAssumption == IsFiniteSet(Streams)
ASSUME LimitAssumption == bodyByteLimit \in Nat \ {0}
\* A criticality is an int or nil.
ASSUME CriticalityAssumption == \A o \in DOMAIN Criticality : Criticality[o] \in Int \cup {Absent}
\* Bodies are sequences of chunks, and are encoded again to some length.
ASSUME LoadsAssumption ==
  \A l \in Loads, s \in Streams :
    /\ \A r \in l[s].req : r.chunks \in Seq(Nat) /\ r.out \in Nat /\ r.trailers \in BOOLEAN
    /\ \A r \in l[s].resp : /\ r.chunks \in Seq(Nat) /\ r.out \in Nat /\ r.done \in Nat
                            /\ r.trailers \in BOOLEAN /\ r.ok \in BOOLEAN /\ r.streaming \in BOOLEAN

VARIABLES load,      \* what this behaviour's clients and model servers do
          pc,        \* of a stream's goroutine
          phase, next, \* what Envoy sends next, and which chunk of a body
          req, resp, \* the exchange the stream carries
          ctx,       \* RequestContext
          body,      \* the shared buffer: bytes of the request and of the response
          err,       \* Process's err
          targets,   \* pods of the scheduling result
          todo,      \* pods the detector has still to look at
          sent,      \* what Envoy has been sent
          recorded,  \* what the stream has added to the counters
          running,   \* the running-requests gauge
          pool, podSet, metrics, changes, \* the store: target port, pods, their metrics
          ever, always, \* history: pods with good capacity at some, at every moment of a check
          crashed    \* the process has panicked

streamVars == <<pc, phase, next, req, resp, ctx, body, err, targets, todo, sent, recorded>>
storeVars == <<load, pool, podSet, metrics, changes>>
vars == <<streamVars, running, storeVars, ever, always, crashed>>

Ports == {1, 2}
Models == {r.model : r \in UNION {l[s].req : l \in Loads, s \in Streams}} \ {Absent}
\* RequestState: 0 RequestReceived, 1 and 2 its header and body answered,
\* 4 ResponseRecieved, 5 and 6 its header and body passed on.
RequestStates == {0, 1, 2, 4, 5, 6}
Codes == {"BadRequest", "Internal", "ServiceUnavailable", "InferencePoolResourceExhausted", "Unknown"}
ImmediateCodes == Codes \ {"Unknown"}
\* nil is no error code.
ASSUME AbsentAssumption == Absent \notin Codes

Message(kind, size, eos) == [kind |-> kind, size |-> size, eos |-> eos]
NoRecords == [requests |-> 0, errors |-> 0, latencies |-> 0, tokens |-> 0]
EmptyCtx == [state |-> 0, model |-> Absent, streaming |-> FALSE, status |-> FALSE,
             isRunning |-> FALSE, reqHeaderResp |-> Absent, reqBodyResp |-> <<>>,
             respHeaderResp |-> FALSE, respBodyResp |-> <<>>]

-----------------------------------------------------------------------------
(* Operators of the code.                                                   *)

\* buildCommonResponses: chunks of at most bodyByteLimit bytes, one if empty.
buildCommonResponses(kind, len, setEos) ==
  LET n == IF len = 0 THEN 1 ELSE (len + bodyByteLimit - 1) \div bodyByteLimit
  IN [i \in 1..n |-> Message(kind, IF i < n THEN bodyByteLimit ELSE len - (n - 1) * bodyByteLimit,
                             setEos /\ i = n)]

generateRequestBodyResponses(len) == buildCommonResponses("reqBody", len, TRUE)
generateResponseBodyResponses(len, setEos) == buildCommonResponses("respBody", len, setEos)

\* Headers and dynamic metadata name the endpoints; the length follows a mutated body.
generateRequestHeaderResponse(pods, port, size) ==
  [kind |-> "reqHeaders", size |-> size, eos |-> FALSE, endpoints |-> pods, port |-> port]

ExtractPromptFromRequestBody(r) ==
  IF r.messages # Absent THEN r.messages = "list" ELSE r.prompt = "string"

\* HandleRequest refuses a body without a model or a prompt.
Understood(r) == r.model # Absent /\ ExtractPromptFromRequestBody(r)

\* getEnvWithParser with the range check of LoadConfigFromEnv.
FromEnv(v, default, Valid) == IF v = Absent \/ v \notin Valid THEN default ELSE v
QueueDepthThreshold == FromEnv(Env.queue, 5, Nat \ {0})
KVCacheUtilThreshold == FromEnv(Env.kv, 80, 1 .. 99)
MetricsStalenessThreshold == FromEnv(Env.staleness, 200, Nat \ {0})

GoodCapacity(m) ==
  /\ m.age <= MetricsStalenessThreshold
  /\ m.queue <= QueueDepthThreshold
  /\ m.kv <= KVCacheUtilThreshold

\* An objective that is missing or has no criticality counts as 0.
CriticalityOf(r) ==
  IF r.objective \in DOMAIN Criticality /\ Criticality[r.objective] # Absent
  THEN Criticality[r.objective] ELSE 0

\* Mutant: the subset hint is ignored.
AllPods(r) == podSet

getCandidatePodsForScheduling(r) == IF r.subset = Absent THEN podSet ELSE podSet \cap r.subset

\* Inc and Dec of the gauge; a request without a model name is not counted.
AddRunning(m, d) == running' = IF m \in Models THEN [running EXCEPT ![m] = @ + d] ELSE running

\* Mutant: headers that have been answered are answered again.
ToSendHeadersAgain(c) ==
  LET reqB == c.state <= 1 /\ c.reqBodyResp # <<>>
      respB == c.state = 5 /\ c.respBodyResp # <<>>
      respH == c.state \in 4..5 /\ c.respHeaderResp
  IN [msgs |-> (IF c.state <= 1 /\ c.reqHeaderResp # Absent THEN <<c.reqHeaderResp>> ELSE <<>>)
                \o (IF reqB THEN c.reqBodyResp ELSE <<>>)
                \o (IF respH THEN <<Message("respHeaders", 0, FALSE)>> ELSE <<>>)
                \o (IF respB THEN c.respBodyResp ELSE <<>>),
      starts |-> reqB,
      ctx |-> [c EXCEPT !.state = IF reqB THEN 2 ELSE IF respH THEN 5 ELSE @,
                        !.reqBodyResp = <<>>, !.respBodyResp = <<>>,
                        !.isRunning = @ \/ reqB]]
\* What updateStateAndSendIfNeeded sends, and the context it leaves.
ToSend(c) ==
  LET reqH == c.state = 0 /\ c.reqHeaderResp # Absent
      reqB == (reqH \/ c.state = 1) /\ c.reqBodyResp # <<>>
      respH == c.state = 4 /\ c.respHeaderResp
      respB == (respH \/ c.state = 5) /\ c.respBodyResp # <<>>
  IN [msgs |-> (IF reqH THEN <<c.reqHeaderResp>> ELSE <<>>)
                \o (IF reqB THEN c.reqBodyResp ELSE <<>>)
                \o (IF respH THEN <<Message("respHeaders", 0, FALSE)>> ELSE <<>>)
                \o (IF respB THEN c.respBodyResp ELSE <<>>),
      starts |-> reqB,
      ctx |-> [c EXCEPT !.state = IF reqB THEN 2 ELSE IF reqH THEN 1
                                  ELSE IF respB /\ Last(c.respBodyResp).eos THEN 6
                                  ELSE IF respH THEN 5 ELSE @,
                        !.reqBodyResp = IF reqB THEN <<>> ELSE @,
                        !.respBodyResp = IF respB THEN <<>> ELSE @,
                        !.isRunning = @ \/ reqB]]

\* Mutant: a request that ran does not give the gauge back.
CloseWithoutDec(s, e) ==
  /\ pc' = [pc EXCEPT ![s] = "closed"]
  /\ err' = [err EXCEPT ![s] = e]
  /\ recorded' = [recorded EXCEPT ![s].errors = IF ctx[s].status \/ e # Absent THEN @ + 1 ELSE @]
  /\ UNCHANGED running
\* Process's deferred function: an error is counted once, the gauge given back.
\* The error counter prefers the model server's status to err.
Close(s, e) ==
  /\ pc' = [pc EXCEPT ![s] = "closed"]
  /\ err' = [err EXCEPT ![s] = e]
  /\ recorded' = [recorded EXCEPT ![s].errors = IF ctx[s].status \/ e # Absent THEN @ + 1 ELSE @]
  /\ IF ctx[s].isRunning THEN AddRunning(ctx[s].model, -1) ELSE UNCHANGED running

-----------------------------------------------------------------------------
(* Messages from Envoy: the switch of Process's loop.                       *)

\* Envoy's message of the phase has been received, and the next one will be to.
Received(s, from, to) ==
  /\ ~crashed /\ pc[s] = "recv" /\ phase[s] = from
  /\ phase' = [phase EXCEPT ![s] = to]
  /\ next' = [next EXCEPT ![s] = IF from = to THEN @ + 1 ELSE 1]
Body(s, len) == body' = [body EXCEPT ![s] = len]

\* Mutant: the request's bytes stay in the buffer.
KeepBody(s) == UNCHANGED body
\* "Body stream complete. Allocate empty slice for response to use."
EmptyBody(s) == Body(s, [req |-> 0, resp |-> 0])

Goto(s, l) == pc' = [pc EXCEPT ![s] = l]
Fail(s, code) == Goto(s, "error") /\ err' = [err EXCEPT ![s] = code]
\* admitRequest turns the request down because the system is saturated.
Shed(s) == Goto(s, "shed") /\ err' = [err EXCEPT ![s] = "InferencePoolResourceExhausted"]

\* The pods a draw can return; no pod without one.
GetRandomPod == IF podSet = {} THEN {Absent} ELSE podSet

\* HandleRequestHeaders: a request without a body goes to a random pod.
RequestHeaders(s) == \E r \in load[s].req :
  /\ req' = [req EXCEPT ![s] = r]
  /\ Received(s, "new", IF r.chunks = <<>> THEN "upstream" ELSE "reqBody")
  /\ \/ /\ r.chunks # <<>>
        /\ Goto(s, "send") /\ UNCHANGED <<err, targets>>
     \/ /\ r.chunks = <<>> /\ Absent \in GetRandomPod
        /\ Fail(s, "Internal") /\ UNCHANGED targets
     \/ /\ r.chunks = <<>>
        /\ \E p \in GetRandomPod \ {Absent} : targets' = [targets EXCEPT ![s] = {p}]
        /\ Goto(s, "randomPod") /\ UNCHANGED err
  /\ UNCHANGED <<resp, ctx, body, todo, sent, recorded, running, storeVars, ever, always, crashed>>

\* The port is read after the pod was chosen; no pool is an error without a code.
RandomPodPort(s) ==
  /\ ~crashed /\ pc[s] = "randomPod"
  /\ IF pool = Absent THEN Fail(s, "Unknown") /\ UNCHANGED ctx
     ELSE /\ ctx' = [ctx EXCEPT ![s].reqHeaderResp = generateRequestHeaderResponse(targets[s], pool, 0)]
          /\ Goto(s, "send") /\ UNCHANGED err
  /\ UNCHANGED <<phase, next, req, resp, body, targets, todo, sent, recorded, running, storeVars, ever,
                 always, crashed>>

\* A chunk is buffered.  The last one is decoded, the buffer emptied for the
\* response, and the director rejects what it cannot parse.
RequestBody(s) ==
  LET r == req[s]
      n == next[s]
      buffered == [body[s] EXCEPT !.req = @ + r.chunks[n]]
  IN /\ Received(s, "reqBody", IF n < Len(r.chunks) THEN "reqBody"
                               ELSE IF r.trailers THEN "reqTrailers" ELSE "upstream")
     /\ \/ /\ n < Len(r.chunks) \/ r.trailers
           /\ Body(s, buffered) /\ Goto(s, "send") /\ UNCHANGED <<ctx, err>>
        \/ /\ n = Len(r.chunks) /\ ~r.trailers /\ ~r.json
           /\ Body(s, buffered) /\ Fail(s, "BadRequest") /\ UNCHANGED ctx
        \/ /\ n = Len(r.chunks) /\ ~r.trailers /\ r.json
           /\ EmptyBody(s)
           /\ ctx' = [ctx EXCEPT ![s].model = r.model]
           /\ IF Understood(r) THEN Goto(s, "admit") /\ UNCHANGED err
              ELSE Fail(s, "BadRequest")
     /\ UNCHANGED <<req, resp, targets, todo, sent, recorded, running, storeVars, ever, always, crashed>>

\* Trailers of a request or a response are ignored.
Trailers(s) ==
  /\ \/ Received(s, "reqTrailers", "upstream")
     \/ Received(s, "respTrailers", "end")
  /\ Goto(s, "send")
  /\ UNCHANGED <<req, resp, ctx, body, err, targets, todo, sent, recorded, running, storeVars, ever,
                 always, crashed>>

\* The answer to the response's headers, whatever HandleResponseHeaders returns.
generateResponseHeaderResponse(c) == [c EXCEPT !.respHeaderResp = TRUE]

\* The model server's response, or a local reply that cuts the request short.
ResponseHeaders(s) == \E r \in load[s].resp :
  /\ resp' = [resp EXCEPT ![s] = r]
  /\ \E from \in {"reqBody", "reqTrailers", "upstream"} :
       Received(s, from, IF r.chunks = <<>> THEN "end" ELSE "respBody")
  /\ ctx' = [ctx EXCEPT ![s] = generateResponseHeaderResponse(
                [@ EXCEPT !.status = ~r.ok, !.streaming = r.streaming, !.state = 4])]
  /\ Goto(s, "send")
  /\ targets' = [targets EXCEPT ![s] = {}]
  /\ UNCHANGED <<req, body, err, todo, sent, recorded, running, storeVars, ever, always, crashed>>

\* RecordInputTokens and RecordOutputTokens observe positive counts only, so
\* usage that is missing, or lacks a count, leaves the histograms alone.
TokensOf(usage) == IF usage = "full" THEN 1 ELSE 0

\* Lines that are data and not the end mark are decoded; one that does not fit
\* is skipped.
parseRespForUsage(r) == IF r.usage = "full" THEN r.usage ELSE "none"

\* HandleResponseBodyModelStreaming looks for the usage in the chunk with the end mark.
EndMark(s) == next[s] = resp[s].done

\* A streamed chunk is passed on.
StreamedChunk(s, len, eos) ==
  /\ ctx' = [ctx EXCEPT ![s].respBodyResp = generateResponseBodyResponses(len, eos)]
  /\ recorded' = [recorded EXCEPT ![s].tokens = IF EndMark(s) THEN @ + TokensOf(parseRespForUsage(resp[s])) ELSE @,
                                  ![s].latencies = IF eos THEN @ + 1 ELSE @]
  /\ Goto(s, "send")
  /\ UNCHANGED <<body, crashed>>

\* HandleResponseBody: a body that does not parse passes as it is; otherwise it
\* is encoded again.  Usage of another shape panics, and with it the process.
WholeBody(s, buffered) ==
  LET len == buffered.req + buffered.resp
      parsed == resp[s].json /\ buffered.req = 0
  IN /\ Body(s, buffered)
     /\ crashed' = (parsed /\ resp[s].usage = "partial")
     /\ ctx' = [ctx EXCEPT ![s].respBodyResp =
                  generateResponseBodyResponses(IF parsed THEN resp[s].out ELSE len, TRUE)]
     /\ recorded' = IF parsed THEN [recorded EXCEPT ![s].tokens = @ + TokensOf(resp[s].usage), ![s].latencies = @ + 1]
                    ELSE recorded
     /\ Goto(s, "send")

ResponseBody(s) ==
  LET r == resp[s]
      n == next[s]
      eos == n = Len(r.chunks) /\ ~r.trailers
      buffered == [body[s] EXCEPT !.resp = @ + r.chunks[n]]
  IN /\ Received(s, "respBody", IF n < Len(r.chunks) THEN "respBody"
                                ELSE IF r.trailers THEN "respTrailers" ELSE "end")
     /\ \/ ctx[s].streaming /\ StreamedChunk(s, r.chunks[n], eos)
        \/ ~ctx[s].streaming /\ eos /\ WholeBody(s, buffered)
        \/ /\ ~ctx[s].streaming /\ ~eos
           /\ Body(s, buffered) /\ Goto(s, "send") /\ UNCHANGED <<ctx, recorded, crashed>>
     /\ UNCHANGED <<req, resp, err, targets, todo, sent, running, storeVars, ever, always>>

\* EOF, cancellation or a receive error; none of them sets err.
StreamEnds(s) ==
  /\ ~crashed /\ pc[s] = "recv"
  /\ Close(s, Absent)
  /\ UNCHANGED <<phase, next, req, resp, ctx, body, targets, todo, sent, storeVars, ever, always, crashed>>

-----------------------------------------------------------------------------
(* The director.                                                            *)

\* admitRequest: critical requests pass, the others ask the detector, which
\* lists the pods; without pods the system counts as saturated.
AdmitRequest(s) ==
  /\ ~crashed /\ pc[s] = "admit"
  /\ \/ /\ CriticalityOf(req[s]) >= 2
        /\ Goto(s, "schedule") /\ UNCHANGED <<err, todo, ever, always>>
     \/ /\ CriticalityOf(req[s]) < 2 /\ podSet = {}
        /\ ever' = [ever EXCEPT ![s] = {}] /\ always' = [always EXCEPT ![s] = {}]
        /\ Shed(s) /\ UNCHANGED todo
     \/ /\ CriticalityOf(req[s]) < 2 /\ podSet # {}
        /\ todo' = [todo EXCEPT ![s] = podSet]
        /\ ever' = [ever EXCEPT ![s] = {p \in podSet : GoodCapacity(metrics[p])}]
        /\ always' = [always EXCEPT ![s] = {p \in podSet : GoodCapacity(metrics[p])}]
        /\ Goto(s, "saturated") /\ UNCHANGED err
  /\ UNCHANGED <<phase, next, req, resp, ctx, body, targets, sent, recorded, running, storeVars, crashed>>

\* Mutant: the first pod without capacity counts for all.
CheckPodHasty(s, p) ==
  /\ ~crashed /\ pc[s] = "saturated" /\ p \in todo[s]
  /\ todo' = [todo EXCEPT ![s] = {}]
  /\ IF GoodCapacity(metrics[p]) THEN Goto(s, "schedule") /\ UNCHANGED err ELSE Shed(s)
  /\ UNCHANGED <<phase, next, req, resp, ctx, body, targets, sent, recorded, running, storeVars, ever, always, crashed>>
\* IsSaturated reads one pod's metrics at a time.
CheckPod(s, p) ==
  /\ ~crashed /\ pc[s] = "saturated" /\ p \in todo[s]
  /\ \/ /\ GoodCapacity(metrics[p])
        /\ todo' = [todo EXCEPT ![s] = {}]
        /\ Goto(s, "schedule") /\ UNCHANGED err
     \/ /\ ~GoodCapacity(metrics[p])
        /\ todo' = [todo EXCEPT ![s] = @ \ {p}]
        /\ IF todo[s] = {p} THEN Shed(s) ELSE UNCHANGED <<pc, err>>
  /\ UNCHANGED <<phase, next, req, resp, ctx, body, targets, sent, recorded, running, storeVars, ever, always, crashed>>

\* The candidates are listed and the scheduler picks some of them, or none.
Schedule(s) ==
  LET candidates == getCandidatePodsForScheduling(req[s])
  IN /\ ~crashed /\ pc[s] = "schedule"
     /\ \/ /\ candidates = {}
           /\ Fail(s, "ServiceUnavailable") /\ UNCHANGED targets
        \/ /\ candidates # {}
           /\ Fail(s, "InferencePoolResourceExhausted") /\ UNCHANGED targets
        \/ /\ \E T \in SUBSET candidates : /\ T # {} /\ Cardinality(T) <= MaxEndpoints
                                             /\ targets' = [targets EXCEPT ![s] = T]
           /\ Goto(s, "prepare") /\ UNCHANGED err
     /\ UNCHANGED <<phase, next, req, resp, ctx, body, todo, sent, recorded, running, storeVars, ever,
                    always, crashed>>

\* prepareRequest reads the pool's port; Process then builds the answers.
PrepareRequest(s) ==
  /\ ~crashed /\ pc[s] = "prepare"
  /\ \/ pool = Absent /\ Fail(s, "Unknown") /\ UNCHANGED <<ctx, recorded>>
     \/ /\ pool # Absent
        /\ ctx' = [ctx EXCEPT ![s].reqHeaderResp = generateRequestHeaderResponse(targets[s], pool, req[s].out),
                              ![s].reqBodyResp = generateRequestBodyResponses(req[s].out)]
        /\ recorded' = [recorded EXCEPT ![s].requests = @ + 1]
        /\ Goto(s, "send") /\ UNCHANGED err
  /\ ever' = [ever EXCEPT ![s] = {}] /\ always' = [always EXCEPT ![s] = {}]
  /\ UNCHANGED <<phase, next, req, resp, body, targets, todo, sent, running, storeVars, crashed>>

-----------------------------------------------------------------------------
(* The end of an iteration: an immediate response, or what can be sent.      *)

\* Mutant: the error is logged and the loop goes on.
ErrorLogged(s) ==
  /\ ~crashed /\ pc[s] \in {"error", "shed"}
  /\ Goto(s, "recv")
  /\ UNCHANGED <<phase, next, req, resp, ctx, body, err, targets, todo, sent, recorded, running, storeVars, ever, always, crashed>>
\* buildErrResponse knows the codes of the picker; any other error ends the
\* stream without an answer.  A failed Send ends it too.
ErrorResponse(s) ==
  /\ ~crashed /\ pc[s] \in {"error", "shed"}
  /\ \/ sent' = IF err[s] \in ImmediateCodes
                THEN [sent EXCEPT ![s] = Append(@, Message("immediate", 0, TRUE))] ELSE sent
     \/ UNCHANGED sent
  /\ Close(s, err[s])
  /\ UNCHANGED <<phase, next, req, resp, ctx, body, targets, todo, storeVars, ever, always, crashed>>

UpdateStateAndSendIfNeeded(s) ==
  LET out == ToSend(ctx[s])
  IN /\ ~crashed /\ pc[s] = "send"
     /\ sent' = [sent EXCEPT ![s] = @ \o out.msgs]
     /\ ctx' = [ctx EXCEPT ![s] = out.ctx]
     /\ IF out.starts THEN AddRunning(ctx[s].model, 1) ELSE UNCHANGED running
     /\ Goto(s, "recv")
     /\ UNCHANGED <<phase, next, req, resp, body, err, targets, todo, recorded, storeVars, ever, always, crashed>>

SendFails(s) ==
  LET out == ToSend(ctx[s])
  IN /\ ~crashed /\ pc[s] = "send" /\ out.msgs # <<>>
     /\ \E k \in 0..(Len(out.msgs) - 1) : sent' = [sent EXCEPT ![s] = @ \o SubSeq(out.msgs, 1, k)]
     /\ Close(s, Absent)
     /\ UNCHANGED <<phase, next, req, resp, ctx, body, targets, todo, storeVars, ever, always, crashed>>

\* Process has returned and its locals are gone.
Return(s) ==
  /\ ~crashed /\ pc[s] = "closed"
  /\ Goto(s, "returned")
  /\ phase' = [phase EXCEPT ![s] = "end"] /\ next' = [next EXCEPT ![s] = 1]
  /\ req' = [req EXCEPT ![s] = Absent] /\ resp' = [resp EXCEPT ![s] = Absent]
  /\ ctx' = [ctx EXCEPT ![s] = EmptyCtx]
  /\ body' = [body EXCEPT ![s] = [req |-> 0, resp |-> 0]]
  /\ err' = [err EXCEPT ![s] = Absent]
  /\ targets' = [targets EXCEPT ![s] = {}] /\ todo' = [todo EXCEPT ![s] = {}]
  /\ sent' = [sent EXCEPT ![s] = <<>>] /\ recorded' = [recorded EXCEPT ![s] = NoRecords]
  /\ ever' = [ever EXCEPT ![s] = {}] /\ always' = [always EXCEPT ![s] = {}]
  /\ UNCHANGED <<running, storeVars, crashed>>

-----------------------------------------------------------------------------
(* The store changes under the streams' feet.  A deleted pod's name does not  *)
(* come back; the last metrics of its object stay readable.  Changes that no  *)
(* stream can see any more are left out.                                      *)

ChangeStore ==
  /\ changes < MaxChanges /\ changes' = changes + 1
  /\ \E s \in Streams : pc[s] \in {"randomPod", "admit", "saturated", "schedule", "prepare"} \/ phase[s] = "new"
  /\ \/ \E v \in (Ports \cup {Absent}) \ {pool} : pool' = v /\ UNCHANGED <<podSet, metrics>>
     \/ \E p \in podSet : podSet' = podSet \ {p} /\ UNCHANGED <<pool, metrics>>
     \/ \E p \in podSet, m \in Metrics : metrics' = [metrics EXCEPT ![p] = m] /\ UNCHANGED <<pool, podSet>>
  /\ ever' = [s \in Streams |-> ever[s] \cup {p \in todo[s] : GoodCapacity(metrics'[p])}]
  /\ always' = [s \in Streams |-> {p \in always[s] : p \in todo[s] => GoodCapacity(metrics'[p])}]
  /\ UNCHANGED <<load, streamVars, running, crashed>>

Init ==
  /\ load \in Loads
  /\ pc = [s \in Streams |-> "recv"]
  /\ phase = [s \in Streams |-> "new"] /\ next = [s \in Streams |-> 1]
  /\ req = [s \in Streams |-> Absent] /\ resp = [s \in Streams |-> Absent]
  /\ ctx = [s \in Streams |-> EmptyCtx]
  /\ body = [s \in Streams |-> [req |-> 0, resp |-> 0]]
  /\ err = [s \in Streams |-> Absent]
  /\ targets = [s \in Streams |-> {}] /\ todo = [s \in Streams |-> {}]
  /\ sent = [s \in Streams |-> <<>>]
  /\ recorded = [s \in Streams |-> NoRecords]
  /\ running = [m \in Models |-> 0]
  /\ pool \in {1, Absent} /\ podSet \in {{}, Pods} /\ metrics \in [Pods -> Metrics] /\ changes = 0
  /\ ever = [s \in Streams |-> {}] /\ always = [s \in Streams |-> {}]
  /\ crashed = FALSE

FromEnvoy(s) == \/ RequestHeaders(s) \/ RequestBody(s) \/ Trailers(s)
                \/ ResponseHeaders(s) \/ ResponseBody(s) \/ StreamEnds(s)
\* The director's steps on a request it has parsed.
HandleRequest(s) == \/ AdmitRequest(s) \/ \E p \in Pods : CheckPod(s, p)
                    \/ Schedule(s) \/ PrepareRequest(s)
Handler(s) == \/ RandomPodPort(s) \/ HandleRequest(s)
              \/ ErrorResponse(s) \/ UpdateStateAndSendIfNeeded(s) \/ SendFails(s)
              \/ Return(s)

Next == ChangeStore \/ \E s \in Streams : FromEnvoy(s) \/ Handler(s)

\* A goroutine that can go on does; Envoy owes it no message.
Spec == Init /\ [][Next]_vars /\ \A s \in Streams : WF_vars(Handler(s))

-----------------------------------------------------------------------------
(* Properties.                                                              *)

SizeOf(q) == FoldLeft(LAMBDA n, m : n + m.size, 0, q)
SentOf(s, kind) == SelectSeq(sent[s], LAMBDA m : m.kind = kind)
\* A message of the kind that ends its stream is in q.
Ends(q, kind) == \E i \in DOMAIN q : q[i].kind = kind /\ q[i].eos
\* Envoy has the whole request and the endpoint for it.
Forwarded(s) == Ends(sent[s], "reqBody")
Rank == [reqHeaders |-> 1, reqBody |-> 2, respHeaders |-> 3, respBody |-> 4, immediate |-> 5]
\* Envoy may be sent m and later n.
MayPrecede(m, n) == /\ Rank[m.kind] <= Rank[n.kind]
                    /\ m.kind = n.kind => m.kind \in {"reqBody", "respBody"} /\ ~m.eos
                    /\ m.kind # "immediate"
Ordered(q) == \A i, j \in DOMAIN q : i < j => MayPrecede(q[i], q[j])
\* The model server told its usage where the picker looks for it.
UsageReported(r) == r.usage = "full" /\ IF r.streaming THEN r.done \in DOMAIN r.chunks ELSE r.json

\* "For both request and response, the order of response sent back MUST be:
\* Header->Body->Trailer" (updateStateAndSendIfNeeded), whatever Envoy sends,
\* a local reply in the middle of the request body included: ranks never fall,
\* headers and immediate responses come once, nothing follows the end of a
\* body, and the request's answers never follow the response's.
ReplyOrder == \A s \in Streams : Ordered(sent[s])

\* A response that comes after its request was forwarded reaches Envoy whole,
\* in chunks below the limit, with nothing of the request in it: the buffer both
\* bodies share was emptied in between.
ResponseIntact ==
  \A s \in Streams :
    LET out == SentOf(s, "respBody")
        r == resp[s]
        whole == FoldLeft(+, 0, r.chunks)
    IN Forwarded(s) /\ out # <<>> =>
         /\ \A i \in DOMAIN out : out[i].size <= bodyByteLimit
         /\ Last(out).eos /\ pc[s] # "closed"
              => SizeOf(out) = IF r.json /\ ~r.streaming THEN r.out ELSE whole

\* However a stream ends (end of stream, failed send, error), the metrics tell
\* its story once.  The gauge shows, for each model, the open streams whose
\* whole request has been forwarded.  A finished stream has been counted once
\* as an error if Envoy got an immediate response or the model server failed,
\* and as a request before its body was forwarded; latency is recorded at most
\* once, and a response that went out whole has its tokens recorded just if the
\* model server reported them.
CountersExact ==
  /\ ~crashed => \A m \in Models :
       running[m] = Cardinality({s \in Streams : pc[s] # "closed" /\ Forwarded(s) /\ ctx[s].model = m})
  /\ \A s \in Streams :
       /\ \A f \in DOMAIN recorded[s] : recorded[s][f] <= 1
       /\ Forwarded(s) => recorded[s].requests = 1
       /\ Forwarded(s) /\ pc[s] = "recv" /\ Ends(sent[s], "respBody")
            => (recorded[s].tokens = 1 <=> UsageReported(resp[s]))
       /\ pc[s] = "closed" => (recorded[s].errors = 1 <=> \/ Ends(sent[s], "immediate")
                                                           \/ ctx[s].status
                                                           \/ err[s] # Absent)

\* Although the detector reads the pods one by one while they change: a request
\* is shed only if it is below criticality 2 and no pod had good capacity from
\* the listing of the pods until the detector looked at it; and one below
\* criticality 2 is let through only if some pod had it at some moment.
AdmissionSound ==
  \A s \in Streams :
    /\ pc[s] = "shed" => CriticalityOf(req[s]) < 2 /\ always[s] = {}
    /\ pc[s] \in {"schedule", "prepare"} /\ CriticalityOf(req[s]) < 2 => ever[s] # {}

\* A stream is routed to the pods the scheduler chose for it, and within the
\* subset Envoy asked for.
RoutedAsScheduled ==
  \A s \in Streams : \A i \in DOMAIN sent[s] : sent[s][i].kind = "reqHeaders" /\ phase[s] = "upstream" =>
    /\ sent[s][i].endpoints = targets[s] /\ targets[s] # {}
    /\ req[s].subset # Absent /\ req[s].chunks # <<>> => targets[s] \subseteq req[s].subset

\* A request whose end has been received is answered or its stream closed,
\* unless the process dies: no path of the director forgets to reply.
RequestAnswered ==
  \A s \in Streams : (phase[s] = "upstream" /\ ~req[s].trailers)
                       ~> (sent[s] # <<>> \/ pc[s] \in {"closed", "returned"} \/ crashed)
=============================================================================
