----------------------------- MODULE BBRStream -----------------------------
(***************************************************************************)
(* One ext-proc stream of the body-based router (pkg/bbr/handlers): Envoy  *)
(* sends the parts of a request and of its response, Process answers them  *)
(* and copies the body's model name into a header.  In streaming mode the  *)
(* answers to the request headers and body are held back until the last    *)
(* chunk has arrived.                                                      *)
(***************************************************************************)
EXTENDS Integers, Sequences

CONSTANTS Bodies,      \* kinds of request bodies: "model", "absent" (no model),
                       \* "other" (the model is not a string), "invalid" (not JSON)
          MaxChunks    \* bound: chunks of a request body

VARIABLES streaming,  \* Server.streaming
          kind,       \* the kind of body of this request
          envoy,      \* what Envoy sends next
          inbox,      \* messages on the stream Process has not received
          chunks,     \* history: the body chunks Envoy has sent
          buffer,     \* streamedBody.body
          outbox,     \* responses Process still has to send
          sent,       \* responses Envoy has received
          state,      \* "open", "closed" (nil returned) or "failed"
          counters    \* the counter metrics

vars == <<streaming, kind, envoy, inbox, chunks, buffer, outbox, sent, state,
          counters>>

Init == /\ streaming \in BOOLEAN
        /\ kind \in Bodies
        /\ envoy = "headers"
        /\ inbox = << >> /\ chunks = << >> /\ buffer = << >>
        /\ outbox = << >> /\ sent = << >>
        /\ state = "open"
        /\ counters = [success |-> 0, notInBody |-> 0, notParsed |-> 0]

-----------------------------------------------------------------------------
\* Envoy (external).  Without streaming it waits for each answer; with it the
\* request's parts follow one another unasked.

Ready == state = "open" /\ (streaming \/ (inbox = << >> /\ outbox = << >>))

Sends(message, next) ==
    /\ Ready
    /\ inbox' = Append(inbox, message)
    /\ envoy' = next
    /\ UNCHANGED <<streaming, kind, buffer, outbox, sent, state, counters>>

EnvoyHeaders ==
    /\ envoy = "headers"
    /\ \E end \in BOOLEAN :
         Sends([type |-> "requestHeaders", end |-> end],
               IF end THEN "response" ELSE "body")
    /\ UNCHANGED chunks

\* A buffered body is one message.
EnvoyBody ==
    /\ envoy = "body"
    /\ Len(chunks) < MaxChunks
    /\ chunks' = Append(chunks, Len(chunks) + 1)
    /\ \E end \in IF streaming THEN BOOLEAN ELSE {TRUE} :
         Sends([type |-> "requestBody", end |-> end, body |-> <<Len(chunks) + 1>>],
               IF end THEN "response" ELSE "body")

\* The request ends with trailers instead of a last chunk.
EnvoyTrailers ==
    /\ envoy = "body"
    /\ Sends([type |-> "requestTrailers", end |-> TRUE], "response")
    /\ UNCHANGED chunks

\* The response follows once the request has been answered.
EnvoyResponse ==
    /\ envoy \in {"response", "responseBody"}
    /\ inbox = << >> /\ outbox = << >> /\ sent # << >>
    /\ Sends([type |-> IF envoy = "response" THEN "responseHeaders" ELSE "responseBody",
              end |-> envoy = "responseBody"],
             IF envoy = "response" THEN "responseBody" ELSE "trailers")
    /\ UNCHANGED chunks

EnvoyResponseTrailers ==
    /\ envoy = "trailers"
    /\ Sends([type |-> "responseTrailers", end |-> TRUE], "end")
    /\ UNCHANGED chunks

\* Envoy closes the stream, or the client goes away.
EnvoyCloses ==
    /\ state = "open"
    /\ state' = "closed"
    /\ UNCHANGED <<streaming, kind, envoy, inbox, chunks, buffer, outbox, sent,
                   counters>>

-----------------------------------------------------------------------------
\* Process.

Reply(type, header, body) == [type |-> type, header |-> header, body |-> body]

\* HandleRequestHeaders, HandleRequestTrailers and the like.
EmptyReply(type) == Reply(type, {}, << >>)

\* The counter a body counts in; one that is not JSON counts in none.
CountModel ==
    [counters EXCEPT !.success = @ + (IF kind = "model" THEN 1 ELSE 0),
                     !.notInBody = @ + (IF kind = "absent" THEN 1 ELSE 0),
                     !.notParsed = @ + (IF kind = "other" THEN 1 ELSE 0)]

\* HandleRequestBody: the counter it counts, the responses it makes, and
\* whether it fails.  A streamed body is sent back whole behind the header
\* response; a buffered one is left alone.
HandleRequestBody(bytes) ==
    LET header == IF kind = "model" THEN {"X-Gateway-Model-Name"} ELSE {}
    IN  [error |-> kind \in {"invalid", "other"},
         replies |-> IF streaming
                       THEN <<Reply("requestHeaders", header, << >>),
                              Reply("requestBody", {}, bytes)>>
                       ELSE <<Reply("requestBody", header, << >>)>>,
         counters |-> CountModel]

\* The responses of one handler are sent before the next message is received.
Receive == state = "open" /\ outbox = << >> /\ inbox # << >> /\ inbox' = Tail(inbox)

RequestHeadersPassedOver ==
    /\ Receive
    /\ Head(inbox).type = "requestHeaders"
    /\ outbox' = IF streaming THEN << >> ELSE <<EmptyReply("requestHeaders")>>
    /\ UNCHANGED <<streaming, kind, envoy, chunks, buffer, sent, state, counters>>

\* Streaming passes the headers over until the body is there.
RequestHeaders ==
    /\ Receive
    /\ Head(inbox).type = "requestHeaders"
    /\ outbox' = IF streaming /\ ~Head(inbox).end
                   THEN << >> ELSE <<EmptyReply("requestHeaders")>>
    /\ UNCHANGED <<streaming, kind, envoy, chunks, buffer, sent, state, counters>>

ProcessRequestBodyLastChunk ==
    LET chunk == Head(inbox)
        result == HandleRequestBody(chunk.body)
    IN  /\ Receive
        /\ chunk.type = "requestBody"
        /\ buffer' = IF streaming THEN buffer \o chunk.body ELSE buffer
        /\ IF streaming /\ ~chunk.end
             THEN UNCHANGED <<outbox, state, counters>>
             ELSE /\ counters' = result.counters
                  /\ outbox' = IF result.error THEN << >> ELSE result.replies
                  /\ state' = IF result.error THEN "failed" ELSE state
        /\ UNCHANGED <<streaming, kind, envoy, chunks, sent>>

\* processRequestBody: streamed chunks are appended until the last one.
ProcessRequestBody ==
    LET chunk == Head(inbox)
        result == HandleRequestBody(IF streaming THEN buffer \o chunk.body ELSE chunk.body)
    IN  /\ Receive
        /\ chunk.type = "requestBody"
        /\ buffer' = IF streaming THEN buffer \o chunk.body ELSE buffer
        /\ IF streaming /\ ~chunk.end
             THEN UNCHANGED <<outbox, state, counters>>
             ELSE /\ counters' = result.counters
                  /\ outbox' = IF result.error THEN << >> ELSE result.replies
                  /\ state' = IF result.error THEN "failed" ELSE state
        /\ UNCHANGED <<streaming, kind, envoy, chunks, sent>>

\* Trailers, response headers and response bodies get an empty answer.
PassThrough ==
    /\ Receive
    /\ Head(inbox).type \in {"requestTrailers", "responseHeaders", "responseBody"}
    /\ outbox' = <<EmptyReply(Head(inbox).type)>>
    /\ UNCHANGED <<streaming, kind, envoy, chunks, buffer, sent, state, counters>>

\* Process has no case for response trailers: the stream fails.
UnknownRequest ==
    /\ Receive
    /\ Head(inbox).type = "responseTrailers"
    /\ state' = "failed"
    /\ UNCHANGED <<streaming, kind, envoy, chunks, buffer, outbox, sent, counters>>

Send ==
    /\ state = "open"
    /\ outbox # << >>
    /\ sent' = Append(sent, Head(outbox))
    /\ outbox' = Tail(outbox)
    /\ UNCHANGED <<streaming, kind, envoy, inbox, chunks, buffer, state, counters>>

SendFails ==
    /\ state = "open"
    /\ outbox # << >>
    /\ state' = "failed"
    /\ UNCHANGED <<streaming, kind, envoy, inbox, chunks, buffer, outbox, sent,
                   counters>>

Process == RequestHeaders \/ ProcessRequestBody \/ PassThrough
             \/ UnknownRequest \/ Send

Next == \/ EnvoyHeaders \/ EnvoyBody \/ EnvoyTrailers \/ EnvoyResponse
        \/ EnvoyResponseTrailers \/ EnvoyCloses
        \/ Process
        \/ SendFails

\* The goroutine of the stream is scheduled while there is a message.
Spec == Init /\ [][Next]_vars /\ WF_vars(Process)

-----------------------------------------------------------------------------
\* A streamed request reaches the upstream whole and in order: the first
\* answer is about the headers, and a body answer carries every chunk the
\* client sent, with the model header in front of it if the body names a model.
StreamedRequestIntact ==
    streaming =>
      \A i \in DOMAIN sent :
        sent[i].type = "requestBody" =>
           /\ i = 2 /\ sent[1].type = "requestHeaders"
           /\ sent[2].body = chunks
           /\ (sent[1].header # {}) = (kind = "model")

\* The whole request has been sent, and did not end with trailers.
Complete == /\ state = "open" /\ envoy = "response" /\ inbox # << >>
            /\ inbox[Len(inbox)].type # "requestTrailers"

\* Envoy has an answer to the request's body, or to its headers if that is all
\* there is.
Answered == IF chunks = << >> THEN sent # << >>
            ELSE \E i \in DOMAIN sent : sent[i].type = "requestBody"

\* A request whose last part was received is answered or its stream ends, in
\* both modes.  (One that ends with trailers in streaming mode is not: nothing
\* flushes the buffered body.)
RouterAnswers == Complete ~> (state # "open" \/ Answered)
=============================================================================
