--------------------------- MODULE ServiceProofs ---------------------------
(***************************************************************************)
(* Proofs about the components of Services and about PluginState.          *)
(*                                                                         *)
(*   Router     StreamedRequestIntact: the chunks of a body are numbered   *)
(*              as they are sent, so the invariant says that the buffer    *)
(*              holds the first ones and the inbox the ones that follow.   *)
(*   Process    ExitHonest: what the exit status tells has to hold from    *)
(*              the moment a flag is read or a server fails, long before   *)
(*              the process ends.                                          *)
(*   Collector  ExtractorsAgree: on an unambiguous page the two scrapers   *)
(*              find the same series, so the same metrics become the same  *)
(*              metrics.                                                   *)
(*   plugin     FreshDataKept: the cleanup can only have picked a request  *)
(*   state      in use whose access time was stale, and such a request has *)
(*              lapsed; that stays true between the moment the cleanup     *)
(*              looked and the two deletions it makes.                     *)
(***************************************************************************)
EXTENDS Services, PluginState, WellFoundedInduction, TLAPS

-----------------------------------------------------------------------------
\* Every non-empty set of natural numbers has a least element: the induction
\* of the proofs below.
LEMMA LeastNumber ==
    ASSUME NEW T, T \subseteq Nat, T # {}
    PROVE  \E x \in T : \A y \in T : x <= y
<1>1. PICK x \in T : \A y \in T : <<y, x>> \notin OpToRel(<, Nat)
  BY NatLessThanWellFounded, WFMin
<1>2. \A y \in T : ~(y < x)
  BY <1>1 DEF OpToRel
<1> QED
  BY <1>2

-----------------------------------------------------------------------------
\* Sequences.

LEMMA EmptySequence ==
    ASSUME NEW S, NEW s \in Seq(S)
    PROVE  s = << >> <=> Len(s) = 0
OBVIOUS

LEMMA TailFacts ==
    ASSUME NEW S, NEW s \in Seq(S), s # << >>
    PROVE  /\ Tail(s) \in Seq(S) /\ Len(s) \in Nat \ {0} /\ Len(Tail(s)) = Len(s) - 1
           /\ DOMAIN s = 1 .. Len(s) /\ DOMAIN Tail(s) = 1 .. Len(s) - 1
           /\ \A k \in 1 .. Len(s) - 1 : Tail(s)[k] = s[k + 1]
           /\ s[1] \in S /\ Head(s) = s[1] /\ 1 \in DOMAIN s
           /\ (Tail(s) = << >> <=> Len(s) = 1)
<1>1. Len(s) \in Nat \ {0} /\ DOMAIN s = 1 .. Len(s) /\ 1 \in DOMAIN s /\ s[1] \in S /\ Head(s) = s[1]
  OBVIOUS
<1>2. Tail(s) \in Seq(S) /\ Len(Tail(s)) = Len(s) - 1
  OBVIOUS
<1>3. DOMAIN Tail(s) = 1 .. Len(s) - 1
  <2> DEFINE t == Tail(s)
  <2>1. t \in Seq(S) /\ Len(t) = Len(s) - 1
    BY <1>2
  <2> HIDE DEF t
  <2>2. DOMAIN t = 1 .. Len(s) - 1
    BY <2>1
  <2> QED
    BY <2>2 DEF t
<1>4. \A k \in 1 .. Len(s) - 1 : Tail(s)[k] = s[k + 1]
  OBVIOUS
<1>5. Tail(s) = << >> <=> Len(s) = 1
  <2>1. Tail(s) = << >> <=> Len(Tail(s)) = 0
    BY <1>2, EmptySequence
  <2> QED
    BY <1>1, <1>2, <2>1
<1> QED
  BY <1>1, <1>2, <1>3, <1>4, <1>5

LEMMA AppendFacts ==
    ASSUME NEW S, NEW s \in Seq(S), NEW e \in S
    PROVE  /\ Append(s, e) \in Seq(S) /\ Len(Append(s, e)) = Len(s) + 1 /\ Len(s) \in Nat
           /\ DOMAIN s = 1 .. Len(s) /\ DOMAIN Append(s, e) = 1 .. Len(s) + 1
           /\ \A k \in 1 .. Len(s) : Append(s, e)[k] = s[k]
           /\ Append(s, e)[Len(s) + 1] = e
           /\ s \o <<e>> = Append(s, e)
<1>1. /\ Append(s, e) \in Seq(S) /\ Len(Append(s, e)) = Len(s) + 1 /\ Len(s) \in Nat
      /\ DOMAIN s = 1 .. Len(s)
  OBVIOUS
<1>2. DOMAIN Append(s, e) = 1 .. Len(s) + 1
  BY <1>1
<1>3. /\ \A k \in 1 .. Len(s) : Append(s, e)[k] = s[k]
      /\ Append(s, e)[Len(s) + 1] = e
  OBVIOUS
<1>4. s \o <<e>> = Append(s, e)
  OBVIOUS
<1> QED
  BY <1>1, <1>2, <1>3, <1>4

LEMMA SameSequence ==
    ASSUME NEW S, NEW s \in Seq(S), NEW t \in Seq(S), Len(s) = Len(t),
           \A k \in 1 .. Len(s) : s[k] = t[k]
    PROVE  s = t
OBVIOUS

-----------------------------------------------------------------------------
\* The body-based router.

\* The messages of a request, and the ones of its response.
RequestTypes == {"requestHeaders", "requestBody"}
OtherTypes == {"requestTrailers", "responseHeaders", "responseBody", "responseTrailers"}
RouterMessages ==
    [type : {"requestHeaders"} \union OtherTypes, end : BOOLEAN]
      \union [type : {"requestBody"}, end : BOOLEAN, body : Seq(Nat)]
RouterReplies == [type : {"requestHeaders", "requestBody"} \union OtherTypes, header : SUBSET {"X-Gateway-Model-Name"},
                  body : Seq(Nat)]

RouterTyped ==
    /\ inbox \in Seq(RouterMessages)
    /\ outbox \in Seq(RouterReplies) /\ sent \in Seq(RouterReplies)
    /\ chunks \in Seq(Nat) /\ buffer \in Seq(Nat)

\* The headers are still in the inbox, in front of the chunks.
HeadersWaiting == IF inbox # << >> /\ inbox[1].type = "requestHeaders" THEN 1 ELSE 0

\* The number of the chunk at place k of the inbox.
ChunkAt(k) == Len(buffer) + k - HeadersWaiting

\* Chunks are numbered as they are sent: the buffer has the first ones, the
\* inbox the ones that follow, and one marked as the end is the last.
ChunksInOrder ==
    /\ \A k \in DOMAIN chunks : chunks[k] = k
    /\ \A k \in DOMAIN buffer : buffer[k] = k
    /\ \A k \in DOMAIN inbox : inbox[k].type = "requestHeaders" => k = 1
    /\ \A k \in DOMAIN inbox : inbox[k].type = "requestBody" =>
         /\ inbox[k].body = <<ChunkAt(k)>> /\ ChunkAt(k) <= Len(chunks)
         /\ inbox[k].end => ChunkAt(k) = Len(chunks) /\ envoy # "body"
    /\ envoy = "headers" => inbox = << >> /\ chunks = << >> /\ buffer = << >>
    /\ envoy = "body" => /\ Len(chunks) = ChunkAt(Len(inbox))
                         /\ \A k \in DOMAIN inbox : inbox[k].type \in RequestTypes

\* Nothing but the request's headers and chunks is in front of a chunk.
ChunksFirst ==
    \A k \in DOMAIN inbox : inbox[k].type = "requestBody" =>
       \A j \in 1 .. k : inbox[j].type \in RequestTypes

\* No chunk comes behind headers that are the whole request.
HeadersAlone ==
    \A k \in DOMAIN inbox : inbox[k].type = "requestHeaders" /\ inbox[k].end =>
       envoy # "body" /\ \A j \in DOMAIN inbox : inbox[j].type # "requestBody"

\* Nothing is answered while a part of the request may still come.
NoAnswerYet ==
    /\ envoy \in {"headers", "body"} => sent = << >> /\ outbox = << >>
    /\ (\E k \in DOMAIN inbox : inbox[k].type \in RequestTypes) => sent = << >> /\ outbox = << >>

\* An answer to the body is about to be sent second, behind the headers'.
AnswerPending ==
    \A k \in DOMAIN outbox : outbox[k].type = "requestBody" =>
       LET first == IF k = 2 THEN outbox[1] ELSE sent[1]
       IN  /\ Len(sent) + k = 2
           /\ first.type = "requestHeaders" /\ (first.header # {}) = (kind = "model")
           /\ outbox[k].body = chunks
           /\ envoy # "body"

\* A stream that is no longer open never moves again.
RouterInv ==
    /\ Router!StreamedRequestIntact
    /\ streaming /\ state = "open" => /\ RouterTyped
                                      /\ ChunksInOrder /\ ChunksFirst /\ HeadersAlone /\ NoAnswerYet /\ AnswerPending

LEMMA RouterInit == Router!Init => RouterInv
<1> SUFFICES ASSUME Router!Init PROVE RouterInv
  OBVIOUS
<1>1. RouterTyped
  BY DEF Router!Init, RouterTyped
<1>2. ChunksInOrder /\ ChunksFirst /\ HeadersAlone /\ NoAnswerYet /\ AnswerPending
  BY DEF Router!Init, ChunksInOrder, ChunksFirst, HeadersAlone, NoAnswerYet, AnswerPending
<1> QED
  BY <1>1, <1>2 DEF Router!Init, RouterInv, Router!StreamedRequestIntact

\* What a message at the end of the inbox leaves alone.
LEMMA RouterSends ==
    ASSUME RouterInv, streaming, NEW message \in RouterMessages, NEW after,
           Router!Sends(message, after)
    PROVE  /\ state = "open" /\ RouterTyped /\ ChunksInOrder /\ ChunksFirst /\ HeadersAlone /\ NoAnswerYet /\ AnswerPending
           /\ inbox' \in Seq(RouterMessages) /\ Len(inbox') = Len(inbox) + 1
           /\ \A k \in DOMAIN inbox : inbox'[k] = inbox[k]
           /\ inbox'[Len(inbox) + 1] = message
           /\ DOMAIN inbox' = 1 .. Len(inbox) + 1 /\ DOMAIN inbox = 1 .. Len(inbox)
           /\ inbox = << >> <=> Len(inbox) = 0
BY DEF Router!Sends, Router!Ready, RouterInv, RouterTyped

\* A message other than a body chunk.
LEMMA RouterSendsOther ==
    ASSUME RouterInv, streaming, NEW message \in RouterMessages, NEW after,
           Router!Sends(message, after), UNCHANGED chunks,
           message.type # "requestBody",
           message.type = "requestHeaders" => envoy = "headers",
           after # "headers",
           after = "body" => message.type = "requestHeaders" /\ ~message.end
    PROVE  RouterInv'
<1>1. /\ state = "open" /\ RouterTyped /\ ChunksInOrder /\ ChunksFirst /\ HeadersAlone /\ NoAnswerYet /\ AnswerPending
      /\ inbox' \in Seq(RouterMessages) /\ Len(inbox') = Len(inbox) + 1
      /\ \A k \in DOMAIN inbox : inbox'[k] = inbox[k]
      /\ inbox'[Len(inbox) + 1] = message
      /\ DOMAIN inbox' = 1 .. Len(inbox) + 1 /\ DOMAIN inbox = 1 .. Len(inbox)
      /\ (inbox = << >> <=> Len(inbox) = 0)
  BY RouterSends
<1>2. /\ envoy' = after /\ UNCHANGED <<streaming, kind, buffer, outbox, sent, state, chunks>>
      /\ Len(inbox) \in Nat /\ Len(buffer) \in Nat /\ Len(chunks) \in Nat
  BY <1>1 DEF Router!Sends, RouterTyped
<1>22. inbox' # << >>
  BY <1>1, <1>2
<1>3. RouterTyped'
  BY <1>1, <1>2 DEF RouterTyped
<1>4. inbox # << >> => HeadersWaiting' = HeadersWaiting
  BY <1>1, <1>2, <1>22 DEF HeadersWaiting
<1>5. inbox = << >> => HeadersWaiting = 0 /\ (HeadersWaiting' = IF message.type = "requestHeaders" THEN 1 ELSE 0)
  BY <1>1, <1>2, <1>22 DEF HeadersWaiting
<1>6. HeadersWaiting \in {0, 1}
  BY DEF HeadersWaiting
<1>7. \A k \in DOMAIN inbox' : inbox'[k].type = "requestBody" =>
         k \in DOMAIN inbox /\ inbox'[k] = inbox[k] /\ ChunkAt(k)' = ChunkAt(k)
  BY <1>1, <1>2, <1>4 DEF ChunkAt
<1>8. after = "body" => inbox = << >> /\ ChunkAt(Len(inbox))' = 0 /\ chunks' = << >>
  BY <1>1, <1>2, <1>5 DEF ChunkAt, ChunksInOrder
<1>9. ChunksInOrder'
  <2>1. \A k \in DOMAIN inbox' : inbox'[k].type = "requestHeaders" => k = 1
    <3>1. /\ \A k \in DOMAIN inbox : inbox[k].type = "requestHeaders" => k = 1
          /\ envoy = "headers" => inbox = << >>
      BY <1>1 DEF ChunksInOrder
    <3> QED
      BY <1>1, <1>2, <3>1
  <2>2. \A k \in DOMAIN inbox' : inbox'[k].type = "requestBody" =>
          /\ inbox'[k].body = <<ChunkAt(k)'>> /\ ChunkAt(k)' <= Len(chunks')
          /\ inbox'[k].end => ChunkAt(k)' = Len(chunks') /\ envoy' # "body"
    BY <1>1, <1>2, <1>7, <1>8 DEF ChunksInOrder
  <2>3. envoy' = "body" => /\ Len(chunks') = ChunkAt(Len(inbox))'
                           /\ \A k \in DOMAIN inbox' : inbox'[k].type \in RequestTypes
    BY <1>1, <1>2, <1>8 DEF RequestTypes
  <2> QED
    BY <1>1, <1>2, <2>1, <2>2, <2>3 DEF ChunksInOrder
<1>10. NoAnswerYet'
  BY <1>1, <1>2 DEF NoAnswerYet, RequestTypes
<1>11. AnswerPending' /\ Router!StreamedRequestIntact'
  <2>1. after = "body" => outbox = << >>
    BY <1>1 DEF NoAnswerYet
  <2> QED
    BY <1>1, <1>2, <2>1 DEF AnswerPending, RouterInv, Router!StreamedRequestIntact
<1>12. ChunksFirst'
  <2>1. \A k \in DOMAIN inbox : inbox[k].type = "requestBody" =>
           \A j \in 1 .. k : inbox[j].type \in RequestTypes
    BY <1>1 DEF ChunksFirst
  <2> QED
    BY <2>1, <1>1, <1>2, <1>7 DEF ChunksFirst
<1>13. HeadersAlone'
  <2>1. message.type = "requestHeaders" => inbox = << >> /\ chunks = << >>
    BY <1>1 DEF ChunksInOrder
  <2>2. CASE inbox = << >>
    BY <2>2, <1>1, <1>2 DEF HeadersAlone
  <2>3. CASE inbox # << >>
    BY <2>1, <2>3, <1>1, <1>2 DEF HeadersAlone
  <2> QED
    BY <2>2, <2>3
<1> QED
  BY <1>3, <1>9, <1>10, <1>11, <1>12, <1>13 DEF RouterInv

LEMMA RouterEnvoy ==
    ASSUME RouterInv, streaming,
           \/ Router!EnvoyHeaders \/ Router!EnvoyTrailers \/ Router!EnvoyResponse
           \/ Router!EnvoyResponseTrailers
    PROVE  RouterInv'
<1>1. CASE Router!EnvoyHeaders
  <2>1. PICK end \in BOOLEAN : Router!Sends([type |-> "requestHeaders", end |-> end],
                                            IF end THEN "response" ELSE "body")
    BY <1>1 DEF Router!EnvoyHeaders
  <2>2. [type |-> "requestHeaders", end |-> end] \in RouterMessages
    BY DEF RouterMessages
  <2>3. envoy = "headers" /\ UNCHANGED chunks
    BY <1>1 DEF Router!EnvoyHeaders
  <2> QED
    BY <2>1, <2>2, <2>3, RouterSendsOther
<1>2. CASE Router!EnvoyTrailers
  <2>1. [type |-> "requestTrailers", end |-> TRUE] \in RouterMessages
    BY DEF RouterMessages, OtherTypes
  <2> QED
    BY <1>2, <2>1, RouterSendsOther DEF Router!EnvoyTrailers
<1>3. CASE Router!EnvoyResponse
  <2> DEFINE type == IF envoy = "response" THEN "responseHeaders" ELSE "responseBody"
             after == IF envoy = "response" THEN "responseBody" ELSE "trailers"
  <2>1. [type |-> type, end |-> envoy = "responseBody"] \in RouterMessages
    BY DEF RouterMessages, OtherTypes
  <2>2. Router!Sends([type |-> type, end |-> envoy = "responseBody"], after) /\ UNCHANGED chunks
    BY <1>3 DEF Router!EnvoyResponse
  <2> QED
    BY <2>1, <2>2, RouterSendsOther
<1>4. CASE Router!EnvoyResponseTrailers
  <2>1. [type |-> "responseTrailers", end |-> TRUE] \in RouterMessages
    BY DEF RouterMessages, OtherTypes
  <2> QED
    BY <1>4, <2>1, RouterSendsOther DEF Router!EnvoyResponseTrailers
<1> QED
  BY <1>1, <1>2, <1>3, <1>4

LEMMA RouterEnvoyBody ==
    ASSUME RouterInv, streaming, Router!EnvoyBody
    PROVE  RouterInv'
<1> DEFINE n == Len(chunks) + 1
<1>1. PICK end \in BOOLEAN :
        Router!Sends([type |-> "requestBody", end |-> end, body |-> <<n>>],
                     IF end THEN "response" ELSE "body")
  BY DEF Router!EnvoyBody
<1> DEFINE message == [type |-> "requestBody", end |-> end, body |-> <<n>>]
<1>2. state = "open" /\ RouterTyped
  BY <1>1 DEF Router!Sends, Router!Ready, RouterInv
<1>3. message \in RouterMessages
  BY <1>2 DEF RouterMessages, RouterTyped
<1> HIDE DEF message
<1>4. /\ ChunksInOrder /\ ChunksFirst /\ HeadersAlone /\ NoAnswerYet /\ AnswerPending
      /\ inbox' \in Seq(RouterMessages) /\ Len(inbox') = Len(inbox) + 1
      /\ \A k \in DOMAIN inbox : inbox'[k] = inbox[k]
      /\ inbox'[Len(inbox) + 1] = message
      /\ DOMAIN inbox' = 1 .. Len(inbox) + 1 /\ DOMAIN inbox = 1 .. Len(inbox)
      /\ (inbox = << >> <=> Len(inbox) = 0)
  BY <1>1, <1>3, RouterSends DEF message
<1>5. /\ envoy = "body" /\ envoy' = IF end THEN "response" ELSE "body"
      /\ chunks' = Append(chunks, n)
      /\ UNCHANGED <<streaming, kind, buffer, outbox, sent, state>>
      /\ Len(inbox) \in Nat /\ Len(buffer) \in Nat /\ Len(chunks) \in Nat
      /\ inbox' # << >>
  BY <1>1, <1>2, <1>4 DEF Router!Sends, Router!EnvoyBody, RouterTyped
<1>6. message.type = "requestBody" /\ message.end = end /\ message.body = <<n>>
  BY DEF message
<1>7. chunks' \in Seq(Nat) /\ Len(chunks') = n /\ DOMAIN chunks' = 1 .. n
      /\ \A k \in 1 .. n : chunks'[k] = IF k = n THEN n ELSE chunks[k]
  BY <1>2, <1>5 DEF RouterTyped
<1>8. RouterTyped'
  BY <1>2, <1>4, <1>5, <1>7 DEF RouterTyped
<1>9. HeadersWaiting' = HeadersWaiting
  BY <1>4, <1>5, <1>6 DEF HeadersWaiting
<1>10. HeadersWaiting \in {0, 1}
  BY DEF HeadersWaiting
<1>11. \A k \in Nat : ChunkAt(k)' = ChunkAt(k)
  BY <1>9, <1>5 DEF ChunkAt
<1>12. ChunkAt(Len(inbox) + 1) = n
  <2>1. Len(chunks) = ChunkAt(Len(inbox))
    BY <1>4, <1>5 DEF ChunksInOrder
  <2> QED
    BY <2>1, <1>5, <1>10 DEF ChunkAt
<1>13. ChunksInOrder'
  <2>1. \A k \in DOMAIN chunks' : chunks'[k] = k
    <3>1. DOMAIN chunks = 1 .. Len(chunks) /\ n \in Nat
      BY <1>2, <1>5 DEF RouterTyped
    <3>2. \A k \in DOMAIN chunks : chunks[k] = k
      BY <1>4 DEF ChunksInOrder
    <3> QED
      BY <1>5, <1>7, <3>1, <3>2
  <2>2. \A k \in DOMAIN inbox' : inbox'[k].type = "requestHeaders" => k = 1
    <3>1. \A k \in DOMAIN inbox : inbox[k].type = "requestHeaders" => k = 1
      BY <1>4 DEF ChunksInOrder
    <3> QED
      BY <1>4, <1>5, <1>6, <3>1
  <2>3. \A k \in DOMAIN inbox' : inbox'[k].type = "requestBody" =>
          /\ inbox'[k].body = <<ChunkAt(k)'>> /\ ChunkAt(k)' <= Len(chunks')
          /\ inbox'[k].end => ChunkAt(k)' = Len(chunks') /\ envoy' # "body"
    <3> SUFFICES ASSUME NEW k \in DOMAIN inbox', inbox'[k].type = "requestBody"
                 PROVE  /\ inbox'[k].body = <<ChunkAt(k)'>> /\ ChunkAt(k)' <= Len(chunks')
                        /\ inbox'[k].end => ChunkAt(k)' = Len(chunks') /\ envoy' # "body"
      OBVIOUS
    <3>1. CASE k \in DOMAIN inbox
      <4>1. ChunkAt(k) <= Len(chunks) /\ inbox[k].body = <<ChunkAt(k)>> /\ ~inbox[k].end
        BY <3>1, <1>4, <1>5 DEF ChunksInOrder
      <4>2. ChunkAt(k)' = ChunkAt(k) /\ ChunkAt(k) \in Int
        <5>1. k \in Nat
          BY <3>1, <1>4, <1>5
        <5> QED
          BY <5>1, <1>5, <1>9, <1>10 DEF ChunkAt
      <4> QED
        BY <3>1, <4>1, <4>2, <1>4, <1>5, <1>7
    <3>2. CASE k = Len(inbox) + 1
      BY <3>2, <1>4, <1>5, <1>6, <1>7, <1>11, <1>12
    <3> QED
      BY <3>1, <3>2, <1>4, <1>5
  <2>4. envoy' = "body" => /\ Len(chunks') = ChunkAt(Len(inbox))'
                           /\ \A k \in DOMAIN inbox' : inbox'[k].type \in RequestTypes
    <3>1. ChunkAt(Len(inbox))' = n
      BY <1>4, <1>5, <1>9, <1>12 DEF ChunkAt
    <3>2. Len(chunks') = n
      BY <1>5, <1>7
    <3>3. \A k \in DOMAIN inbox' : inbox'[k].type \in RequestTypes
      BY <1>4, <1>5, <1>6 DEF ChunksInOrder, RequestTypes
    <3> QED
      BY <3>1, <3>2, <3>3
  <2> QED
    BY <1>4, <1>5, <2>1, <2>2, <2>3, <2>4 DEF ChunksInOrder
<1>14. sent = << >> /\ outbox = << >>
  BY <1>4, <1>5 DEF NoAnswerYet
<1>15. NoAnswerYet' /\ AnswerPending' /\ Router!StreamedRequestIntact'
  <2>1. sent' = << >> /\ outbox' = << >>
    BY <1>5, <1>14
  <2> QED
    BY <2>1 DEF NoAnswerYet, AnswerPending, Router!StreamedRequestIntact
<1>16. ChunksFirst'
  <2>1. \A k \in DOMAIN inbox : inbox[k].type \in RequestTypes
    BY <1>4, <1>5 DEF ChunksInOrder
  <2>2. \A k \in DOMAIN inbox' : inbox'[k].type \in RequestTypes
    BY <2>1, <1>4, <1>5, <1>6 DEF RequestTypes
  <2> QED
    BY <2>2, <1>4, <1>5 DEF ChunksFirst
<1>17. HeadersAlone'
  <2>1. \A k \in DOMAIN inbox : inbox[k].type = "requestHeaders" => ~inbox[k].end
    BY <1>4, <1>5 DEF HeadersAlone
  <2> QED
    BY <1>4, <1>5, <1>6, <2>1 DEF HeadersAlone
<1> QED
  BY <1>8, <1>13, <1>15, <1>16, <1>17 DEF RouterInv

\* Process takes the message at the head of the inbox.
LEMMA RouterReceives ==
    ASSUME RouterInv, streaming, Router!Receive,
           UNCHANGED <<streaming, kind, envoy, chunks>>,
           buffer' = IF inbox[1].type = "requestBody" THEN buffer \o inbox[1].body ELSE buffer
    PROVE  /\ RouterTyped /\ NoAnswerYet /\ AnswerPending /\ state = "open"
           /\ inbox[1] \in RouterMessages /\ Head(inbox) = inbox[1] /\ 1 \in DOMAIN inbox
           /\ inbox' \in Seq(RouterMessages) /\ buffer' \in Seq(Nat)
           /\ ChunksInOrder' /\ ChunksFirst' /\ HeadersAlone'
           /\ ~(inbox[1].type = "requestHeaders" /\ ~inbox[1].end) /\ ~(inbox[1].type = "requestBody" /\ ~inbox[1].end)
                => /\ \A k \in DOMAIN inbox' : inbox'[k].type \notin RequestTypes
                   /\ envoy \notin {"headers", "body"}
           /\ inbox[1].type = "requestBody" =>
                /\ inbox[1].body = <<Len(buffer) + 1>>
                /\ inbox[1].end => buffer \o inbox[1].body = chunks /\ envoy # "body"
           /\ (\E k \in DOMAIN inbox' : inbox'[k].type \in RequestTypes)
                => \E k \in DOMAIN inbox : inbox[k].type \in RequestTypes
<1>1. state = "open" /\ RouterTyped /\ ChunksInOrder /\ ChunksFirst /\ HeadersAlone /\ NoAnswerYet /\ AnswerPending
  BY DEF RouterInv, Router!Receive
<1>2. inbox # << >> /\ inbox' = Tail(inbox)
  BY DEF Router!Receive
<1>3. /\ inbox' \in Seq(RouterMessages) /\ Len(inbox) \in Nat \ {0} /\ Len(inbox') = Len(inbox) - 1
      /\ DOMAIN inbox = 1 .. Len(inbox) /\ DOMAIN inbox' = 1 .. Len(inbox) - 1
      /\ \A k \in DOMAIN inbox' : inbox'[k] = inbox[k + 1]
      /\ inbox[1] \in RouterMessages /\ Head(inbox) = inbox[1] /\ 1 \in DOMAIN inbox
      /\ (inbox' = << >> <=> Len(inbox) = 1)
  BY <1>1, <1>2, TailFacts DEF RouterTyped
<1>4. /\ \A k \in DOMAIN inbox : inbox[k].type = "requestHeaders" => k = 1
      /\ \A k \in DOMAIN inbox : inbox[k].type = "requestBody" =>
           /\ inbox[k].body = <<ChunkAt(k)>> /\ ChunkAt(k) <= Len(chunks)
           /\ inbox[k].end => ChunkAt(k) = Len(chunks) /\ envoy # "body"
      /\ \A k \in DOMAIN chunks : chunks[k] = k
      /\ \A k \in DOMAIN buffer : buffer[k] = k
      /\ envoy # "headers"
      /\ envoy = "body" => /\ Len(chunks) = ChunkAt(Len(inbox))
                           /\ \A k \in DOMAIN inbox : inbox[k].type \in RequestTypes
  BY <1>1, <1>2 DEF ChunksInOrder
<1>5. HeadersWaiting' = 0
  BY <1>3, <1>4 DEF HeadersWaiting
<1>6. HeadersWaiting = IF inbox[1].type = "requestHeaders" THEN 1 ELSE 0
  BY <1>2 DEF HeadersWaiting
<1>7. Len(buffer) \in Nat /\ Len(chunks) \in Nat /\ DOMAIN buffer = 1 .. Len(buffer) /\ DOMAIN chunks = 1 .. Len(chunks)
  BY <1>1 DEF RouterTyped
<1>25. HeadersAlone'
  BY <1>3, <1>4 DEF HeadersAlone
<1>26. ASSUME NEW k \in DOMAIN inbox, inbox[k].type \in RequestTypes, k # 1
       PROVE  ~(inbox[1].type = "requestHeaders" /\ inbox[1].end) /\ inbox[1].type \in RequestTypes
  BY <1>1, <1>3, <1>4, <1>26 DEF HeadersAlone, ChunksFirst, RequestTypes
<1>20. inbox[1].type = "requestBody" => ChunkAt(1) = Len(buffer) + 1
  BY <1>6, <1>7 DEF ChunkAt
<1>8. inbox[1].type = "requestBody" => inbox[1].body = <<Len(buffer) + 1>>
  BY <1>3, <1>4, <1>20
<1>9. ASSUME inbox[1].type = "requestBody"
      PROVE  /\ buffer \o inbox[1].body = Append(buffer, Len(buffer) + 1)
             /\ Len(buffer \o inbox[1].body) = Len(buffer) + 1
             /\ buffer \o inbox[1].body \in Seq(Nat)
             /\ \A k \in 1 .. Len(buffer) + 1 : (buffer \o inbox[1].body)[k] = k
  <2> DEFINE longer == Append(buffer, Len(buffer) + 1)
  <2>1. /\ buffer \o <<Len(buffer) + 1>> = longer
        /\ longer \in Seq(Nat) /\ Len(longer) = Len(buffer) + 1
        /\ \A k \in 1 .. Len(buffer) : longer[k] = buffer[k]
        /\ longer[Len(buffer) + 1] = Len(buffer) + 1
    BY <1>1, <1>7, AppendFacts DEF RouterTyped
  <2> HIDE DEF longer
  <2>2. \A k \in 1 .. Len(buffer) + 1 : longer[k] = k
    <3>1. \A k \in 1 .. Len(buffer) : buffer[k] = k
      BY <1>4, <1>7
    <3>2. \A k \in 1 .. Len(buffer) + 1 : k \in 1 .. Len(buffer) \/ k = Len(buffer) + 1
      BY <1>7
    <3> QED
      BY <2>1, <3>1, <3>2
  <2>3. buffer \o inbox[1].body = longer
    BY <1>8, <1>9, <2>1
  <2> QED
    BY <2>1, <2>2, <2>3 DEF longer
<1>10. buffer' \in Seq(Nat) /\ \A k \in DOMAIN buffer' : buffer'[k] = k
  <2>1. CASE inbox[1].type = "requestBody"
    <3> DEFINE longer == buffer \o inbox[1].body
    <3>1. longer \in Seq(Nat) /\ Len(longer) = Len(buffer) + 1 /\ \A k \in 1 .. Len(buffer) + 1 : longer[k] = k
      BY <1>9, <2>1
    <3>2. buffer' = longer
      BY <1>7, <2>1
    <3> HIDE DEF longer
    <3>3. DOMAIN longer = 1 .. Len(buffer) + 1
      BY <3>1
    <3> QED
      BY <3>1, <3>2, <3>3
  <2>2. CASE inbox[1].type # "requestBody"
    BY <1>1, <1>4, <1>7, <2>2 DEF RouterTyped
  <2> QED
    BY <2>1, <2>2
<1>21. inbox[1].type \in RequestTypes => Len(buffer') = Len(buffer) + 1 - HeadersWaiting
  <2>1. CASE inbox[1].type = "requestBody"
    BY <1>6, <1>7, <1>9, <2>1
  <2>2. CASE inbox[1].type = "requestHeaders"
    BY <1>6, <1>7, <2>2
  <2> QED
    BY <2>1, <2>2 DEF RequestTypes
<1>22. HeadersWaiting \in {0, 1} /\ Len(buffer') \in Nat
  BY <1>6, <1>10
<1>11. ASSUME inbox[1].type \in RequestTypes, NEW k \in Nat
       PROVE  ChunkAt(k)' = ChunkAt(k + 1)
  <2>1. Len(buffer') = Len(buffer) + 1 - HeadersWaiting
    BY <1>11, <1>21
  <2>2. Len(buffer') + k - HeadersWaiting' = Len(buffer) + (k + 1) - HeadersWaiting
    <3> DEFINE m == Len(buffer')
               n == Len(buffer)
               h == HeadersWaiting
               g == HeadersWaiting'
    <3>1. k \in Nat /\ m = n + 1 - h /\ g = 0
      BY <1>5, <1>11, <2>1
    <3>2. m \in Nat /\ n \in Nat /\ h \in Nat
      BY <1>7, <1>22
    <3> HIDE DEF m, n, h, g
    <3>3. m + k - g = n + (k + 1) - h
      BY <3>1, <3>2
    <3> QED
      BY <3>3 DEF m, n, h, g
  <2> QED
    BY <2>2 DEF ChunkAt
<1>12. ASSUME inbox[1].type = "requestBody", inbox[1].end
       PROVE  buffer \o inbox[1].body = chunks /\ envoy # "body"
  <2>1. Len(chunks) = Len(buffer) + 1 /\ envoy # "body"
    BY <1>3, <1>4, <1>12, <1>20
  <2> DEFINE longer == buffer \o inbox[1].body
  <2>2. longer \in Seq(Nat) /\ Len(longer) = Len(chunks) /\ \A k \in 1 .. Len(longer) : longer[k] = k
    BY <1>9, <1>12, <2>1
  <2>3. \A k \in 1 .. Len(longer) : chunks[k] = k
    BY <1>4, <1>7, <2>2
  <2> HIDE DEF longer
  <2>4. longer = chunks
    BY <1>1, <2>2, <2>3, SameSequence DEF RouterTyped
  <2> QED
    BY <2>1, <2>4 DEF longer
<1>13. ChunksFirst'
  <2>1. \A k \in DOMAIN inbox : inbox[k].type = "requestBody" =>
           \A j \in 1 .. k : inbox[j].type \in RequestTypes
    BY <1>1 DEF ChunksFirst
  <2> SUFFICES ASSUME NEW k \in DOMAIN inbox', inbox'[k].type = "requestBody", NEW j \in 1 .. k
               PROVE  inbox'[j].type \in RequestTypes
    BY DEF ChunksFirst
  <2>2. k + 1 \in DOMAIN inbox /\ j + 1 \in 1 .. k + 1 /\ j \in DOMAIN inbox'
    BY <1>3
  <2> QED
    BY <1>3, <2>1, <2>2
<1>14. ChunksInOrder'
  <2>1. \A k \in DOMAIN inbox' : inbox'[k].type # "requestHeaders"
    BY <1>3, <1>4
  <2>2. ASSUME NEW k \in DOMAIN inbox', inbox'[k].type = "requestBody"
        PROVE  /\ inbox'[k].body = <<ChunkAt(k)'>> /\ ChunkAt(k)' <= Len(chunks')
               /\ inbox'[k].end => ChunkAt(k)' = Len(chunks') /\ envoy' # "body"
    <3>1. k + 1 \in DOMAIN inbox /\ inbox[k + 1] = inbox'[k] /\ k \in Nat
      BY <1>3
    <3>2. inbox[1].type \in RequestTypes
      BY <1>1, <1>3, <2>2, <3>1 DEF ChunksFirst
    <3>3. ChunkAt(k)' = ChunkAt(k + 1)
      BY <1>11, <3>1, <3>2
    <3> QED
      BY <1>4, <2>2, <3>1, <3>3
  <2>3. envoy' = "body" => /\ Len(chunks') = ChunkAt(Len(inbox))'
                           /\ \A k \in DOMAIN inbox' : inbox'[k].type \in RequestTypes
    <3>1. ChunkAt(Len(inbox))' = Len(buffer') + Len(inbox') - HeadersWaiting'
      BY DEF ChunkAt
    <3>2. envoy = "body" => inbox[1].type \in RequestTypes
      BY <1>3, <1>4
    <3>5. envoy = "body" => Len(chunks) = Len(buffer) + Len(inbox) - HeadersWaiting
      BY <1>4 DEF ChunkAt
    <3>6. envoy' = "body" => Len(chunks') = ChunkAt(Len(inbox))'
      <4> SUFFICES ASSUME envoy' = "body" PROVE Len(chunks') = ChunkAt(Len(inbox))'
        OBVIOUS
      <4> DEFINE m == Len(buffer')
                 n == Len(buffer)
                 h == HeadersWaiting
                 g == HeadersWaiting'
                 l == Len(inbox)
                 l2 == Len(inbox')
                 c == Len(chunks)
                 c2 == Len(chunks')
      <4>1. m \in Nat /\ n \in Nat /\ h \in Nat /\ l \in Nat
        BY <1>3, <1>7, <1>22
      <4>2. envoy = "body" /\ c2 = c
        BY <1>7
      <4>3. c = n + l - h
        BY <3>5, <4>2
      <4>4. m = n + 1 - h /\ g = 0
        BY <1>5, <1>21, <3>2, <4>2
      <4>5. l2 = l - 1
        BY <1>3
      <4> HIDE DEF m, n, h, g, l, l2, c, c2
      <4>6. c2 = m + l2 - g
        BY <4>1, <4>2, <4>3, <4>4, <4>5
      <4> QED
        BY <3>1, <4>6 DEF m, n, h, g, l, l2, c, c2
    <3> QED
      BY <1>3, <1>4, <3>6
  <2> QED
    BY <1>4, <1>10, <2>1, <2>2, <2>3 DEF ChunksInOrder
<1>15. ASSUME NEW k \in DOMAIN inbox', inbox'[k].type \in RequestTypes
       PROVE  \E m \in DOMAIN inbox : inbox[m].type \in RequestTypes
  BY <1>3, <1>15
<1>16. ASSUME ~(inbox[1].type = "requestHeaders" /\ ~inbox[1].end), ~(inbox[1].type = "requestBody" /\ ~inbox[1].end)
       PROVE  /\ \A k \in DOMAIN inbox' : inbox'[k].type \notin RequestTypes
              /\ envoy \notin {"headers", "body"}
  <2>1. envoy # "body"
    BY <1>1, <1>3, <1>4, <1>16 DEF HeadersAlone, RequestTypes
  <2>2. ASSUME NEW k \in DOMAIN inbox, k # 1, inbox[k].type \in RequestTypes
        PROVE  FALSE
    <3>1. inbox[1].type = "requestBody" /\ inbox[1].end
      BY <1>16, <1>26, <2>2 DEF RequestTypes
    <3>2. ChunkAt(1) = Len(chunks) /\ HeadersWaiting = 0
      BY <1>3, <1>4, <1>6, <3>1
    <3>3. inbox[k].type = "requestBody"
      BY <1>4, <2>2 DEF RequestTypes
    <3>4. ChunkAt(k) <= Len(chunks)
      BY <1>4, <3>3
    <3> QED
      BY <1>3, <1>7, <2>2, <3>2, <3>4 DEF ChunkAt
  <2> QED
    BY <1>3, <1>4, <2>1, <2>2
<1> QED
  BY <1>1, <1>3, <1>8, <1>10, <1>12, <1>13, <1>14, <1>15, <1>16, <1>25

LEMMA RouterProcess ==
    ASSUME RouterInv, streaming,
           \/ Router!RequestHeaders \/ Router!PassThrough \/ Router!ProcessRequestBody
    PROVE  RouterInv'
<1>1. state = "open" /\ RouterTyped /\ outbox = << >> /\ inbox # << >>
  BY DEF Router!RequestHeaders, Router!PassThrough, Router!ProcessRequestBody, Router!Receive, RouterInv
<1>2. Head(inbox) = inbox[1] /\ inbox[1] \in RouterMessages /\ 1 \in DOMAIN inbox
  BY <1>1, TailFacts DEF RouterTyped
<1>3. /\ Router!Receive /\ UNCHANGED <<streaming, kind, envoy, chunks, sent>>
      /\ buffer' = IF inbox[1].type = "requestBody" THEN buffer \o inbox[1].body ELSE buffer
  BY <1>2 DEF Router!RequestHeaders, Router!PassThrough, Router!ProcessRequestBody
<1> DEFINE over == ~(inbox[1].type = "requestHeaders" /\ ~inbox[1].end) /\ ~(inbox[1].type = "requestBody" /\ ~inbox[1].end)
<1>4. /\ NoAnswerYet /\ AnswerPending
      /\ inbox' \in Seq(RouterMessages) /\ buffer' \in Seq(Nat)
      /\ ChunksInOrder' /\ ChunksFirst' /\ HeadersAlone'
      /\ over => /\ \A k \in DOMAIN inbox' : inbox'[k].type \notin RequestTypes
                 /\ envoy \notin {"headers", "body"}
      /\ inbox[1].type = "requestBody" =>
           /\ inbox[1].body = <<Len(buffer) + 1>>
           /\ inbox[1].end => buffer \o inbox[1].body = chunks /\ envoy # "body"
      /\ (\E k \in DOMAIN inbox' : inbox'[k].type \in RequestTypes)
           => \E k \in DOMAIN inbox : inbox[k].type \in RequestTypes
  BY <1>3, RouterReceives
<1>5. Router!StreamedRequestIntact'
  BY <1>3 DEF RouterInv, Router!StreamedRequestIntact
<1>6. inbox[1].type \in RequestTypes => sent = << >>
  BY <1>2, <1>4 DEF NoAnswerYet
<1>7. CASE outbox' = << >>
  <2>1. RouterTyped'
    BY <1>1, <1>3, <1>4, <1>7 DEF RouterTyped
  <2>2. NoAnswerYet' /\ AnswerPending'
    BY <1>3, <1>4, <1>7 DEF NoAnswerYet, AnswerPending
  <2> QED
    BY <1>4, <1>5, <2>1, <2>2 DEF RouterInv
\* Whatever is answered, the request is over.
<1>8. ASSUME over, outbox' \in Seq(RouterReplies), AnswerPending'
      PROVE  RouterInv'
  <2>1. RouterTyped'
    BY <1>1, <1>3, <1>4, <1>8 DEF RouterTyped
  <2>2. NoAnswerYet'
    BY <1>3, <1>4, <1>8 DEF NoAnswerYet
  <2> QED
    BY <1>4, <1>5, <1>8, <2>1, <2>2 DEF RouterInv
<1>9. ASSUME NEW type \in {"requestHeaders"} \union OtherTypes, over,
             outbox' = <<Router!EmptyReply(type)>>
      PROVE  RouterInv'
  <2>1. Router!EmptyReply(type) \in RouterReplies /\ Router!EmptyReply(type).type # "requestBody"
    BY DEF Router!EmptyReply, Router!Reply, RouterReplies, OtherTypes
  <2>2. outbox' \in Seq(RouterReplies) /\ \A k \in DOMAIN outbox' : outbox'[k].type # "requestBody"
    BY <1>9, <2>1
  <2>3. AnswerPending'
    BY <2>2 DEF AnswerPending
  <2> QED
    BY <1>8, <1>9, <2>2, <2>3
<1>10. CASE Router!RequestHeaders
  BY <1>2, <1>7, <1>9, <1>10 DEF Router!RequestHeaders
<1>11. CASE Router!PassThrough
  BY <1>2, <1>7, <1>9, <1>11 DEF Router!PassThrough, OtherTypes
<1>12. CASE Router!ProcessRequestBody
  <2> DEFINE result == Router!HandleRequestBody(buffer \o inbox[1].body)
  <2>1. inbox[1].type = "requestBody" /\ sent = << >>
    BY <1>2, <1>6, <1>12 DEF Router!ProcessRequestBody, RequestTypes
  <2>2. CASE ~inbox[1].end
    BY <1>1, <1>2, <1>7, <1>12, <2>2 DEF Router!ProcessRequestBody
  <2>3. CASE inbox[1].end /\ result.error
    BY <1>2, <1>5, <1>12, <2>3 DEF Router!ProcessRequestBody, RouterInv
  <2>4. CASE inbox[1].end /\ ~result.error
    <3>1. outbox' = result.replies /\ buffer \o inbox[1].body = chunks /\ envoy' # "body"
      BY <1>2, <1>3, <1>4, <1>12, <2>1, <2>4 DEF Router!ProcessRequestBody
    <3>2. PICK header \in SUBSET {"X-Gateway-Model-Name"} :
            /\ result.replies = <<Router!Reply("requestHeaders", header, << >>),
                                  Router!Reply("requestBody", {}, buffer \o inbox[1].body)>>
            /\ (header # {}) = (kind = "model")
      <4> DEFINE header == IF kind = "model" THEN {"X-Gateway-Model-Name"} ELSE {}
      <4>1. result.replies = <<Router!Reply("requestHeaders", header, << >>),
                               Router!Reply("requestBody", {}, buffer \o inbox[1].body)>>
        BY DEF Router!HandleRequestBody
      <4>2. header \in SUBSET {"X-Gateway-Model-Name"} /\ (header # {}) = (kind = "model")
        OBVIOUS
      <4> QED
        BY <4>1, <4>2
    <3> DEFINE first == Router!Reply("requestHeaders", header, << >>)
               second == Router!Reply("requestBody", {}, chunks)
    <3>3. /\ first \in RouterReplies /\ first.type = "requestHeaders" /\ first.header = header
          /\ second \in RouterReplies /\ second.type = "requestBody" /\ second.body = chunks
      BY <1>1 DEF Router!Reply, RouterReplies, OtherTypes, RouterTyped
    <3>4. outbox' = <<first, second>>
      BY <3>1, <3>2
    <3> HIDE DEF first, second, result
    <3>5. outbox' \in Seq(RouterReplies) /\ DOMAIN outbox' = {1, 2} /\ outbox'[1] = first /\ outbox'[2] = second
      BY <3>3, <3>4
    <3>6. AnswerPending'
      BY <1>3, <2>1, <3>1, <3>2, <3>3, <3>5 DEF AnswerPending
    <3> QED
      BY <1>8, <2>1, <2>4, <3>5, <3>6
  <2> QED
    BY <2>2, <2>3, <2>4
<1> QED
  BY <1>10, <1>11, <1>12

LEMMA RouterSend ==
    ASSUME RouterInv, streaming, Router!Send
    PROVE  RouterInv'
<1>1. state = "open" /\ RouterTyped /\ outbox # << >> /\ NoAnswerYet /\ AnswerPending
  BY DEF Router!Send, RouterInv
<1>2. /\ sent' = Append(sent, outbox[1]) /\ outbox' = Tail(outbox) /\ outbox[1] \in RouterReplies
      /\ UNCHANGED <<streaming, kind, envoy, inbox, chunks, buffer, state>>
  BY <1>1, TailFacts DEF Router!Send, RouterTyped
<1> DEFINE n == Len(sent)
<1>3. /\ sent' \in Seq(RouterReplies) /\ n \in Nat /\ DOMAIN sent' = 1 .. n + 1 /\ Len(sent') = n + 1
      /\ DOMAIN sent = 1 .. n /\ \A k \in 1 .. n : sent'[k] = sent[k]
      /\ sent'[n + 1] = outbox[1]
  BY <1>1, <1>2, AppendFacts DEF RouterTyped
<1>4. /\ outbox' \in Seq(RouterReplies) /\ Len(outbox) \in Nat \ {0} /\ DOMAIN outbox = 1 .. Len(outbox)
      /\ DOMAIN outbox' = 1 .. Len(outbox) - 1
      /\ \A k \in 1 .. Len(outbox) - 1 : outbox'[k] = outbox[k + 1]
  BY <1>1, <1>2, TailFacts DEF RouterTyped
<1> HIDE DEF n
<1>5. RouterTyped'
  BY <1>1, <1>2, <1>3, <1>4 DEF RouterTyped
<1>6. /\ ChunksInOrder' /\ ChunksFirst' /\ HeadersAlone'
  <2>1. ChunksInOrder /\ ChunksFirst /\ HeadersAlone
    BY <1>1 DEF RouterInv
  <2> QED
    BY <1>2, <2>1 DEF ChunksInOrder, ChunksFirst, HeadersAlone, ChunkAt, HeadersWaiting
<1>7. NoAnswerYet'
  BY <1>1, <1>2 DEF NoAnswerYet
<1>8. ASSUME NEW k \in DOMAIN outbox', outbox'[k].type = "requestBody"
      PROVE  /\ k = 1 /\ n = 0 /\ outbox[1].type = "requestHeaders" /\ (outbox[1].header # {}) = (kind = "model")
             /\ outbox'[1].body = chunks /\ envoy # "body"
  <2>1. k + 1 \in DOMAIN outbox /\ outbox[k + 1].type = "requestBody" /\ k \in Nat \ {0}
    BY <1>4, <1>8
  <2>2. n + (k + 1) = 2
    BY <1>1, <2>1 DEF AnswerPending, n
  <2>3. k = 1 /\ n = 0
    BY <1>3, <2>1, <2>2
  <2> QED
    BY <1>1, <1>4, <1>8, <2>1, <2>3 DEF AnswerPending
<1>9. AnswerPending'
  BY <1>2, <1>3, <1>8 DEF AnswerPending
<1>10. Router!StreamedRequestIntact'
  <2> SUFFICES ASSUME NEW k \in DOMAIN sent', sent'[k].type = "requestBody"
               PROVE  /\ k = 2 /\ sent'[1].type = "requestHeaders"
                      /\ sent'[2].body = chunks
                      /\ (sent'[1].header # {}) = (kind = "model")
    BY <1>2 DEF Router!StreamedRequestIntact
  <2>1. CASE k \in 1 .. n
    BY <1>3, <2>1 DEF RouterInv, Router!StreamedRequestIntact
  <2>2. CASE k = n + 1
    <3>1. outbox[1].type = "requestBody" /\ 1 \in DOMAIN outbox
      BY <1>3, <1>4, <2>2
    <3>2. n + 1 = 2 /\ sent[1].type = "requestHeaders" /\ (sent[1].header # {}) = (kind = "model")
          /\ outbox[1].body = chunks
      BY <1>1, <3>1 DEF AnswerPending, n
    <3> QED
      BY <1>3, <2>2, <3>2
  <2> QED
    BY <1>3, <2>1, <2>2
<1> QED
  BY <1>5, <1>6, <1>7, <1>9, <1>10 DEF RouterInv

\* The invariant is inductive; in the other mode there is nothing to show.
LEMMA RouterStep == RouterInv /\ [Router!Next]_Router!vars => RouterInv'
<1> SUFFICES ASSUME RouterInv, [Router!Next]_Router!vars PROVE RouterInv'
  OBVIOUS
<1>1. CASE UNCHANGED Router!vars
  BY <1>1 DEF Router!vars, RouterInv, Router!StreamedRequestIntact, RouterTyped, ChunksInOrder,
              ChunksFirst, HeadersAlone, NoAnswerYet, AnswerPending, ChunkAt, HeadersWaiting
<1>2. CASE Router!Next /\ ~streaming
  <2>1. streaming' = streaming
    BY <1>2 DEF Router!Next, Router!EnvoyHeaders, Router!EnvoyBody, Router!EnvoyTrailers, Router!EnvoyResponse,
                Router!EnvoyResponseTrailers, Router!EnvoyCloses, Router!Process, Router!RequestHeaders,
                Router!ProcessRequestBody, Router!PassThrough, Router!UnknownRequest, Router!Send,
                Router!SendFails, Router!Sends
  <2> QED
    BY <1>2, <2>1 DEF RouterInv, Router!StreamedRequestIntact
<1>3. CASE streaming /\ (Router!EnvoyCloses \/ Router!UnknownRequest \/ Router!SendFails)
  BY <1>3 DEF Router!EnvoyCloses, Router!UnknownRequest, Router!SendFails, RouterInv,
              Router!StreamedRequestIntact
<1> QED
  BY <1>1, <1>2, <1>3, RouterEnvoy, RouterEnvoyBody, RouterProcess, RouterSend DEF Router!Next, Router!Process

\* For any kinds of bodies and any number of chunks: a streamed request
\* reaches the upstream whole and in order, behind the header that names its
\* model.
THEOREM StreamedWhole == Router!Spec => []StreamedRequestIntact
<1>1. RouterInv => StreamedRequestIntact
  BY DEF StreamedRequestIntact, RouterInv
<1> QED
  BY RouterInit, RouterStep, <1>1, PTL DEF Router!Spec

-----------------------------------------------------------------------------
\* The processes.

ServerStates == {"added", "starting", "listen", "listening", "serving", "returned", "failed"}
WatcherStates == {"none", "waiting", "stopping", "stopped", "gone"}

\* A setting of the environment that leaves zero in its flag.
EnvZero(f) == f \in Process!BoundFlags /\ opts.env[f] # "" /\ Process!Parsed(opts.env[f]) = "zero"

\* What holds as long as the process lives.  A flag is zero only if the setting
\* that counts is; until the arguments are parsed, the environment's counts.
FlagsHonest == /\ flags \in [Process!Flags -> {"default", "set", "zero"}]
               /\ \A f \in Process!Flags :
                    flags[f] = "zero" => (EnvZero(f) /\ ~Process!Past("parse")) \/ Process!ZeroSetting(f)

\* The servers run once set-up is over; one that listens has a watcher.
ServersWatched ==
    /\ step \in Nat /\ step <= Len(Process!Steps)
    /\ server \in [Process!Runnables -> ServerStates]
    /\ watcher \in [Process!Servers -> WatcherStates]
    /\ step = Len(Process!Steps) => \A s \in Process!Servers : server[s] # "added"
    /\ \A s \in Process!Servers :
         server[s] \in {"listening", "serving"} => watcher[s] \in {"waiting", "stopping", "stopped"}
    /\ step < Len(Process!Steps) => ~mgrErr
    /\ mgrErr => \E s \in Process!Runnables : server[s] = "failed"

\* The context ends for an error or for the first signal; the second signal
\* ends the process.
SignalsCounted == signals \in {0, 1} /\ (ctxDone => mgrErr \/ signals = 1)

\* A server that was stopped has no streams; only a failed one leaves some.
StreamsServed ==
    /\ streams \in Nat /\ cut = FALSE
    /\ step < Len(Process!Steps) => streams = 0
    /\ \/ streams = 0
       \/ server["ext-proc"] = "failed"
       \/ server["ext-proc"] = "serving" /\ watcher["ext-proc"] # "stopped"

\* A process that has ended never moves again.
ProcessInv == /\ Process!ExitHonest
              /\ exit = "none" => FlagsHonest /\ ServersWatched /\ StreamsServed /\ SignalsCounted

LEMMA StepsCounted == Len(Process!Steps) \in Nat
BY DEF Process!Steps, Process!PickerSteps, Process!RouterSteps

LEMMA ProcessInit == Process!Init => ProcessInv
<1> SUFFICES ASSUME Process!Init PROVE ProcessInv
  OBVIOUS
<1>1. 0 < Len(Process!Steps)
  BY DEF Process!Steps, Process!PickerSteps, Process!RouterSteps
<1>2. ServersWatched
  BY <1>1, StepsCounted DEF Process!Init, ServersWatched, ServerStates, WatcherStates, Process!Servers,
       Process!Runnables
<1>3. FlagsHonest
  BY DEF Process!Init, FlagsHonest, Process!DefaultFlags
<1> QED
  BY <1>1, <1>2, <1>3 DEF Process!Init, ProcessInv, StreamsServed, SignalsCounted, Process!ExitHonest

\* The servers are started by the last step.
LEMMA StartIsLast ==
    ASSUME NEW name, name # "start", Process!In(name)
    PROVE  step + 1 # Len(Process!Steps)
<1>1. Process!Steps[Len(Process!Steps)] = "start"
  BY DEF Process!Steps, Process!PickerSteps, Process!RouterSteps
<1> QED
  BY <1>1 DEF Process!In

\* Both programs parse their arguments before anything can run, and the
\* environment is bound before that.
LEMMA ParseComesFirst ==
    ASSUME step \in Nat
    PROVE  /\ step = Len(Process!Steps) => Process!Past("parse")
           /\ Process!In("bind") => ~Process!Past("parse")
<1>1. CASE opts.prog = "epp"
  <2>1. Process!Steps = Process!PickerSteps
    BY <1>1 DEF Process!Steps
  <2>2. /\ Len(Process!PickerSteps) = 13 /\ Process!PickerSteps[2] = "parse"
        /\ \A i \in 1 .. 13 : Process!PickerSteps[i] = "bind" => i = 1
    BY DEF Process!PickerSteps
  <2>3. step = 13 => 2 \in 1 .. step
    OBVIOUS
  <2>4. Process!In("bind") => step = 0
    <3>1. ASSUME Process!In("bind") PROVE step = 0
      <4>1. step < 13 /\ Process!PickerSteps[step + 1] = "bind"
        BY <2>1, <2>2, <3>1 DEF Process!In
      <4>2. step + 1 \in 1 .. 13
        BY <4>1
      <4> QED
        BY <2>2, <4>1, <4>2
    <3> QED
      BY <3>1
  <2> QED
    BY <2>1, <2>2, <2>3, <2>4 DEF Process!Past
<1>2. CASE opts.prog # "epp"
  <2>1. Process!Steps = Process!RouterSteps
    BY <1>2 DEF Process!Steps
  <2>2. /\ Len(Process!RouterSteps) = 6 /\ Process!RouterSteps[1] = "parse"
        /\ \A i \in 1 .. 6 : Process!RouterSteps[i] # "bind"
    BY DEF Process!RouterSteps
  <2>3. step = 6 => 1 \in 1 .. step
    OBVIOUS
  <2>4. ~Process!In("bind")
    <3>1. ASSUME Process!In("bind") PROVE FALSE
      <4>1. step < 6 /\ Process!RouterSteps[step + 1] = "bind"
        BY <2>1, <2>2, <3>1 DEF Process!In
      <4>2. step + 1 \in 1 .. 6
        BY <4>1
      <4> QED
        BY <2>2, <4>1, <4>2
    <3> QED
      BY <3>1
  <2> QED
    BY <2>1, <2>2, <2>3, <2>4 DEF Process!Past
<1> QED
  BY <1>1, <1>2

\* A step other than the parsing of arguments does not parse them.
LEMMA ParsedOnce ==
    ASSUME NEW name, name # "parse", Process!In(name), step \in Nat,
           UNCHANGED opts, step' = step \/ step' = step + 1
    PROVE  Process!Past("parse")' => Process!Past("parse")
<1>1. Process!Steps' = Process!Steps
  BY DEF Process!Steps
<1>2. SUFFICES ASSUME NEW i \in 1 .. step', Process!Steps[i] = "parse"
               PROVE  Process!Past("parse")
  BY <1>1 DEF Process!Past
<1>3. i # step + 1
  BY <1>2 DEF Process!In
<1>4. i \in 1 .. step
  BY <1>3
<1> QED
  BY <1>2, <1>4 DEF Process!Past

\* A step of set-up succeeds, fails, or ends the process for its arguments or
\* in the loader of the plugins.
SetupGoesOn == step' = step + 1 /\ exit' = exit /\ step + 1 # Len(Process!Steps)
SetupEnds ==
    /\ step' = step
    /\ \/ exit' = "1"
       \/ exit' = "0" /\ Process!In("parse") /\ "help" \in DOMAIN opts.args
       \/ exit' = "2" /\ Process!In("parse") /\ \E f \in DOMAIN opts.args : opts.args[f] = "invalid"
       \/ exit' = "2" /\ Process!In("plugins") /\ opts.config # "none"

LEMMA SetupSteps ==
    ASSUME Process!Setup, ~Process!StartManager, FlagsHonest, step \in Nat
    PROVE  /\ exit = "none" /\ step < Len(Process!Steps)
           /\ UNCHANGED <<opts, ctxDone, mgrErr, server, watcher, streams, cut, signals>>
           /\ SetupGoesOn \/ SetupEnds
           /\ FlagsHonest'
<1>1. UNCHANGED <<opts, ctxDone, mgrErr, server, watcher, streams, cut, signals>>
  BY DEF Process!Setup, Process!serverVars
<1>2. CASE Process!bindEnvToFlags
  <2>1. Process!In("bind") /\ exit = "none" /\ step < Len(Process!Steps) /\ step' = step + 1 /\ exit' = exit
    BY <1>2 DEF Process!bindEnvToFlags, Process!Advance, Process!At, Process!In
  <2>2. step + 1 # Len(Process!Steps)
    BY <2>1, StartIsLast
  <2>3. ~Process!Past("parse")'
    BY <1>1, <2>1, ParseComesFirst, ParsedOnce
  <2>4. flags' = [f \in Process!Flags |-> IF f \in Process!BoundFlags /\ opts.env[f] # ""
                                            THEN Process!Parsed(opts.env[f]) ELSE flags[f]]
    BY <1>2 DEF Process!bindEnvToFlags
  <2>5. \A f \in Process!Flags : /\ flags'[f] \in {"default", "set", "zero"}
                                 /\ flags'[f] = "zero" => EnvZero(f) \/ flags[f] = "zero"
    BY <2>4 DEF FlagsHonest, EnvZero, Process!Parsed
  <2>6. \A f \in Process!Flags : flags'[f] = "zero" => EnvZero(f) \/ Process!ZeroSetting(f)
    BY <2>5 DEF FlagsHonest
  <2>7. \A f : EnvZero(f)' = EnvZero(f) /\ Process!ZeroSetting(f)' = Process!ZeroSetting(f)
    BY <1>1 DEF EnvZero, Process!ZeroSetting
  <2>8. FlagsHonest'
    BY <2>3, <2>4, <2>5, <2>6, <2>7 DEF FlagsHonest
  <2> QED
    BY <1>1, <2>1, <2>2, <2>8 DEF SetupGoesOn
<1>3. CASE Process!ParseFlags
  <2>1. Process!In("parse") /\ exit = "none" /\ step < Len(Process!Steps)
    BY <1>3 DEF Process!ParseFlags, Process!At, Process!In
  <2>2. step + 1 # Len(Process!Steps)
    BY <2>1, StartIsLast
  <2>3. \A f : EnvZero(f)' = EnvZero(f) /\ Process!ZeroSetting(f)' = Process!ZeroSetting(f)
    BY <1>1 DEF EnvZero, Process!ZeroSetting
  <2>4. CASE UNCHANGED <<flags, step>>
    <3>1. Process!Past("parse")' = Process!Past("parse")
      BY <1>1, <2>4 DEF Process!Past, Process!Steps
    <3>2. FlagsHonest'
      BY <2>3, <2>4, <3>1 DEF FlagsHonest
    <3>3. SetupEnds
      BY <1>3, <2>1, <2>4 DEF Process!ParseFlags, SetupEnds, Process!Advance
    <3> QED
      BY <1>1, <2>1, <3>2, <3>3
  <2>5. CASE ~UNCHANGED <<flags, step>>
    <3>1. /\ flags' = [f \in Process!Flags |-> IF f \in DOMAIN opts.args THEN Process!Parsed(opts.args[f]) ELSE flags[f]]
          /\ step' = step + 1 /\ exit' = exit
      BY <1>3, <2>5 DEF Process!ParseFlags, Process!Advance
    <3>2. \A f \in Process!Flags : /\ flags'[f] \in {"default", "set", "zero"}
                                   /\ flags'[f] = "zero" => Process!ZeroSetting(f)
      BY <3>1 DEF FlagsHonest, EnvZero, Process!Parsed, Process!ZeroSetting
    <3>3. FlagsHonest'
      BY <2>3, <3>1, <3>2 DEF FlagsHonest
    <3> QED
      BY <1>1, <2>1, <2>2, <3>1, <3>3 DEF SetupGoesOn
  <2> QED
    BY <2>4, <2>5
<1>4. ASSUME NEW name \in {"validate", "kubeconfig", "mapping", "manager", "pprof", "plugins", "scheduler",
                           "controllers", "addHealth", "addExtProc"},
             Process!At(name), UNCHANGED flags,
             \/ Process!Advance \/ Process!Fail
             \/ Process!Panic /\ name = "plugins" /\ opts.config # "none"
      PROVE  /\ exit = "none" /\ step < Len(Process!Steps)
             /\ SetupGoesOn \/ SetupEnds
             /\ FlagsHonest'
  <2>1. Process!In(name) /\ exit = "none" /\ step < Len(Process!Steps) /\ name # "start" /\ name # "parse"
    BY <1>4 DEF Process!At, Process!In
  <2>2. step + 1 # Len(Process!Steps)
    BY <2>1, StartIsLast
  <2>3. step' = step \/ step' = step + 1
    BY <1>4 DEF Process!Advance, Process!Fail, Process!Panic
  <2>4. Process!Past("parse")' => Process!Past("parse")
    BY <1>1, <2>1, <2>3, ParsedOnce
  <2>5. \A f : EnvZero(f)' = EnvZero(f) /\ Process!ZeroSetting(f)' = Process!ZeroSetting(f)
    BY <1>1 DEF EnvZero, Process!ZeroSetting
  <2>6. FlagsHonest'
    BY <1>4, <2>4, <2>5 DEF FlagsHonest
  <2> QED
    BY <1>4, <2>1, <2>2, <2>6 DEF Process!Advance, Process!Fail, Process!Panic, SetupGoesOn, SetupEnds
<1>5. CASE \/ Process!validateFlags \/ Process!NewMetricMapping
           \/ Process!NewDefaultManager \/ Process!parsePluginsConfiguration \/ Process!NewScheduler
           \/ Process!GetConfig \/ Process!setupPprofHandlers \/ Process!SetupWithManager
           \/ Process!registerHealthServer \/ Process!registerExtProcServer
  <2>1. \E name \in {"validate", "kubeconfig", "mapping", "manager", "pprof", "plugins", "scheduler",
                     "controllers", "addHealth", "addExtProc"} :
          /\ Process!At(name) /\ UNCHANGED flags
          /\ \/ Process!Advance \/ Process!Fail
             \/ Process!Panic /\ name = "plugins" /\ opts.config # "none"
    BY <1>5 DEF Process!validateFlags, Process!NewMetricMapping, Process!NewDefaultManager,
         Process!parsePluginsConfiguration, Process!NewScheduler, Process!GetConfig,
         Process!setupPprofHandlers, Process!SetupWithManager, Process!registerHealthServer,
         Process!registerExtProcServer, Process!SetupStep
  <2> QED
    BY <1>1, <1>4, <2>1
<1> QED
  BY <1>2, <1>3, <1>5 DEF Process!Setup

LEMMA ProcessSetup ==
    ASSUME ProcessInv, Process!Setup
    PROVE  ProcessInv'
<1>0. exit = "none" /\ FlagsHonest /\ ServersWatched /\ StreamsServed /\ SignalsCounted /\ step \in Nat
  <2>1. exit = "none"
    BY DEF Process!Setup, Process!StartManager, Process!bindEnvToFlags, Process!ParseFlags, Process!validateFlags,
         Process!NewMetricMapping, Process!NewDefaultManager, Process!parsePluginsConfiguration,
         Process!NewScheduler, Process!GetConfig, Process!setupPprofHandlers, Process!SetupWithManager,
         Process!registerHealthServer, Process!registerExtProcServer, Process!SetupStep, Process!At
  <2> QED
    BY <2>1 DEF ProcessInv, ServersWatched
<1>1. CASE Process!StartManager
  <2>1. Process!In("start") /\ step < Len(Process!Steps) /\ step' = step + 1 /\ exit' = "none"
    BY <1>1 DEF Process!StartManager, Process!At, Process!In, Process!Advance
  <2>2. /\ UNCHANGED <<opts, flags, ctxDone, mgrErr, watcher, streams, cut, signals>>
        /\ server' = [s \in Process!Runnables |-> IF s = "manager" THEN "serving" ELSE "starting"]
    BY <1>1 DEF Process!StartManager
  <2>3. Process!Steps' = Process!Steps
    BY <2>2 DEF Process!Steps
  <2>4. ServersWatched'
    BY <1>0, <2>1, <2>2, <2>3, StepsCounted DEF ServersWatched, ServerStates, Process!Servers, Process!Runnables
  <2>5. Process!Past("parse")' => Process!Past("parse")
    BY <1>0, <2>1, <2>2, ParsedOnce
  <2>6. \A f : EnvZero(f)' = EnvZero(f) /\ Process!ZeroSetting(f)' = Process!ZeroSetting(f)
    BY <2>2 DEF EnvZero, Process!ZeroSetting
  <2>7. FlagsHonest'
    BY <1>0, <2>2, <2>5, <2>6 DEF FlagsHonest
  <2>8. StreamsServed' /\ SignalsCounted'
    BY <1>0, <2>1, <2>2 DEF StreamsServed, SignalsCounted
  <2> QED
    BY <2>1, <2>4, <2>7, <2>8 DEF ProcessInv, Process!ExitHonest
<1>2. CASE ~Process!StartManager
  <2>1. /\ step < Len(Process!Steps)
        /\ UNCHANGED <<opts, ctxDone, mgrErr, server, watcher, streams, cut, signals>>
        /\ SetupGoesOn \/ SetupEnds
        /\ FlagsHonest'
    BY <1>0, <1>2, SetupSteps
  <2>2. Process!Steps' = Process!Steps
    BY <2>1 DEF Process!Steps
  <2>3. CASE SetupGoesOn
    <3>1. exit' = "none" /\ step' = step + 1 /\ step' < Len(Process!Steps)
      BY <1>0, <2>1, <2>3, StepsCounted DEF SetupGoesOn
    <3>2. ServersWatched'
      BY <1>0, <2>1, <2>2, <3>1 DEF ServersWatched
    <3>3. StreamsServed' /\ SignalsCounted'
      BY <1>0, <2>1, <2>2, <3>1 DEF StreamsServed, SignalsCounted
    <3> QED
      BY <2>1, <3>1, <3>2, <3>3 DEF ProcessInv, Process!ExitHonest
  <2>4. CASE SetupEnds
    <3>1. step' = step /\ exit' \in {"0", "1", "2"}
      BY <2>4 DEF SetupEnds
    <3>2. \A name : Process!In(name)' = Process!In(name)
      BY <2>2, <3>1 DEF Process!In
    <3>3. step' # Len(Process!Steps)'
      BY <1>0, <2>1, <2>2, <3>1, StepsCounted
    <3>4. Process!ExitHonest'
      BY <2>1, <2>4, <3>2, <3>3 DEF SetupEnds, Process!ExitHonest
    <3> QED
      BY <3>1, <3>4 DEF ProcessInv
  <2> QED
    BY <2>1, <2>3, <2>4
<1> QED
  BY <1>1, <1>2

\* What is said of the flags depends on the options and the steps done only.
LEMMA FlagsKept ==
    ASSUME UNCHANGED <<opts, flags, step>>
    PROVE  /\ FlagsHonest => FlagsHonest'
           /\ Process!Steps' = Process!Steps
           /\ \A f : Process!ZeroSetting(f)' = Process!ZeroSetting(f)
           /\ \A name : Process!In(name)' = Process!In(name)
<1>1. Process!Steps' = Process!Steps
  BY DEF Process!Steps
<1>2. Process!Past("parse")' = Process!Past("parse") /\ \A name : Process!In(name)' = Process!In(name)
  BY <1>1 DEF Process!Past, Process!In
<1>3. \A f : EnvZero(f)' = EnvZero(f) /\ Process!ZeroSetting(f)' = Process!ZeroSetting(f)
  BY DEF EnvZero, Process!ZeroSetting
<1> QED
  BY <1>1, <1>2, <1>3 DEF FlagsHonest

\* A flag that is zero when the servers run was set so.
LEMMA ZeroWasSet ==
    ASSUME FlagsHonest, step \in Nat, step = Len(Process!Steps),
           NEW f \in Process!Flags, flags[f] = "zero"
    PROVE  Process!ZeroSetting(f)
BY ParseComesFirst DEF FlagsHonest

\* A step of server s while the process runs.
LEMMA ProcessServer ==
    ASSUME ProcessInv, NEW s \in Process!Servers, Process!ServerStep(s), ~Process!LoggerPanics(s)
    PROVE  ProcessInv'
<1>1. /\ exit = "none" /\ step = Len(Process!Steps)
      /\ FlagsHonest /\ ServersWatched /\ StreamsServed /\ SignalsCounted
      /\ UNCHANGED <<opts, flags, step, ctxDone, mgrErr, exit, signals>>
  BY DEF Process!ServerStep, Process!Running, ProcessInv
<1>2. Process!Steps' = Process!Steps /\ UNCHANGED <<streams, cut>>
  BY <1>1 DEF Process!Steps, Process!ServerStep, Process!Prepare, Process!CertificateFails, Process!ListenFails,
         Process!Listen, Process!Serve, Process!AcceptFails, Process!Shutdown, Process!GracefulStop,
         Process!ServeReturns, Process!WatcherDone
<1>3. FlagsHonest' /\ SignalsCounted' /\ s \in Process!Runnables
  BY <1>1, FlagsKept DEF SignalsCounted, Process!Runnables
<1>4. ASSUME NEW to \in ServerStates, NEW w \in WatcherStates,
             server' = [server EXCEPT ![s] = to], watcher' = [watcher EXCEPT ![s] = w],
             to # "added", server[s] = "failed" => to = "failed",
             to \in {"listening", "serving"} => w \in {"waiting", "stopping", "stopped"}
      PROVE  ServersWatched'
  <2>1. server' \in [Process!Runnables -> ServerStates] /\ watcher' \in [Process!Servers -> WatcherStates]
    BY <1>1, <1>3, <1>4 DEF ServersWatched
  <2>2. \A t \in Process!Servers : /\ t # s => server'[t] = server[t] /\ watcher'[t] = watcher[t]
                                   /\ t = s => server'[t] = to /\ watcher'[t] = w
    BY <1>1, <1>3, <1>4 DEF ServersWatched, Process!Runnables
  <2>3. mgrErr => \E t \in Process!Runnables : server'[t] = "failed"
    <3>1. \A t \in Process!Runnables : server[t] = "failed" => server'[t] = "failed"
      BY <1>1, <1>3, <1>4 DEF ServersWatched
    <3> QED
      BY <1>1, <3>1 DEF ServersWatched
  <2> QED
    BY <1>1, <1>2, <1>4, <2>1, <2>2, <2>3 DEF ServersWatched
<1>5. ASSUME NEW to \in ServerStates, NEW w \in WatcherStates,
             server' = [server EXCEPT ![s] = to], watcher' = [watcher EXCEPT ![s] = w],
             s = "ext-proc" => \/ streams = 0
                               \/ to = "failed" \/ (to = "serving" /\ w # "stopped")
      PROVE  StreamsServed'
  <2>1. s = "ext-proc" => server'["ext-proc"] = to /\ watcher'["ext-proc"] = w
    BY <1>1, <1>3, <1>5 DEF ServersWatched
  <2>2. s # "ext-proc" => server'["ext-proc"] = server["ext-proc"] /\ watcher'["ext-proc"] = watcher["ext-proc"]
    BY <1>1, <1>5 DEF ServersWatched, Process!Servers, Process!Runnables
  <2> QED
    BY <1>1, <1>2, <1>5, <2>1, <2>2 DEF StreamsServed
<1>6. PICK to \in ServerStates, w \in WatcherStates :
        /\ server' = [server EXCEPT ![s] = to] /\ watcher' = [watcher EXCEPT ![s] = w]
        /\ to # "added" /\ (server[s] = "failed" => to = "failed")
        /\ to \in {"listening", "serving"} => w \in {"waiting", "stopping", "stopped"}
        /\ s = "ext-proc" => \/ streams = 0
                             \/ to = "failed" \/ (to = "serving" /\ w # "stopped")
  <2> DEFINE R(to, w) ==
        /\ server' = [server EXCEPT ![s] = to] /\ watcher' = [watcher EXCEPT ![s] = w]
        /\ to # "added" /\ (server[s] = "failed" => to = "failed")
        /\ to \in {"listening", "serving"} => w \in {"waiting", "stopping", "stopped"}
        /\ s = "ext-proc" => \/ streams = 0
                             \/ to = "failed" \/ (to = "serving" /\ w # "stopped")
  <2>1. /\ server[s] \in ServerStates /\ watcher[s] \in WatcherStates /\ server[s] # "added"
        /\ server = [server EXCEPT ![s] = server[s]] /\ watcher = [watcher EXCEPT ![s] = watcher[s]]
        /\ server[s] \in {"listening", "serving"} => watcher[s] \in {"waiting", "stopping", "stopped"}
    BY <1>1, <1>3 DEF ServersWatched
  <2>2. s = "ext-proc" => \/ streams = 0 \/ server[s] = "failed"
                          \/ server[s] = "serving" /\ watcher[s] # "stopped"
    BY <1>1 DEF StreamsServed
  <2>3. CASE Process!Prepare(s)
    <3>1. R("listen", watcher[s])
      BY <2>1, <2>2, <2>3 DEF Process!Prepare, Process!To
    <3> QED
      BY <2>1, <3>1 DEF ServerStates
  <2>4. CASE Process!CertificateFails(s) \/ Process!ListenFails(s) \/ Process!AcceptFails(s)
    <3>1. R("failed", watcher[s])
      BY <2>1, <2>4 DEF Process!CertificateFails, Process!ListenFails, Process!AcceptFails, Process!To
    <3> QED
      BY <2>1, <3>1 DEF ServerStates
  <2>5. CASE Process!Listen(s)
    <3>1. R("listening", "waiting")
      BY <2>1, <2>2, <2>5 DEF Process!Listen, Process!To
    <3> QED
      BY <2>1, <3>1 DEF ServerStates, WatcherStates
  <2>6. CASE Process!Serve(s)
    <3>1. CASE watcher[s] = "waiting"
      <4>1. R("serving", watcher[s])
        BY <2>1, <2>2, <2>6, <3>1 DEF Process!Serve, Process!To
      <4> QED
        BY <2>1, <4>1 DEF ServerStates
    <3>2. CASE watcher[s] # "waiting"
      <4>1. R("returned", watcher[s])
        BY <2>1, <2>2, <2>6, <3>2 DEF Process!Serve, Process!To
      <4> QED
        BY <2>1, <4>1 DEF ServerStates
    <3> QED
      BY <3>1, <3>2
  <2>7. CASE Process!ServeReturns(s)
    <3>1. R("returned", watcher[s])
      BY <2>1, <2>2, <2>7 DEF Process!ServeReturns, Process!To
    <3> QED
      BY <2>1, <3>1 DEF ServerStates
  <2>8. CASE Process!Shutdown(s)
    <3>1. R(server[s], "stopping")
      BY <2>1, <2>2, <2>8 DEF Process!Shutdown
    <3> QED
      BY <2>1, <3>1 DEF WatcherStates
  <2>9. CASE Process!GracefulStop(s)
    <3>1. R(server[s], "stopped")
      BY <2>1, <2>2, <2>9 DEF Process!GracefulStop
    <3> QED
      BY <2>1, <3>1 DEF WatcherStates
  <2>10. CASE Process!WatcherDone(s)
    <3>1. R(server[s], "gone")
      BY <2>1, <2>2, <2>10 DEF Process!WatcherDone
    <3> QED
      BY <2>1, <3>1 DEF WatcherStates
  <2> QED
    BY <2>3, <2>4, <2>5, <2>6, <2>7, <2>8, <2>9, <2>10 DEF Process!ServerStep
<1>7. ServersWatched' /\ StreamsServed'
  BY <1>4, <1>5, <1>6
<1> QED
  BY <1>1, <1>3, <1>7 DEF ProcessInv, Process!ExitHonest

\* Everything else that happens while the process runs on.
LEMMA ProcessOther ==
    ASSUME ProcessInv, exit' = "none",
           \/ Process!OpenStream \/ Process!EndStream \/ Process!PoolChanges \/ Process!Check
           \/ Process!Signal \/ Process!ManagerRunnableFails \/ Process!ManagerError
    PROVE  ProcessInv'
<1>1. /\ exit = "none" /\ FlagsHonest /\ ServersWatched /\ StreamsServed /\ SignalsCounted
      /\ UNCHANGED <<opts, flags, step, watcher>>
  BY DEF Process!OpenStream, Process!EndStream, Process!PoolChanges, Process!Check, Process!Signal,
         Process!ManagerRunnableFails, Process!ManagerError, Process!Running, Process!serverVars, ProcessInv
<1>2. Process!Steps' = Process!Steps /\ FlagsHonest'
  BY <1>1, FlagsKept
<1>3. UNCHANGED cut
  BY <1>1 DEF Process!OpenStream, Process!EndStream, Process!PoolChanges, Process!Check, Process!Signal,
         Process!ManagerRunnableFails, Process!ManagerError, Process!serverVars
<1>4. /\ server' \in [Process!Runnables -> ServerStates]
      /\ \A s \in Process!Runnables : server[s] = "failed" => server'[s] = "failed"
      /\ \A s \in Process!Servers : server'[s] = server[s]
      /\ "ext-proc" \in Process!Servers
  <2>1. CASE UNCHANGED server
    BY <1>1, <2>1 DEF ServersWatched, Process!Servers
  <2>2. CASE Process!ManagerRunnableFails
    <3>1. server' = [server EXCEPT !["manager"] = "failed"]
      BY <2>2 DEF Process!ManagerRunnableFails, Process!To
    <3> QED
      BY <1>1, <3>1 DEF ServersWatched, ServerStates, Process!Servers, Process!Runnables
  <2> QED
    BY <2>1, <2>2 DEF Process!OpenStream, Process!EndStream, Process!PoolChanges, Process!Check, Process!Signal,
         Process!ManagerError, Process!serverVars
<1>5. mgrErr' => \/ mgrErr
                 \/ step = Len(Process!Steps) /\ \E s \in Process!Runnables : server[s] = "failed"
  BY DEF Process!OpenStream, Process!EndStream, Process!PoolChanges, Process!Check, Process!Signal,
         Process!ManagerRunnableFails, Process!ManagerError, Process!Running
<1>6. ServersWatched'
  BY <1>1, <1>2, <1>4, <1>5 DEF ServersWatched
<1>7. StreamsServed'
  <2>1. CASE UNCHANGED streams
    BY <1>1, <1>2, <1>3, <1>4, <2>1 DEF StreamsServed
  <2>2. CASE Process!OpenStream
    BY <1>1, <1>2, <1>3, <1>4, <2>2 DEF StreamsServed, Process!OpenStream, Process!Running
  <2>3. CASE Process!EndStream
    BY <1>1, <1>2, <1>3, <1>4, <2>3 DEF StreamsServed, Process!EndStream, Process!Running
  <2> QED
    BY <2>1, <2>2, <2>3 DEF Process!PoolChanges, Process!Check, Process!Signal, Process!ManagerRunnableFails,
         Process!ManagerError, Process!serverVars
<1>8. SignalsCounted'
  <2>1. CASE Process!Signal
    <3>1. signals = 0 => signals' = 1
      BY <1>1, <2>1 DEF Process!Signal
    <3>2. signals' = 1
      BY <1>1, <2>1, <3>1 DEF Process!Signal, SignalsCounted
    <3> QED
      BY <3>2 DEF SignalsCounted
  <2>2. CASE Process!ManagerError
    BY <1>1, <2>2 DEF Process!ManagerError, SignalsCounted
  <2>3. CASE UNCHANGED <<ctxDone, mgrErr, signals>>
    BY <1>1, <2>3 DEF SignalsCounted
  <2> QED
    BY <2>1, <2>2, <2>3 DEF Process!OpenStream, Process!EndStream, Process!PoolChanges, Process!Check,
         Process!ManagerRunnableFails
<1> QED
  BY <1>2, <1>6, <1>7, <1>8 DEF ProcessInv, Process!ExitHonest

\* A signal that ends the process: too early, or the second one.
LEMMA ProcessSignalled ==
    ASSUME ProcessInv, Process!Signal, exit' # "none"
    PROVE  ProcessInv'
<1>1. exit = "none" /\ SignalsCounted
  BY DEF Process!Signal, ProcessInv
<1>2. exit' = "killed" \/ (exit' = "1" /\ signals' = signals + 1 /\ signals # 0)
  BY <1>1 DEF Process!Signal
<1>3. exit' = "1" => signals' = 2
  BY <1>1, <1>2 DEF SignalsCounted
<1> QED
  BY <1>2, <1>3 DEF ProcessInv, Process!ExitHonest

\* The process panics: in a stream's handler or in a ticker whose interval is
\* zero.
LEMMA ProcessPanics ==
    ASSUME ProcessInv,
           \/ Process!RefreshLoopPanics \/ Process!HandlerPanics
           \/ \E s \in Process!Servers : Process!ServerStep(s) /\ Process!LoggerPanics(s)
    PROVE  ProcessInv'
<1>1. /\ exit = "none" /\ exit' = "2" /\ step = Len(Process!Steps)
      /\ FlagsHonest /\ ServersWatched /\ StreamsServed
      /\ UNCHANGED <<opts, flags, step, streams>>
  BY DEF Process!RefreshLoopPanics, Process!HandlerPanics, Process!ServerStep, Process!LoggerPanics,
         Process!Running, Process!serverVars, ProcessInv
<1>2. step' = Len(Process!Steps)' /\ \A f : Process!ZeroSetting(f)' = Process!ZeroSetting(f)
  BY <1>1, FlagsKept
<1>3. /\ opts.prog = "epp"
      /\ \/ streams > 0 \/ flags["refresh-metrics-interval"] = "zero"
         \/ flags["refresh-prometheus-metrics-interval"] = "zero"
  BY <1>1 DEF Process!RefreshLoopPanics, Process!HandlerPanics, Process!LoggerPanics,
         Process!StartMetricsLogger
<1>4. /\ flags["refresh-metrics-interval"] = "zero" => Process!ZeroSetting("refresh-metrics-interval")
      /\ flags["refresh-prometheus-metrics-interval"] = "zero"
           => Process!ZeroSetting("refresh-prometheus-metrics-interval")
  <2>1. step \in Nat /\ {"refresh-metrics-interval", "refresh-prometheus-metrics-interval"} \subseteq Process!Flags
    BY <1>1 DEF ServersWatched, Process!Flags
  <2> QED
    BY <1>1, <2>1, ZeroWasSet
<1>5. Process!ExitHonest'
  BY <1>1, <1>2, <1>3, <1>4 DEF Process!ExitHonest
<1> QED
  BY <1>1, <1>5 DEF ProcessInv

\* The manager returns.
LEMMA ProcessEnds ==
    ASSUME ProcessInv, Process!ManagerReturns \/ Process!GracePeriodEnds
    PROVE  ProcessInv'
<1>1. /\ exit = "none" /\ exit' # "none" /\ step = Len(Process!Steps)
      /\ FlagsHonest /\ ServersWatched /\ StreamsServed /\ SignalsCounted
      /\ UNCHANGED <<opts, flags, step, ctxDone, mgrErr, server, watcher, streams, signals>>
  BY DEF Process!ManagerReturns, Process!GracePeriodEnds, Process!Running, Process!serverVars, ProcessInv
<1>2. CASE Process!ManagerReturns
  <2>1. ctxDone /\ cut' = FALSE /\ exit' = IF mgrErr THEN "1" ELSE "0"
    BY <1>1, <1>2 DEF Process!ManagerReturns, Process!serverVars, StreamsServed
  <2>2. streams = 0 \/ server["ext-proc"] = "failed"
    BY <1>1, <1>2 DEF Process!ManagerReturns, StreamsServed, Process!Servers
  <2>3. mgrErr => \E s \in Process!Runnables : server[s] = "failed"
    BY <1>1 DEF ServersWatched
  <2>4. ~mgrErr => signals = 1
    BY <1>1, <2>1 DEF SignalsCounted
  <2>5. Process!ExitHonest'
    BY <1>1, <2>1, <2>2, <2>3, <2>4 DEF Process!ExitHonest
  <2> QED
    BY <1>1, <2>5 DEF ProcessInv
\* Only a server that waits for its streams has nothing to do.
<1>3. CASE Process!GracePeriodEnds
  <2>1. PICK s \in Process!Servers : server[s] \notin {"returned", "failed"} /\ ~Process!CanStep(s)
    BY <1>3 DEF Process!GracePeriodEnds
  <2>2. server[s] \in ServerStates
    BY <1>1 DEF ServersWatched, Process!Runnables
  <2>3. server[s] = "serving" /\ watcher[s] = "stopping"
    BY <1>1, <2>1, <2>2 DEF Process!CanStep, ServersWatched, ServerStates
  <2>4. streams > 0
    BY <1>1, <2>1, <2>3 DEF Process!CanStep, StreamsServed
  <2>5. cut' = TRUE /\ exit' = "1"
    BY <1>3, <2>4 DEF Process!GracePeriodEnds
  <2> QED
    BY <1>1, <2>5 DEF ProcessInv, Process!ExitHonest
<1> QED
  BY <1>2, <1>3

LEMMA ProcessStep == ProcessInv /\ [Process!Next]_Process!vars => ProcessInv'
<1> SUFFICES ASSUME ProcessInv, [Process!Next]_Process!vars PROVE ProcessInv'
  OBVIOUS
<1>1. CASE UNCHANGED Process!vars
  <2>1. UNCHANGED <<opts, flags, step, ctxDone, mgrErr, server, watcher, streams, cut, exit, signals>>
    BY <1>1 DEF Process!vars, Process!serverVars
  <2>2. /\ FlagsHonest => FlagsHonest'
        /\ Process!Steps' = Process!Steps
        /\ \A f : Process!ZeroSetting(f)' = Process!ZeroSetting(f)
        /\ \A name : Process!In(name)' = Process!In(name)
    BY <2>1, FlagsKept
  <2>3. Process!ExitHonest'
    BY <2>1, <2>2 DEF ProcessInv, Process!ExitHonest
  <2>4. exit = "none" => ServersWatched' /\ StreamsServed' /\ SignalsCounted'
    BY <2>1, <2>2 DEF ProcessInv, ServersWatched, StreamsServed, SignalsCounted
  <2> QED
    BY <2>1, <2>2, <2>3, <2>4 DEF ProcessInv
<1>2. CASE Process!Signal
  BY <1>2, ProcessOther, ProcessSignalled
<1>3. CASE \/ Process!OpenStream \/ Process!EndStream \/ Process!PoolChanges \/ Process!Check
           \/ Process!ManagerRunnableFails \/ Process!ManagerError
  <2>1. exit' = "none"
    BY <1>3 DEF Process!OpenStream, Process!EndStream, Process!PoolChanges, Process!Check,
         Process!ManagerRunnableFails, Process!ManagerError, Process!Running
  <2> QED
    BY <1>3, <2>1, ProcessOther
<1>4. CASE \E s \in Process!Servers : Process!ServerStep(s)
  BY <1>4, ProcessServer, ProcessPanics
<1> QED
  BY <1>1, <1>2, <1>3, <1>4, ProcessSetup, ProcessPanics, ProcessEnds DEF Process!Next, Process!Manager

\* For any options and number of streams: the exit status tells how the
\* process ended.
THEOREM ExitIsHonest == Process!Spec => []ExitHonest
<1>1. ProcessInv => ExitHonest
  BY DEF ExitHonest, ProcessInv
<1> QED
  BY ProcessInit, ProcessStep, <1>1, PTL DEF Process!Spec

-----------------------------------------------------------------------------
\* The data layer.

\* What a page may hold: the LoRA family is a sequence of series whose
\* creation time is a number and whose max label is one, is empty or does not
\* parse.
PagesTyped ==
    \A p \in DOMAIN Pages :
       /\ \E n \in Nat : DOMAIN Pages[p].lora = 1 .. n
       /\ \A k \in DOMAIN Pages[p].lora :
            /\ Pages[p].lora[k].val \in Int
            /\ Pages[p].lora[k].max \in Nat \union {Collector!NoLabel, Collector!NotANumber}

\* Metrics are a record of five fields.
Recorded(m) == \E q, k, a, w, x :
                  m = [queue |-> q, kv |-> k, active |-> a, waiting |-> w, max |-> x]

\* The page a source got is one of the pages, and both scrapers agree as long
\* as the pages were clear.
CollectorInv ==
    /\ PagesTyped
    /\ \E a, t, s, p : loop = [at |-> a, todo |-> t, source |-> s, page |-> p]
    /\ loop.at = "extract" => loop.page \in DOMAIN Pages
    /\ shown \in DOMAIN Pages \union {Collector!Down}
    /\ clear \in BOOLEAN
    /\ clear => endpoint = legacy /\ Recorded(endpoint)

\* Some element of a non-empty sequence of numbers is the largest.
LEMMA LargestElement ==
    ASSUME NEW n \in Nat \ {0}, NEW f, \A k \in 1 .. n : f[k] \in Int
    PROVE  \E m \in 1 .. n : \A k \in 1 .. n : f[k] <= f[m]
<1> DEFINE Has(j) == \E m \in 1 .. j : \A k \in 1 .. j : f[k] <= f[m]
           T == {j \in 1 .. n : ~Has(j)}
<1>1. CASE T = {}
  BY <1>1
<1>2. CASE T # {}
  <2>1. T \subseteq Nat
    OBVIOUS
  <2>2. PICK j \in T : \A l \in T : j <= l
    BY <1>2, <2>1, LeastNumber
  <2>3. j \in 1 .. n /\ ~Has(j)
    BY <2>2
  <2>4. CASE j = 1
    BY <2>3, <2>4
  <2>5. CASE j # 1
    <3>1. j - 1 \in 1 .. n /\ j - 1 \notin T
      <4>1. j - 1 \in 1 .. n /\ ~(j <= j - 1)
        BY <2>3, <2>5
      <4> HIDE DEF T
      <4> QED
        BY <2>2, <4>1
    <3>2. PICK m \in 1 .. j - 1 : \A k \in 1 .. j - 1 : f[k] <= f[m]
      BY <3>1
    <3>3. CASE f[j] <= f[m]
      <4>1. \A k \in 1 .. j : f[k] <= f[m]
        BY <2>3, <3>2, <3>3
      <4> QED
        BY <2>3, <3>2, <4>1
    <3>4. CASE ~(f[j] <= f[m])
      <4>1. \A k \in 1 .. j : f[k] <= f[j]
        BY <2>3, <3>2, <3>4
      <4> QED
        BY <2>3, <4>1
    <3> QED
      BY <3>3, <3>4
  <2> QED
    BY <2>4, <2>5
<1> QED
  BY <1>1, <1>2

\* On an unambiguous page both scrapers find the same LoRA series.
LEMMA SameSeries ==
    ASSUME PagesTyped, NEW p \in DOMAIN Pages, Collector!Unambiguous(Pages[p])
    PROVE  Collector!GetLatestLoraMetric(Pages[p].lora) = Collector!LoRASpecGetLatestMetric(Pages[p].lora)
<1> DEFINE series == Pages[p].lora
           read == [i \in DOMAIN series |-> Collector!GaugeValue(series[i])]
           named == {i \in {k \in DOMAIN series : Collector!HasAdapters(series[k])} : read[i] > 0}
           all == {i \in Collector!Matching(series) : read[i] > -1}
           Best(S) == {i \in S : \A j \in S : read[j] < read[i] \/ (read[j] = read[i] /\ i <= j)}
<1>1. PICK n \in Nat : DOMAIN series = 1 .. n
  BY DEF PagesTyped
<1>2. \A i \in DOMAIN series : series[i].val \in Int /\ series[i].val > 0 /\ series[i].ok
                                 /\ read[i] = series[i].val
  BY DEF PagesTyped, Collector!Unambiguous, Collector!GaugeValue
<1>22. read = [i \in DOMAIN series |-> Collector!ExtractValue(series[i])]
  BY DEF Collector!Unambiguous, Collector!GaugeValue, Collector!ExtractValue
<1> HIDE DEF read
<1>3. all = DOMAIN series /\ named \subseteq DOMAIN series
  BY <1>2 DEF Collector!Matching, Collector!LabelsMatch
<1>4. \A i \in DOMAIN series : (\A j \in DOMAIN series : series[j].val <= series[i].val) => i \in named
  BY <1>2 DEF Collector!Unambiguous
<1>5. Best(all) = Best(named)
  <2>1. CASE n = 0
    BY <1>1, <1>3, <2>1
  <2>2. CASE n # 0
    <3> DEFINE f == [k \in 1 .. n |-> series[k].val]
    <3>1. \A k \in 1 .. n : f[k] \in Int
      BY <1>1, <1>2
    <3>2. PICK m \in 1 .. n : \A k \in 1 .. n : f[k] <= f[m]
      <4> HIDE DEF f
      <4> QED
        BY <2>2, <3>1, LargestElement
    <3>3. m \in named /\ m \in DOMAIN series /\ \A k \in DOMAIN series : series[k].val <= series[m].val
      BY <1>1, <1>4, <3>2
    <3>4. ASSUME NEW i \in Best(all)
          PROVE  i \in Best(named)
      BY <1>2, <1>3, <1>4, <3>4
    <3>5. ASSUME NEW i \in Best(named)
          PROVE  i \in Best(all)
      <4>1. i \in DOMAIN series /\ series[m].val <= series[i].val
        BY <1>2, <1>3, <3>3, <3>5
      <4>2. \A j \in DOMAIN series : series[j].val <= series[i].val
        BY <1>2, <3>3, <4>1
      <4>3. \A j \in DOMAIN series : series[j].val = series[i].val => j \in named
        BY <1>2, <1>4, <4>1, <4>2
      <4> QED
        BY <1>2, <1>3, <3>5, <4>1, <4>2, <4>3
    <3> QED
      BY <3>4, <3>5
  <2> QED
    BY <2>1, <2>2
<1>6. Collector!GetLatestLoraMetric(series) =
        IF Best(named) = {} THEN << >> ELSE <<series[CHOOSE i \in Best(named) : TRUE]>>
  BY DEF Collector!GetLatestLoraMetric, Collector!LatestBy, read
<1>7. Collector!LoRASpecGetLatestMetric(series) =
        IF Best(all) = {} THEN << >> ELSE <<series[CHOOSE i \in Best(all) : TRUE]>>
  BY <1>22 DEF Collector!LoRASpecGetLatestMetric, Collector!LatestBy
<1> HIDE DEF Best, named, all
<1> QED
  BY <1>5, <1>6, <1>7

\* Updates of the metrics' fields.
LEMMA AdapterFields ==
    ASSUME NEW q, NEW k, NEW a, NEW w, NEW x, NEW r, NEW s, NEW t
    PROVE  [[queue |-> q, kv |-> k, active |-> a, waiting |-> w, max |-> x]
              EXCEPT !.active = r, !.waiting = s, !.max = t]
             = [queue |-> q, kv |-> k, active |-> r, waiting |-> s, max |-> t]
<1> DEFINE m == [queue |-> q, kv |-> k, active |-> a, waiting |-> w, max |-> x]
<1>1. [m EXCEPT !.active = r, !.waiting = s, !.max = t]
        = [[[m EXCEPT !.active = r] EXCEPT !.waiting = s] EXCEPT !.max = t]
  OBVIOUS
<1>2. [m EXCEPT !.active = r] = [queue |-> q, kv |-> k, active |-> r, waiting |-> w, max |-> x]
  OBVIOUS
<1>3. [[queue |-> q, kv |-> k, active |-> r, waiting |-> w, max |-> x] EXCEPT !.waiting = s]
        = [queue |-> q, kv |-> k, active |-> r, waiting |-> s, max |-> x]
  OBVIOUS
<1>4. [[queue |-> q, kv |-> k, active |-> r, waiting |-> s, max |-> x] EXCEPT !.max = t]
        = [queue |-> q, kv |-> k, active |-> r, waiting |-> s, max |-> t]
  OBVIOUS
<1> QED
  BY <1>1, <1>2, <1>3, <1>4

\* The LoRA series found is the newest of its family.
LEMMA NewestSeries ==
    ASSUME PagesTyped, NEW p \in DOMAIN Pages, Collector!Unambiguous(Pages[p]),
           Collector!GetLatestLoraMetric(Pages[p].lora) # << >>
    PROVE  \E i \in DOMAIN Pages[p].lora :
             /\ Collector!GetLatestLoraMetric(Pages[p].lora) = <<Pages[p].lora[i]>>
             /\ \A j \in DOMAIN Pages[p].lora : Pages[p].lora[j].val <= Pages[p].lora[i].val
<1> DEFINE series == Pages[p].lora
           read == [i \in DOMAIN series |-> Collector!ExtractValue(series[i])]
           all == {i \in Collector!Matching(series) : read[i] > -1}
           best == {i \in all : \A j \in all : read[j] < read[i] \/ (read[j] = read[i] /\ i <= j)}
<1>1. \A i \in DOMAIN series : series[i].val \in Int /\ series[i].val > 0 /\ series[i].ok
                                 /\ read[i] = series[i].val
  BY DEF PagesTyped, Collector!Unambiguous, Collector!ExtractValue
<1>2. all = DOMAIN series
  BY <1>1 DEF Collector!Matching, Collector!LabelsMatch
<1>3. Collector!GetLatestLoraMetric(series) =
        IF best = {} THEN << >> ELSE <<series[CHOOSE i \in best : TRUE]>>
  BY SameSeries DEF Collector!LoRASpecGetLatestMetric, Collector!LatestBy
<1>4. PICK i \in best : Collector!GetLatestLoraMetric(series) = <<series[i]>>
  <2> HIDE DEF best
  <2> QED
    BY <1>3
<1> QED
  BY <1>1, <1>2, <1>4

\* One page makes the same metrics of the same metrics, whatever families the
\* extractor is configured for.
LEMMA SameMetrics ==
    ASSUME PagesTyped, NEW p \in DOMAIN Pages, Collector!Unambiguous(Pages[p]),
           NEW mapping, NEW m, Recorded(m)
    PROVE  LET e == Collector!Extract(mapping, Pages[p], m)
               new == Collector!PromToPodMetrics(mapping, Pages[p], m)
           IN  (IF e.updated THEN e.metrics ELSE m) = new /\ Recorded(new)
<1>0. PICK q, k, a, w, x : m = [queue |-> q, kv |-> k, active |-> a, waiting |-> w, max |-> x]
  BY DEF Recorded
<1> DEFINE page == Pages[p]
           queue == IF "queue" \in mapping THEN Collector!GaugeOr(Collector!GetLatestMetric(page.queue), q) ELSE q
           kv == IF "kv" \in mapping THEN Collector!GaugeOr(Collector!GetLatestMetric(page.kv), k) ELSE k
           lora == IF "lora" \in mapping THEN Collector!GetLatestLoraMetric(page.lora) ELSE << >>
           e == Collector!Extract(mapping, page, m)
           new == Collector!PromToPodMetrics(mapping, page, m)
           base == [queue |-> queue, kv |-> kv, active |-> a, waiting |-> w, max |-> x]
<1>1. Collector!SpecGetLatestMetric(page.queue) = Collector!GetLatestMetric(page.queue)
      /\ Collector!SpecGetLatestMetric(page.kv) = Collector!GetLatestMetric(page.kv)
  BY DEF Collector!SpecGetLatestMetric, Collector!GetLatestMetric
<1>11. ASSUME NEW family, \A i \in Collector!Matching(family) : family[i].kind = "gauge", NEW old
       PROVE  Collector!ValueOr(Collector!GetLatestMetric(family), old)
                = Collector!GaugeOr(Collector!GetLatestMetric(family), old)
  <2> DEFINE found == Collector!GetLatestMetric(family)
             read == Collector!Timestamps(family)
             wanted == {i \in Collector!Matching(family) : read[i] > -1}
             best == {i \in wanted : \A j \in wanted : read[j] < read[i] \/ (read[j] = read[i] /\ i <= j)}
  <2>1. found = IF best = {} THEN << >> ELSE <<family[CHOOSE i \in best : TRUE]>>
    BY DEF Collector!GetLatestMetric, Collector!LatestBy
  <2>2. best \subseteq Collector!Matching(family)
    OBVIOUS
  <2>3. CASE found = << >>
    BY <2>3 DEF Collector!ValueOr, Collector!GaugeOr
  <2>4. CASE found # << >>
    <3>1. PICK i \in Collector!Matching(family) : found = <<family[i]>>
      <4> HIDE DEF best
      <4> QED
        BY <2>1, <2>2, <2>4
    <3>2. found[1].kind = "gauge"
      BY <1>11, <3>1
    <3> HIDE DEF found
    <3> QED
      BY <2>4, <3>2 DEF Collector!ValueOr, Collector!GaugeOr, Collector!GaugeValue, Collector!ExtractValue, found
  <2> QED
    BY <2>3, <2>4
<1>12. \A old : /\ Collector!ValueOr(Collector!GetLatestMetric(page.queue), old)
                     = Collector!GaugeOr(Collector!GetLatestMetric(page.queue), old)
                /\ Collector!ValueOr(Collector!GetLatestMetric(page.kv), old)
                     = Collector!GaugeOr(Collector!GetLatestMetric(page.kv), old)
  BY <1>11 DEF Collector!Unambiguous
<1>2. Collector!LoRASpecGetLatestMetric(page.lora) = Collector!GetLatestLoraMetric(page.lora)
  BY SameSeries
<1>3. m.queue = q /\ m.kv = k /\ m.active = a /\ m.waiting = w /\ m.max = x
  BY <1>0
<1> DEFINE updated == [m EXCEPT
             !.queue = IF "queue" \in mapping THEN Collector!GaugeOr(Collector!GetLatestMetric(page.queue), @) ELSE @,
             !.kv = IF "kv" \in mapping THEN Collector!GaugeOr(Collector!GetLatestMetric(page.kv), @) ELSE @]
<1>4. updated = base
  <2>1. updated = [m EXCEPT !.queue = queue, !.kv = kv]
    BY <1>3
  <2>2. [m EXCEPT !.queue = queue, !.kv = kv] = base
    <3>1. \A u, v : [m EXCEPT !.queue = u, !.kv = v]
                       = [queue |-> u, kv |-> v, active |-> a, waiting |-> w, max |-> x]
      <4> TAKE u, v
      <4>1. [m EXCEPT !.queue = u, !.kv = v] = [[m EXCEPT !.queue = u] EXCEPT !.kv = v]
        OBVIOUS
      <4>2. [m EXCEPT !.queue = u] = [queue |-> u, kv |-> k, active |-> a, waiting |-> w, max |-> x]
        BY <1>0
      <4>3. [[queue |-> u, kv |-> k, active |-> a, waiting |-> w, max |-> x] EXCEPT !.kv = v]
              = [queue |-> u, kv |-> v, active |-> a, waiting |-> w, max |-> x]
        OBVIOUS
      <4> QED
        BY <4>1, <4>2, <4>3
    <3> QED
      BY <3>1
  <2> QED
    BY <2>1, <2>2
<1>5. new = IF lora = << >> THEN base
            ELSE [base EXCEPT !.active = lora[1].running, !.waiting = lora[1].waiting,
                              !.max = Collector!AtoiOr(lora[1].max, @)]
  <2>1. new = IF lora = << >> THEN updated
              ELSE [updated EXCEPT !.active = lora[1].running, !.waiting = lora[1].waiting,
                                   !.max = Collector!AtoiOr(lora[1].max, @)]
    BY DEF Collector!PromToPodMetrics
  <2> HIDE DEF base, lora, updated, new
  <2> QED
    BY <1>4, <2>1
<1>6. e.metrics = IF lora = << >> THEN base ELSE Collector!PopulateLoRAMetrics(base, lora[1])
  <2> HIDE DEF base, lora
  <2> QED
    BY <1>1, <1>12, <1>2, <1>4 DEF Collector!Extract, lora
<1>7. e.updated <=> \/ "queue" \in mapping /\ Collector!GetLatestMetric(page.queue) # << >>
                    \/ "kv" \in mapping /\ Collector!GetLatestMetric(page.kv) # << >>
                    \/ lora # << >>
  BY <1>1, <1>2 DEF Collector!Extract
<1>8. CASE lora = << >>
  <2>1. new = base /\ e.metrics = base
    BY <1>5, <1>6, <1>8
  <2>2. ~e.updated => base = m
    BY <1>0, <1>7, <1>8 DEF Collector!GaugeOr
  <2>3. Recorded(base)
    BY DEF Recorded
  <2> QED
    BY <2>1, <2>2, <2>3
<1>9. CASE lora # << >>
  <2>1. PICK i \in DOMAIN page.lora :
           /\ lora = <<page.lora[i]>>
           /\ \A j \in DOMAIN page.lora : page.lora[j].val <= page.lora[i].val
    BY <1>9, NewestSeries
  <2> DEFINE found == page.lora[i]
  <2>2. /\ found.max # Collector!NotANumber /\ \A n \in found.running \union found.waiting  : n # "" /\ TrimSpace(n) = n
        /\ found.max \in Nat \union {Collector!NoLabel, Collector!NotANumber}
    BY <2>1 DEF Collector!Unambiguous, PagesTyped
  <2>3. lora[1] = found /\ e.updated
    BY <1>7, <1>9, <2>1
  <2>4. Collector!AddAdapters(found.running) = found.running /\ Collector!AddAdapters(found.waiting) = found.waiting
    <3>1. ASSUME NEW names, \A n \in names : n # "" /\ TrimSpace(n) = n
          PROVE  {TrimSpace(n) : n \in names} \ {""} = names
      <4>1. {TrimSpace(n) : n \in names} = names
        BY <3>1, Zenon
      <4> QED
        BY <3>1, <4>1
    <3>2. (\A n \in found.running : n # "" /\ TrimSpace(n) = n)
          /\ \A n \in found.waiting : n # "" /\ TrimSpace(n) = n
      BY <2>2
    <3> QED
      BY <3>1, <3>2 DEF Collector!AddAdapters
  <2>5. Collector!AtoiOr(found.max, x) = IF found.max < 0 THEN x ELSE found.max
    <3>1. found.max # -2 /\ found.max \in Nat \union {-1, -2}
      BY <2>2 DEF Collector!NoLabel, Collector!NotANumber
    <3> HIDE DEF found
    <3> QED
      BY <3>1 DEF Collector!AtoiOr, Collector!NoLabel, Collector!NotANumber
  <2> HIDE DEF found, lora
  <2> DEFINE result == [queue |-> queue, kv |-> kv, active |-> found.running, waiting |-> found.waiting,
                        max |-> Collector!AtoiOr(found.max, x)]
  <2>6. base.max = x
    OBVIOUS
  <2>7. new = result
    <3>1. new = [base EXCEPT !.active = found.running, !.waiting = found.waiting,
                             !.max = Collector!AtoiOr(found.max, x)]
      <4> HIDE DEF base
      <4> QED
        BY <1>5, <1>9, <2>3, <2>6
    <3> QED
      BY <3>1, AdapterFields
  <2>8. e.metrics = result
    <3>1. e.metrics = [base EXCEPT !.active = found.running, !.waiting = found.waiting,
                                   !.max = Collector!AtoiOr(found.max, x)]
      <4> HIDE DEF base
      <4> QED
        BY <1>6, <1>9, <2>3, <2>4, <2>5, <2>6 DEF Collector!PopulateLoRAMetrics
    <3> QED
      BY <3>1, AdapterFields
  <2>9. Recorded(result)
    BY DEF Recorded
  <2> HIDE DEF result, new, e
  <2>10. (IF e.updated THEN e.metrics ELSE m) = new /\ Recorded(new)
    BY <2>3, <2>7, <2>8, <2>9
  <2> QED
    BY <2>10 DEF new, e
<1> QED
  BY <1>8, <1>9


LEMMA CollectorInit == PagesTyped /\ Collector!Init => CollectorInv
<1> SUFFICES ASSUME PagesTyped, Collector!Init
             PROVE  CollectorInv
  OBVIOUS
<1>1. \E a, t, s, p : loop = [at |-> a, todo |-> t, source |-> s, page |-> p]
  BY DEF Collector!Init
<1>2. Recorded(endpoint) /\ endpoint = legacy
  BY DEF Collector!Init, Recorded, Collector!NewMetricsState
<1> QED
  BY <1>1, <1>2 DEF Collector!Init, CollectorInv

\* Steps that leave the goroutine, the page and the metrics alone, steps that
\* only move the goroutine, and the one step that extracts.
LEMMA CollectorStep == CollectorInv /\ [Collector!Next]_(Collector!vars) => CollectorInv'
<1> SUFFICES ASSUME CollectorInv, [Collector!Next]_(Collector!vars)
             PROVE  CollectorInv'
  OBVIOUS
<1>0. PICK a, t, s, p : loop = [at |-> a, todo |-> t, source |-> s, page |-> p]
  BY DEF CollectorInv
<1> USE DEF CollectorInv, Recorded, PagesTyped
<1>1. ASSUME UNCHANGED <<loop, shown, clear, endpoint, legacy>>
      PROVE  CollectorInv'
  BY <1>1
<1>2. ASSUME UNCHANGED <<shown, clear, endpoint, legacy>>,
             \E b, u : b # "extract" /\ loop' = [loop EXCEPT !.at = b, !.todo = u]
      PROVE  CollectorInv'
  <2>1. PICK b, u : b # "extract" /\ loop' = [loop EXCEPT !.at = b, !.todo = u]
    BY <1>2
  <2>2. loop' = [at |-> b, todo |-> u, source |-> s, page |-> p]
    BY <1>0, <2>1
  <2> QED
    BY <1>2, <2>1, <2>2
<1>3. ASSUME UNCHANGED <<shown, clear, endpoint, legacy>>,
             \E b : b # "extract" /\ loop' = [loop EXCEPT !.at = b]
      PROVE  CollectorInv'
  <2>1. PICK b : b # "extract" /\ loop' = [loop EXCEPT !.at = b]
    BY <1>3
  <2>2. loop' = [at |-> b, todo |-> t, source |-> s, page |-> p]
    BY <1>0, <2>1
  <2> QED
    BY <1>3, <2>1, <2>2
<1>4. ASSUME NEW o \in Sources, Collector!Register(o)
      PROVE  CollectorInv'
  BY <1>1, <1>4 DEF Collector!Register
<1>5. ASSUME NEW o \in Sources, NEW specs \in Specifications, Collector!AddExtractor(o, specs)
      PROVE  CollectorInv'
  BY <1>1, <1>5 DEF Collector!AddExtractor
<1>6. ASSUME NEW o \in Sources, Collector!CollectFails(o)
      PROVE  CollectorInv'
  <2>1. loop' = [at |-> a, todo |-> t \ {o}, source |-> s, page |-> p] /\ a = "source"
    BY <1>0, <1>6 DEF Collector!CollectFails
  <2> QED
    BY <1>6, <2>1 DEF Collector!CollectFails
<1>7. ASSUME NEW o \in Sources, Collector!CollectGets(o)
      PROVE  CollectorInv'
  BY <1>7 DEF Collector!CollectGets
<1>8. ASSUME NEW c \in Collector!Callers, Collector!Start(c)
      PROVE  CollectorInv'
  <2>1. CASE context = "nil"
    BY <1>3, <1>8, <2>1 DEF Collector!Start
  <2>2. CASE context # "nil"
    BY <1>1, <1>8, <2>2 DEF Collector!Start
  <2> QED
    BY <2>1, <2>2
<1>9. ASSUME NEW c \in Collector!Callers, Collector!StartReturns(c)
      PROVE  CollectorInv'
  BY <1>1, <1>9 DEF Collector!StartReturns
<1>10. CASE Collector!Stop \/ Collector!ParentDone
  BY <1>1, <1>10 DEF Collector!Stop, Collector!ParentDone
<1>11. CASE Collector!LoopReady \/ Collector!LoopExit \/ Collector!CollectDone
  BY <1>3, <1>11 DEF Collector!LoopReady, Collector!LoopExit, Collector!CollectDone
<1>12. CASE Collector!LoopTick
  BY <1>2, <1>12 DEF Collector!LoopTick
<1>13. CASE Collector!CollectExtracts
  <2>1. loop' = [at |-> "source", todo |-> t, source |-> {}, page |-> Collector!Down]
    BY <1>0, <1>13 DEF Collector!CollectExtracts
  <2>2. clear' \in BOOLEAN /\ (clear' => endpoint' = legacy' /\ Recorded(endpoint)')
    <3>1. CASE UNCHANGED <<endpoint, legacy, clear>>
      BY <3>1
    <3>2. CASE \E x \in extractors : x.source \in loop.source /\
            LET page == Pages[loop.page]
                e == Collector!Extract(x.mapping, page, endpoint)
            IN  /\ endpoint' = IF e.updated THEN e.metrics ELSE endpoint
                /\ legacy' = Collector!PromToPodMetrics(x.mapping, page, legacy)
                /\ clear' = (clear /\ Collector!Unambiguous(page))
      <4>1. PICK x \in extractors :
              LET e == Collector!Extract(x.mapping, Pages[loop.page], endpoint)
              IN  /\ endpoint' = IF e.updated THEN e.metrics ELSE endpoint
                  /\ legacy' = Collector!PromToPodMetrics(x.mapping, Pages[loop.page], legacy)
                  /\ clear' = (clear /\ Collector!Unambiguous(Pages[loop.page]))
        BY <3>2
      <4>2. clear' \in BOOLEAN
        BY <4>1
      <4>3. ASSUME clear'
            PROVE  endpoint' = legacy' /\ Recorded(endpoint)'
        <5>1. /\ clear /\ Collector!Unambiguous(Pages[loop.page]) /\ loop.page \in DOMAIN Pages
              /\ PagesTyped /\ Recorded(endpoint) /\ endpoint = legacy
          BY <1>13, <4>1, <4>3 DEF Collector!CollectExtracts
        <5> DEFINE mp == x.mapping
                   pg == loop.page
                   e == Collector!Extract(mp, Pages[pg], endpoint)
                   new == Collector!PromToPodMetrics(mp, Pages[pg], endpoint)
        <5>2. (IF e.updated THEN e.metrics ELSE endpoint) = new /\ Recorded(new)
          <6> HIDE DEF mp, pg, Recorded, PagesTyped
          <6> QED
            BY <5>1, SameMetrics DEF pg
        <5>3. endpoint' = new /\ legacy' = new
          <6>1. endpoint' = IF e.updated THEN e.metrics ELSE endpoint
            BY <4>1
          <6>2. legacy' = new
            BY <4>1, <5>1
          <6> HIDE DEF e, new
          <6> QED
            BY <5>2, <6>1, <6>2
        <5> HIDE DEF e, new
        <5> QED
          BY <5>2, <5>3
      <4> QED
        BY <4>2, <4>3
    <3> QED
      BY <1>13, <3>1, <3>2 DEF Collector!CollectExtracts
  <2>3. UNCHANGED shown
    BY <1>13 DEF Collector!CollectExtracts
  <2> QED
    BY <2>1, <2>2, <2>3
<1>14. CASE Collector!PageChange
  BY <1>14 DEF Collector!PageChange
<1>15. CASE UNCHANGED Collector!vars
  BY <1>1, <1>15 DEF Collector!vars
<1> QED
  BY <1>4, <1>5, <1>6, <1>7, <1>8, <1>9, <1>10, <1>11, <1>12, <1>13, <1>14, <1>15 DEF Collector!Next

\* Whatever page the server shows and whenever it changes, whichever sources
\* and families are registered, and wherever a request fails: as long as each
\* page extracted was unambiguous, the endpoint's metrics are those the EPP's
\* own scraper makes of the same pages, the values that earlier pages left
\* behind included.
THEOREM ScrapersAgree == PagesTyped /\ Collector!Spec => []ExtractorsAgree
<1>1. CollectorInv => ExtractorsAgree
  BY DEF ExtractorsAgree, CollectorInv, Collector!ExtractorsAgree
<1> QED
  BY <1>1, CollectorInit, CollectorStep, PTL DEF Collector!Spec

-----------------------------------------------------------------------------
\* The plugin state.


\* A request in use whose access time is stale has lapsed.
StaleLapsed == \A r \in Requests : pc[r].at # "done" /\ IsStale(lastAccess[r]) => lapsed[r]

\* So has one in use that the cleanup has picked.
PickedLapsed ==
    \A r \in cleaner.id : pc[r].at # "done" => lapsed[r]

\* A write that has loaded the map of a request that has not lapsed holds what
\* the request wrote.
LoadedWhole ==
    \A r \in Requests : pc[r].at = "store" /\ ~lapsed[r] => pc[r].map = written[r]

PluginInv == TypeOK /\ StaleLapsed /\ PickedLapsed /\ LoadedWhole /\ FreshDataKept

\* What the proofs use of the threshold.
LEMMA FreshAges == ~IsStale(0) /\ ~IsStale(NoTime) /\ MaxAge \in Nat /\ MaxAge > 0
BY StalenessAssumption DEF IsStale, NoTime, MaxAge

LEMMA PluginInit == ASSUME Init PROVE PluginInv
<1>1. TypeOK
  <2>1. NoTime \in NoTime .. MaxAge
    BY FreshAges DEF NoTime
  <2>2. /\ storage \in [Requests -> SUBSET Keys]
        /\ written \in [Requests -> SUBSET Keys]
        /\ lastAccess \in [Requests -> NoTime .. MaxAge]
    BY <2>1 DEF Init
  <2>3. /\ lapsed \in [Requests -> BOOLEAN]
        /\ cancelled \in BOOLEAN
    BY DEF Init
  <2>4. cleaner \in [at : {"wait", "range", "data", "time", "exited"},
                     todo : SUBSET Requests, id : SUBSET Requests]
    BY DEF Init
  <2>5. pc \in [Requests -> [at : {"idle", "read", "write", "store", "delete", "done"},
                             key : SUBSET Keys, map : SUBSET Keys]]
    BY DEF Init, Idle
  <2> QED
    BY <2>2, <2>3, <2>4, <2>5 DEF TypeOK
<1>2. StaleLapsed
  BY FreshAges DEF Init, StaleLapsed
<1>3. PickedLapsed /\ LoadedWhole /\ FreshDataKept
  BY DEF Init, PickedLapsed, LoadedWhole, FreshDataKept, Idle
<1> QED
  BY <1>1, <1>2, <1>3 DEF PluginInv

\* The calls of a request.
LEMMA CallStep ==
    ASSUME PluginInv, NEW r \in Requests, Call(r)
    PROVE  PluginInv'
<1>1. ASSUME NEW op \in {"read", "write"}, NEW k \in Keys, Touch(r, op, k) PROVE PluginInv'
  <2>1. TypeOK'
    BY <1>1, FreshAges DEF PluginInv, TypeOK, Touch, NoTime
  <2>2. StaleLapsed'
    BY <1>1, FreshAges DEF PluginInv, TypeOK, Touch, StaleLapsed
  <2>3. PickedLapsed' /\ LoadedWhole' /\ FreshDataKept'
    BY <1>1 DEF PluginInv, TypeOK, Touch, PickedLapsed, LoadedWhole, FreshDataKept
  <2> QED
    BY <2>1, <2>2, <2>3 DEF PluginInv
<1>2. CASE Read(r)
  <2>1. TypeOK'
    BY <1>2 DEF PluginInv, TypeOK, Read, Idle
  <2>2. StaleLapsed' /\ PickedLapsed'
    BY <1>2 DEF PluginInv, TypeOK, Read, Idle, StaleLapsed, PickedLapsed, IsStale
  <2>3. LoadedWhole' /\ FreshDataKept'
    BY <1>2 DEF PluginInv, TypeOK, Read, Idle, LoadedWhole, FreshDataKept
  <2> QED
    BY <2>1, <2>2, <2>3 DEF PluginInv
<1>3. CASE WriteLoad(r)
  <2>1. TypeOK'
    <3>1. pc' \in [Requests -> [at : {"idle", "read", "write", "store", "delete", "done"},
                                key : SUBSET Keys, map : SUBSET Keys]]
      <4>1. storage[r] \in SUBSET Keys
        BY DEF PluginInv, TypeOK
      <4>2. pc[r] \in [at : {"idle", "read", "write", "store", "delete", "done"},
                       key : SUBSET Keys, map : SUBSET Keys]
        BY DEF PluginInv, TypeOK
      <4>3. [pc[r] EXCEPT !.at = "store", !.map = storage[r]] \in
               [at : {"idle", "read", "write", "store", "delete", "done"},
                key : SUBSET Keys, map : SUBSET Keys]
        BY <4>1, <4>2
      <4>4. pc' = [pc EXCEPT ![r] = [pc[r] EXCEPT !.at = "store", !.map = storage[r]]]
        BY <1>3 DEF PluginInv, TypeOK, WriteLoad
      <4> QED
        BY <4>3, <4>4 DEF PluginInv, TypeOK
    <3> QED
      BY <1>3, <3>1 DEF PluginInv, TypeOK, WriteLoad
  <2>2. StaleLapsed' /\ PickedLapsed'
    BY <1>3 DEF PluginInv, TypeOK, WriteLoad, StaleLapsed, PickedLapsed, IsStale
  <2>3. LoadedWhole' /\ FreshDataKept'
    BY <1>3 DEF PluginInv, TypeOK, WriteLoad, LoadedWhole, FreshDataKept
  <2> QED
    BY <2>1, <2>2, <2>3 DEF PluginInv
<1>4. CASE WriteStore(r)
  <2>1. TypeOK'
    BY <1>4 DEF PluginInv, TypeOK, WriteStore, Idle
  <2>2. StaleLapsed' /\ PickedLapsed'
    BY <1>4 DEF PluginInv, TypeOK, WriteStore, Idle, StaleLapsed, PickedLapsed, IsStale
  <2>3. LoadedWhole' /\ FreshDataKept'
    BY <1>4 DEF PluginInv, TypeOK, WriteStore, Idle, LoadedWhole, FreshDataKept
  <2> QED
    BY <2>1, <2>2, <2>3 DEF PluginInv
<1>5. CASE DeleteData(r)
  <2>1. TypeOK'
    BY <1>5 DEF PluginInv, TypeOK, DeleteData
  <2>2. StaleLapsed' /\ PickedLapsed'
    BY <1>5 DEF PluginInv, TypeOK, DeleteData, StaleLapsed, PickedLapsed, IsStale
  <2>3. LoadedWhole' /\ FreshDataKept'
    BY <1>5 DEF PluginInv, TypeOK, DeleteData, LoadedWhole, FreshDataKept
  <2> QED
    BY <2>1, <2>2, <2>3 DEF PluginInv
<1>6. CASE DeleteTime(r)
  <2>1. TypeOK'
    BY <1>6, FreshAges DEF PluginInv, TypeOK, DeleteTime, Idle, NoTime
  <2>2. StaleLapsed'
    BY <1>6, FreshAges DEF PluginInv, TypeOK, DeleteTime, Idle, StaleLapsed
  <2>3. PickedLapsed' /\ LoadedWhole' /\ FreshDataKept'
    BY <1>6 DEF PluginInv, TypeOK, DeleteTime, Idle, PickedLapsed, LoadedWhole, FreshDataKept
  <2> QED
    BY <2>1, <2>2, <2>3 DEF PluginInv
<1>7. CASE Finish(r)
  BY <1>7 DEF PluginInv, TypeOK, Finish, StaleLapsed, PickedLapsed, LoadedWhole, FreshDataKept, IsStale
<1> QED
  BY <1>1, <1>2, <1>3, <1>4, <1>5, <1>6, <1>7 DEF Call

\* The cleanup goroutine.
LEMMA CleanupStep ==
    ASSUME PluginInv, Cleanup
    PROVE  PluginInv'
<1>1. CASE CleanupTick \/ CleanupRangeEnd \/ CleanupExit
  BY <1>1 DEF PluginInv, TypeOK, CleanupTick, CleanupRangeEnd, CleanupExit, StaleLapsed, PickedLapsed,
              LoadedWhole, FreshDataKept
<1>2. ASSUME NEW r \in Requests, CleanupVisit(r) PROVE PluginInv'
  <2>1. TypeOK'
    <3>1. CASE IsStale(lastAccess[r])
      BY <1>2, <3>1 DEF PluginInv, TypeOK, CleanupVisit
    <3>2. CASE ~IsStale(lastAccess[r])
      BY <1>2, <3>2 DEF PluginInv, TypeOK, CleanupVisit
    <3> QED
      BY <3>1, <3>2
  <2>3. LoadedWhole' /\ FreshDataKept' /\ StaleLapsed'
    BY <1>2 DEF PluginInv, CleanupVisit, LoadedWhole, FreshDataKept, StaleLapsed, IsStale
  <2>2. PickedLapsed'
    BY <1>2 DEF PluginInv, TypeOK, CleanupVisit, StaleLapsed, PickedLapsed
  <2> QED
    BY <2>1, <2>2, <2>3 DEF PluginInv
<1>3. CASE CleanupDeleteData
  <2>1. TypeOK' /\ LoadedWhole' /\ StaleLapsed' /\ PickedLapsed'
    BY <1>3 DEF PluginInv, TypeOK, CleanupDeleteData, LoadedWhole, StaleLapsed, PickedLapsed
  <2>2. FreshDataKept'
    BY <1>3 DEF PluginInv, TypeOK, CleanupDeleteData, PickedLapsed, FreshDataKept
  <2> QED
    BY <2>1, <2>2 DEF PluginInv
<1>4. CASE CleanupDeleteTime
  <2>1. TypeOK'
    <3>1. NoTime \in NoTime .. MaxAge
      BY FreshAges DEF NoTime
    <3>2. lastAccess' \in [Requests -> NoTime .. MaxAge]
      BY <1>4, <3>1 DEF PluginInv, TypeOK, CleanupDeleteTime
    <3> QED
      BY <1>4, <3>2 DEF PluginInv, TypeOK, CleanupDeleteTime
  <2>2. StaleLapsed'
    BY <1>4, FreshAges DEF PluginInv, TypeOK, CleanupDeleteTime, StaleLapsed
  <2>3. PickedLapsed' /\ LoadedWhole' /\ FreshDataKept'
    BY <1>4 DEF PluginInv, TypeOK, CleanupDeleteTime, PickedLapsed, LoadedWhole, FreshDataKept
  <2> QED
    BY <2>1, <2>2, <2>3 DEF PluginInv
<1> QED
  BY <1>1, <1>2, <1>3, <1>4 DEF Cleanup

LEMMA AdvanceStep ==
    ASSUME PluginInv, Advance
    PROVE  PluginInv'
<1>1. TypeOK'
  <2>1. \A age \in NoTime .. MaxAge : Older(age) \in NoTime .. MaxAge
    BY FreshAges DEF Older, NoTime
  <2>2. lapsed' \in [Requests -> BOOLEAN]
    BY DEF PluginInv, TypeOK, Advance
  <2> QED
    BY <2>1, <2>2 DEF PluginInv, TypeOK, Advance
<1>2. \A r \in Requests : lapsed[r] => lapsed'[r]
  BY DEF Advance
<1>3. StaleLapsed'
  BY DEF Advance, StaleLapsed
<1>4. PickedLapsed' /\ LoadedWhole' /\ FreshDataKept'
  BY <1>2 DEF PluginInv, TypeOK, Advance, PickedLapsed, LoadedWhole, FreshDataKept
<1> QED
  BY <1>1, <1>3, <1>4 DEF PluginInv

LEMMA PluginStep == ASSUME PluginInv, [Next]_vars PROVE PluginInv'
<1>1. CASE Cancel
  BY <1>1 DEF PluginInv, TypeOK, Cancel, StaleLapsed, PickedLapsed, LoadedWhole, FreshDataKept
<1>2. CASE UNCHANGED vars
  BY <1>2 DEF vars, PluginInv, TypeOK, StaleLapsed, PickedLapsed, LoadedWhole, FreshDataKept
<1> QED
  BY <1>1, <1>2, CallStep, CleanupStep, AdvanceStep DEF Next

\* For any requests, keys and threshold: a request that never leaves its data
\* untouched for longer than the threshold keeps exactly what it wrote, while
\* the cleanup goroutine of PluginState deletes from the two maps one by one.
THEOREM FreshKept == Spec => []FreshDataKept
<1>1. Init => PluginInv
  BY PluginInit
<1>2. PluginInv /\ [Next]_vars => PluginInv'
  BY PluginStep
<1>3. PluginInv => FreshDataKept
  BY DEF PluginInv
<1> QED
  BY <1>1, <1>2, <1>3, PTL DEF Spec
=============================================================================
