------------------------ MODULE ExtProcServerProofs ------------------------
(***************************************************************************)
(* Proofs about the endpoint picker's request path, for every set of        *)
(* streams and pods, every exchange the clients and model servers may have, *)
(* every limit of a chunk and any number of changes of the store: replies   *)
(* keep their order, the counters tell each stream's story once, admission  *)
(* follows the capacity the pods had, and requests go where the scheduler   *)
(* sent them.                                                               *)
(*                                                                          *)
(* The inductive invariant has one part per question about a stream; all    *)
(* of them but Admission and Gauge speak of one stream's own state.         *)
(***************************************************************************)
EXTENDS ExtProcServer, FiniteSetTheorems, SequenceTheorems, TLAPS

-----------------------------------------------------------------------------
(* Types.                                                                   *)

Director == {"admit", "saturated", "schedule", "prepare"}
PCs == Director \cup {"recv", "randomPod", "send", "error", "shed", "closed", "returned"}
RequestPhases == {"new", "reqBody", "reqTrailers"}
ResponsePhases == {"respBody", "respTrailers", "end"}
Phases == RequestPhases \cup {"upstream"} \cup ResponsePhases

Routes == [kind : {"reqHeaders"}, size : Nat, eos : {FALSE}, endpoints : SUBSET Pods, port : Ports]
Plain(kind) == [kind : {kind}, size : Int, eos : BOOLEAN]
Kinds == {"reqHeaders", "reqBody", "respHeaders", "respBody", "immediate"}
Messages == Routes \cup UNION {Plain(k) : k \in Kinds \ {"reqHeaders"}}
Contexts == [state : RequestStates, model : Models \cup {Absent}, streaming : BOOLEAN, status : BOOLEAN,
             isRunning : BOOLEAN, reqHeaderResp : Routes \cup {Absent}, reqBodyResp : Seq(Plain("reqBody")),
             respHeaderResp : BOOLEAN, respBodyResp : Seq(Plain("respBody"))]
Records == [requests : 0..1, errors : 0..1, latencies : 0..1, tokens : 0..1]

TypeOK ==
  /\ load \in Loads
  /\ pc \in [Streams -> PCs] /\ phase \in [Streams -> Phases] /\ next \in [Streams -> Nat \ {0}]
  /\ DOMAIN req = Streams /\ DOMAIN resp = Streams
  /\ req = [s \in Streams |-> req[s]] /\ resp = [s \in Streams |-> resp[s]]
  /\ ctx \in [Streams -> Contexts] /\ body \in [Streams -> [req : Nat, resp : Nat]]
  /\ err \in [Streams -> Codes \cup {Absent}]
  /\ targets \in [Streams -> SUBSET Pods] /\ todo \in [Streams -> SUBSET Pods]
  /\ sent \in [Streams -> Seq(Messages)] /\ recorded \in [Streams -> Records]
  /\ running \in [Models -> Int]
  /\ pool \in Ports \cup {Absent} /\ podSet \in SUBSET Pods /\ metrics \in [Pods -> Metrics] /\ changes \in Nat
  /\ ever \in [Streams -> SUBSET Pods] /\ always \in [Streams -> SUBSET Pods]
  /\ crashed \in BOOLEAN

-----------------------------------------------------------------------------
(* The parts of the invariant.                                              *)

Open(s) == pc[s] \notin {"closed", "returned"}

\* What Envoy sends next is a message of the exchange the stream carries.
Exchange(s) ==
  /\ pc[s] # "returned" /\ phase[s] # "new" => req[s] \in load[s].req
  /\ pc[s] # "returned" /\ phase[s] \in ResponsePhases
       => resp[s] \in load[s].resp /\ ctx[s].streaming = resp[s].streaming
  /\ phase[s] = "reqBody" => next[s] \in DOMAIN req[s].chunks
  /\ phase[s] = "respBody" => next[s] \in DOMAIN resp[s].chunks

\* The picker has said nothing yet, and counted nothing.
Silent(s) ==
  /\ ctx[s].state = 0 /\ ctx[s].reqHeaderResp = Absent /\ ctx[s].reqBodyResp = <<>> /\ ~ctx[s].isRunning
  /\ sent[s] = <<>> /\ recorded[s].requests = 0

\* Where the goroutine is, what Envoy sends next and the RequestState agree.
Located(s) ==
  /\ pc[s] \in Director => phase[s] = "upstream" /\ body[s].req = 0
  /\ pc[s] = "randomPod" => phase[s] = "upstream" /\ req[s].chunks = <<>>
  /\ pc[s] \in {"error", "shed"} => phase[s] = "upstream" /\ err[s] # Absent
  /\ pc[s] \in Director \cup {"randomPod", "error", "shed"} => Silent(s)
  /\ Open(s) /\ phase[s] \in RequestPhases => Silent(s)
  /\ Open(s) => (phase[s] \in ResponsePhases <=> ctx[s].state \in {4, 5, 6})
  /\ pc[s] = "returned" => sent[s] = <<>> /\ phase[s] = "end"

\* The highest rank of a message a stream in the state may have been sent.
Top == [st \in RequestStates |-> CASE st = 0 -> 0 [] st = 1 -> 1 [] st \in {2, 4} -> 2 [] OTHER -> 4]
\* Replies are in order and none is ahead of the state.
Replies(s) ==
  /\ Ordered(sent[s])
  /\ Open(s) => \A i \in DOMAIN sent[s] : Rank[sent[s][i].kind] <= Top[ctx[s].state]
  /\ Open(s) /\ ctx[s].state = 5 => ~Ends(sent[s], "respBody")
  /\ Ordered(ctx[s].reqBodyResp) /\ Ordered(ctx[s].respBodyResp)
  /\ ctx[s].reqBodyResp # <<>> => ctx[s].reqBodyResp[Len(ctx[s].reqBodyResp)].eos

\* A request is counted before its body is forwarded, and runs from then on.
Requests(s) ==
  /\ Ends(sent[s], "reqBody") \/ ctx[s].reqBodyResp # <<>> => recorded[s].requests = 1
  /\ Open(s) => (ctx[s].isRunning <=> Ends(sent[s], "reqBody"))
  /\ recorded[s].requests = 1 => body[s].req = 0

\* Errors are counted when the stream closes.
Errors(s) ==
  /\ Open(s) => recorded[s].errors = 0
  /\ pc[s] = "closed" => (recorded[s].errors = 1 <=> \/ Ends(sent[s], "immediate")
                                                     \/ ctx[s].status \/ err[s] # Absent)

\* Tokens are recorded at the end mark of a streamed response, or at the end of another.
Usage(s) ==
  /\ phase[s] \notin ResponsePhases => recorded[s].tokens = 0 /\ recorded[s].latencies = 0
  /\ phase[s] = "respBody" =>
       /\ recorded[s].latencies = 0
       /\ recorded[s].tokens = IF resp[s].streaming /\ resp[s].done \in 1 .. next[s] - 1 /\ resp[s].usage = "full"
                               THEN 1 ELSE 0
  /\ Ends(sent[s], "respBody") \/ Ends(ctx[s].respBodyResp, "respBody")
       => /\ phase[s] = "end"
          /\ recorded[s].requests = 1 => (recorded[s].tokens = 1 <=> UsageReported(resp[s]))

\* The pods a request goes to are the ones chosen for it.
Chosen(s) ==
  /\ targets[s] # {}
  /\ req[s].subset # Absent /\ req[s].chunks # <<>> => targets[s] \subseteq req[s].subset
Routing(s) ==
  /\ \A i \in DOMAIN sent[s] : sent[s][i].kind = "reqHeaders" => sent[s][i] = ctx[s].reqHeaderResp /\ sent[s][i] # Absent
  /\ ctx[s].reqHeaderResp # Absent /\ phase[s] = "upstream"
       => ctx[s].reqHeaderResp.endpoints = targets[s] /\ Chosen(s)
  /\ pc[s] \in {"randomPod", "prepare"} => Chosen(s)

\* The pods still to be looked at that have capacity now.
Good(s) == {p \in todo[s] : GoodCapacity(metrics[p])}
\* A pod that had capacity ever since it was listed is still to be looked at,
\* so the walk cannot come to its end without it.
Admission(s) ==
  /\ pc[s] = "saturated" => /\ always[s] \subseteq Good(s) /\ Good(s) \subseteq ever[s]
                            /\ CriticalityOf(req[s]) < 2
  /\ pc[s] = "shed" => CriticalityOf(req[s]) < 2 /\ always[s] = {}
  /\ pc[s] \in {"schedule", "prepare"} /\ CriticalityOf(req[s]) < 2 => ever[s] # {}

Running(m) == {s \in Streams : pc[s] # "closed" /\ Forwarded(s) /\ ctx[s].model = m}
Gauge == \A m \in Models : running[m] = Cardinality(Running(m))

StreamInv(s) == /\ Exchange(s) /\ Located(s) /\ Replies(s) /\ Requests(s)
                /\ Errors(s) /\ Usage(s) /\ Routing(s) /\ Admission(s)
Inv == TypeOK /\ (\A s \in Streams : StreamInv(s)) /\ Gauge

-----------------------------------------------------------------------------
(* Sequences of messages.                                                    *)

\* Ranks of the kinds.
LEMMA Ranks ==
  /\ Rank["reqHeaders"] = 1 /\ Rank["reqBody"] = 2 /\ Rank["respHeaders"] = 3
  /\ Rank["respBody"] = 4 /\ Rank["immediate"] = 5
BY DEF Rank

\* Every message sent is ranked.
LEMMA MessageType ==
  ASSUME NEW m \in Messages
  PROVE  /\ m.kind \in Kinds /\ m.eos \in BOOLEAN /\ Rank[m.kind] \in 1..5
         /\ m.kind = "reqHeaders" => ~m.eos
<1>1. CASE m \in Routes
  <2>1. m.kind = "reqHeaders" /\ m.eos = FALSE
    BY <1>1 DEF Routes
  <2>2. m.eos \in BOOLEAN /\ ~m.eos
    BY <2>1, Zenon
  <2>3. m.kind \in Kinds /\ Rank[m.kind] \in 1..5
    BY <2>1, Ranks DEF Kinds
  <2> QED BY <2>2, <2>3
<1>2. ASSUME NEW k \in Kinds \ {"reqHeaders"}, m \in Plain(k)
      PROVE  m.kind = k /\ k \in Kinds /\ m.eos \in BOOLEAN /\ Rank[k] \in 1..5 /\ k # "reqHeaders"
  BY <1>2, Ranks DEF Plain, Kinds
<1> QED BY <1>1, <1>2 DEF Messages

\* Chunks of a body are messages.
LEMMA PlainMessages ==
  /\ \A k \in Kinds \ {"reqHeaders"} : Plain(k) \subseteq Messages
  /\ \A k \in Kinds \ {"reqHeaders"} : Seq(Plain(k)) \subseteq Seq(Messages)
<1>1. \A k \in Kinds \ {"reqHeaders"} : Plain(k) \subseteq Messages
  BY DEF Messages
<1> QED BY <1>1, SeqMonotonic

\* buildCommonResponses cuts a body into at least one chunk, and only the last
\* one ends the stream, if the caller asks for that.
LEMMA Chunks ==
  ASSUME NEW kind \in {"reqBody", "respBody"}, NEW len \in Nat, NEW setEos \in BOOLEAN,
         NEW q, q = buildCommonResponses(kind, len, setEos)
  PROVE  /\ q \in Seq(Plain(kind)) /\ Ordered(q)
         /\ q # <<>> => q[Len(q)].eos = setEos
         /\ Ends(q, kind) => setEos
<1> DEFINE n == IF len = 0 THEN 1 ELSE (len + bodyByteLimit - 1) \div bodyByteLimit
<1>1. n \in Nat
  BY LimitAssumption
<1> DEFINE size(i) == IF i < n THEN bodyByteLimit ELSE len - (n - 1) * bodyByteLimit
<1>2. q = [i \in 1..n |-> Message(kind, size(i), setEos /\ i = n)]
  BY DEF buildCommonResponses
<1>3. \A i \in 1..n : size(i) \in Int
  BY <1>1, LimitAssumption
<1> HIDE DEF n, size
<1>4. \A i \in 1..n : /\ q[i] = Message(kind, size(i), setEos /\ i = n) /\ q[i] \in Plain(kind)
                      /\ q[i].kind = kind /\ q[i].eos = (setEos /\ i = n)
  BY <1>2, <1>3 DEF Message, Plain
<1>5. \A i \in 1..n : IF i = n THEN q[i].eos = setEos ELSE q[i].eos = FALSE
  <2> TAKE i \in 1..n
  <2>1. q[i].eos = (setEos /\ i = n)
    BY <1>4
  <2> QED BY <2>1, Zenon
<1>6. q \in Seq(Plain(kind)) /\ Len(q) = n /\ DOMAIN q = 1..n
  BY <1>1, <1>2, <1>4
<1>7. Ordered(q)
  <2>1. Rank[kind] \in Int /\ kind # "immediate"
    BY Ranks
  <2>2. ASSUME NEW i \in 1..n, NEW j \in 1..n, i < j
        PROVE  q[i].kind = kind /\ q[j].kind = kind /\ ~q[i].eos
    BY <1>1, <1>4, <1>5, <2>2
  <2> QED BY <1>6, <2>1, <2>2 DEF Ordered, MayPrecede
<1>8. q # <<>> => q[Len(q)].eos = setEos
  BY <1>1, <1>6, <1>5
<1>9. Ends(q, kind) => setEos
  BY <1>6, <1>5 DEF Ends
<1> QED BY <1>6, <1>7, <1>8, <1>9

\* What concatenation does to the order and the ends of messages.
LEMMA Concatenated ==
  ASSUME NEW p \in Seq(Messages), NEW q \in Seq(Messages), Ordered(p), Ordered(q),
         \A i \in DOMAIN p, j \in DOMAIN q : MayPrecede(p[i], q[j])
  PROVE  Ordered(p \o q)
<1>1. /\ DOMAIN p = 1..Len(p) /\ DOMAIN q = 1..Len(q) /\ Len(p) \in Nat /\ Len(q) \in Nat
      /\ DOMAIN (p \o q) = 1..(Len(p) + Len(q))
  OBVIOUS
<1>2. \A i \in 1..(Len(p) + Len(q)) : (p \o q)[i] = IF i <= Len(p) THEN p[i] ELSE q[i - Len(p)]
  OBVIOUS
<1>3. SUFFICES ASSUME NEW i \in 1..(Len(p) + Len(q)), NEW j \in 1..(Len(p) + Len(q)), i < j
               PROVE  MayPrecede((p \o q)[i], (p \o q)[j])
  BY <1>1 DEF Ordered
<1>4. CASE j <= Len(p)
  BY <1>1, <1>2, <1>3, <1>4 DEF Ordered
<1>5. CASE i <= Len(p) /\ j > Len(p)
  <2>1. i \in DOMAIN p /\ j - Len(p) \in DOMAIN q
    BY <1>1, <1>3, <1>5
  <2>2. (p \o q)[i] = p[i] /\ (p \o q)[j] = q[j - Len(p)]
    BY <1>1, <1>2, <1>3, <1>5
  <2> QED BY <2>1, <2>2
<1>6. CASE i > Len(p)
  BY <1>1, <1>2, <1>3, <1>6 DEF Ordered
<1> QED BY <1>1, <1>3, <1>4, <1>5, <1>6

\* Messages of a concatenation.
LEMMA ConcatElements ==
  ASSUME NEW p \in Seq(Messages), NEW q \in Seq(Messages)
  PROVE  /\ p \o q \in Seq(Messages)
         /\ \A i \in DOMAIN (p \o q) :
              (\E j \in DOMAIN p : (p \o q)[i] = p[j]) \/ (\E j \in DOMAIN q : (p \o q)[i] = q[j])
         /\ \A j \in DOMAIN p : \E i \in DOMAIN (p \o q) : (p \o q)[i] = p[j]
         /\ \A j \in DOMAIN q : \E i \in DOMAIN (p \o q) : (p \o q)[i] = q[j]
<1>1. /\ DOMAIN p = 1..Len(p) /\ DOMAIN q = 1..Len(q) /\ Len(p) \in Nat /\ Len(q) \in Nat
      /\ DOMAIN (p \o q) = 1..(Len(p) + Len(q)) /\ p \o q \in Seq(Messages)
  OBVIOUS
<1>2. \A i \in 1..(Len(p) + Len(q)) : (p \o q)[i] = IF i <= Len(p) THEN p[i] ELSE q[i - Len(p)]
  OBVIOUS
<1>3. \A i \in DOMAIN (p \o q) :
        (\E j \in DOMAIN p : (p \o q)[i] = p[j]) \/ (\E j \in DOMAIN q : (p \o q)[i] = q[j])
  <2> TAKE i \in DOMAIN (p \o q)
  <2>1. CASE i <= Len(p)
    BY <1>1, <1>2, <2>1
  <2>2. CASE i > Len(p)
    <3>1. i - Len(p) \in DOMAIN q
      BY <1>1, <2>2
    <3> QED BY <1>1, <1>2, <2>2, <3>1
  <2> QED BY <1>1, <2>1, <2>2
<1>4. \A j \in DOMAIN p : \E i \in DOMAIN (p \o q) : (p \o q)[i] = p[j]
  BY <1>1, <1>2
<1>5. \A j \in DOMAIN q : \E i \in DOMAIN (p \o q) : (p \o q)[i] = q[j]
  <2> TAKE j \in DOMAIN q
  <2>1. Len(p) + j \in DOMAIN (p \o q) /\ (p \o q)[Len(p) + j] = q[j]
    BY <1>1, <1>2
  <2> QED BY <2>1
<1> QED BY <1>1, <1>3, <1>4, <1>5, Zenon

\* Ends of a concatenation.
LEMMA ConcatEnds ==
  ASSUME NEW p \in Seq(Messages), NEW q \in Seq(Messages), NEW k
  PROVE  Ends(p \o q, k) <=> Ends(p, k) \/ Ends(q, k)
<1>1. ASSUME NEW i \in DOMAIN (p \o q), (p \o q)[i].kind = k, (p \o q)[i].eos
      PROVE  Ends(p, k) \/ Ends(q, k)
  <2>1. (\E j \in DOMAIN p : (p \o q)[i] = p[j]) \/ (\E j \in DOMAIN q : (p \o q)[i] = q[j])
    BY ConcatElements
  <2> QED BY <1>1, <2>1, Zenon DEF Ends
<1>2. Ends(p, k) => Ends(p \o q, k)
  <2>1. \A j \in DOMAIN p : \E i \in DOMAIN (p \o q) : (p \o q)[i] = p[j]
    BY ConcatElements
  <2> QED BY <2>1, Zenon DEF Ends
<1>3. Ends(q, k) => Ends(p \o q, k)
  <2>1. \A j \in DOMAIN q : \E i \in DOMAIN (p \o q) : (p \o q)[i] = q[j]
    BY ConcatElements
  <2> QED BY <2>1, Zenon DEF Ends
<1> QED BY <1>1, <1>2, <1>3, Zenon DEF Ends

\* A prefix of what was to be sent.
LEMMA Prefix ==
  ASSUME NEW q \in Seq(Messages), NEW k \in 0..(Len(q) - 1)
  PROVE  /\ SubSeq(q, 1, k) \in Seq(Messages)
         /\ \A i \in DOMAIN SubSeq(q, 1, k) : i \in DOMAIN q /\ SubSeq(q, 1, k)[i] = q[i]
         /\ Ordered(q) => Ordered(SubSeq(q, 1, k))
         /\ \A kind : Ends(SubSeq(q, 1, k), kind) => Ends(q, kind)
<1>1. /\ SubSeq(q, 1, k) \in Seq(Messages)
      /\ \A i \in DOMAIN SubSeq(q, 1, k) : i \in DOMAIN q /\ SubSeq(q, 1, k)[i] = q[i]
  BY SubSeqProperties
<1>2. Ordered(q) => Ordered(SubSeq(q, 1, k))
  BY <1>1 DEF Ordered
<1>3. \A kind : Ends(SubSeq(q, 1, k), kind) => Ends(q, kind)
  BY <1>1 DEF Ends
<1> QED BY <1>1, <1>2, <1>3

-----------------------------------------------------------------------------
(* What updateStateAndSendIfNeeded sends.                                    *)

\* The bodies of a context are its chunks, in order; the request's ends.
Waiting(c) ==
  /\ c \in Contexts /\ Ordered(c.reqBodyResp) /\ Ordered(c.respBodyResp)
  /\ c.reqBodyResp # <<>> => c.reqBodyResp[Len(c.reqBodyResp)].eos

\* A chunk that ends its body is the last one.
LEMMA EndIsLast ==
  ASSUME NEW kind \in {"reqBody", "respBody"}, NEW q \in Seq(Plain(kind)), Ordered(q), q # <<>>
  PROVE  Ends(q, kind) <=> q[Len(q)].eos
<1>1. Len(q) \in DOMAIN q /\ DOMAIN q = 1..Len(q) /\ Len(q) \in Nat
  OBVIOUS
<1>2. \A i \in DOMAIN q : q[i] \in Plain(kind)
  BY <1>1
<1>3. \A i \in DOMAIN q : q[i].kind = kind
  BY <1>2 DEF Plain
<1>4. ASSUME NEW i \in DOMAIN q, q[i].eos
      PROVE  i = Len(q)
  <2>1. CASE i < Len(q)
    BY <1>1, <1>3, <1>4, <2>1 DEF Ordered, MayPrecede
  <2> QED BY <1>1, <2>1
<1> QED BY <1>1, <1>3, <1>4 DEF Ends

\* Kinds of the messages that follow a state.
Following(st, kind) == \/ st = 0 /\ kind \in {"reqHeaders", "reqBody"}
                       \/ st = 1 /\ kind = "reqBody"
                       \/ st = 4 /\ kind \in {"respHeaders", "respBody"}
                       \/ st = 5 /\ kind = "respBody"
\* What is sent in a state, for a context that may be sent from.
LEMMA SendTypes ==
  ASSUME NEW c, Waiting(c), NEW out, out = ToSend(c)
  PROVE  /\ out.msgs \in Seq(Messages) /\ Ordered(out.msgs)
         /\ \A i \in DOMAIN out.msgs :
              /\ Following(c.state, out.msgs[i].kind)
              /\ Rank[out.msgs[i].kind] <= Top[out.ctx.state]
              /\ out.msgs[i].kind = "reqHeaders" => out.msgs[i] = c.reqHeaderResp /\ out.msgs[i] # Absent
         /\ out.starts \in BOOLEAN /\ (out.starts <=> Ends(out.msgs, "reqBody"))
         /\ out.starts => c.reqBodyResp # <<>>
         /\ Ends(out.msgs, "respBody") => Ends(c.respBodyResp, "respBody") /\ out.ctx.state # 5
<1> DEFINE reqH == c.state = 0 /\ c.reqHeaderResp # Absent
           reqB == (reqH \/ c.state = 1) /\ c.reqBodyResp # <<>>
           respH == c.state = 4 /\ c.respHeaderResp
           respB == (respH \/ c.state = 5) /\ c.respBodyResp # <<>>
           A == IF reqH THEN <<c.reqHeaderResp>> ELSE <<>>
           B == IF reqB THEN c.reqBodyResp ELSE <<>>
           C == IF respH THEN <<Message("respHeaders", 0, FALSE)>> ELSE <<>>
           D == IF respB THEN c.respBodyResp ELSE <<>>
<1>1. /\ c.state \in RequestStates /\ c.reqHeaderResp \in Routes \cup {Absent} /\ c.respHeaderResp \in BOOLEAN
      /\ c.reqBodyResp \in Seq(Plain("reqBody")) /\ c.respBodyResp \in Seq(Plain("respBody"))
      /\ Ordered(c.reqBodyResp) /\ Ordered(c.respBodyResp)
      /\ c.reqBodyResp # <<>> => c.reqBodyResp[Len(c.reqBodyResp)].eos
  BY DEF Waiting, Contexts
<1>2. /\ out.msgs = A \o B \o C \o D /\ out.starts = reqB
      /\ out.ctx.state = IF reqB THEN 2 ELSE IF reqH THEN 1
                         ELSE IF respB /\ c.respBodyResp[Len(c.respBodyResp)].eos THEN 6
                         ELSE IF respH THEN 5 ELSE c.state
  BY DEF ToSend, Waiting, Contexts, Last
<1>3. reqH \in BOOLEAN /\ reqB \in BOOLEAN /\ respH \in BOOLEAN /\ respB \in BOOLEAN
  BY <1>1
<1>4. A \in Seq(Messages) /\ Ordered(A) /\ \A i \in DOMAIN A : reqH /\ A[i] = c.reqHeaderResp /\ A[i].kind = "reqHeaders"
  <2>1. CASE reqH
    <3>1. c.reqHeaderResp \in Messages /\ c.reqHeaderResp.kind = "reqHeaders"
      BY <1>1, <2>1 DEF Messages, Routes
    <3> QED BY <2>1, <3>1 DEF Ordered
  <2>2. CASE ~reqH
    BY <2>2 DEF Ordered
  <2> QED BY <2>1, <2>2
<1>5. B \in Seq(Messages) /\ Ordered(B) /\ \A i \in DOMAIN B : reqB /\ B[i].kind = "reqBody"
  <2>1. B \in Seq(Plain("reqBody")) /\ Ordered(B)
    BY <1>1 DEF Ordered
  <2>2. \A i \in DOMAIN B : B[i] \in Plain("reqBody") /\ reqB
    BY <2>1
  <2> QED BY <2>1, <2>2, PlainMessages DEF Plain, Kinds
<1>6. C \in Seq(Messages) /\ Ordered(C) /\ \A i \in DOMAIN C : respH /\ C[i].kind = "respHeaders" /\ ~C[i].eos
  <2>1. Message("respHeaders", 0, FALSE) \in Messages
    <3>1. Message("respHeaders", 0, FALSE) \in Plain("respHeaders")
      BY DEF Message, Plain
    <3> QED BY <3>1, PlainMessages DEF Kinds
  <2> QED BY <2>1 DEF Ordered, Message
<1>7. D \in Seq(Messages) /\ Ordered(D) /\ \A i \in DOMAIN D : respB /\ D[i].kind = "respBody"
  <2>1. D \in Seq(Plain("respBody")) /\ Ordered(D)
    BY <1>1 DEF Ordered
  <2>2. \A i \in DOMAIN D : D[i] \in Plain("respBody") /\ respB
    BY <2>1
  <2> QED BY <2>1, <2>2, PlainMessages DEF Plain, Kinds
<1>8. /\ ~reqB => B = <<>>
      /\ ~respB => D = <<>>
      /\ ~reqH => A = <<>>
      /\ ~respH => C = <<>>
  OBVIOUS
<1>9. reqB => Ends(B, "reqBody")
  BY <1>1, EndIsLast
<1>10. respB => (Ends(D, "respBody") <=> c.respBodyResp[Len(c.respBodyResp)].eos) /\ D = c.respBodyResp
  BY <1>1, EndIsLast
<1>11. /\ reqB => reqH \/ c.state = 1
       /\ respB => respH \/ c.state = 5
       /\ reqH => c.state = 0 /\ c.reqHeaderResp # Absent
       /\ respH => c.state = 4
       /\ reqB => c.reqBodyResp # <<>>
  OBVIOUS
<1> HIDE DEF reqH, reqB, respH, respB, A, B, C, D
<1>12. out.starts \in BOOLEAN /\ (out.starts => c.reqBodyResp # <<>>)
  BY <1>2, <1>3, <1>11
<1>13. c.state \in {0, 1, 2, 4, 5, 6}
  BY <1>1 DEF RequestStates
<1>14. /\ Top[0] = 0 /\ Top[1] = 1 /\ Top[2] = 2 /\ Top[4] = 2 /\ Top[5] = 4 /\ Top[6] = 4
  BY DEF Top, RequestStates
<1>15. CASE c.state \in {0, 1, 2, 6}
  <2>1. ~respH /\ ~respB /\ C = <<>> /\ D = <<>>
    BY <1>8, <1>11, <1>15
  <2>2. out.msgs = A \o B
    BY <1>2, <1>4, <1>5, <2>1, ConcatProperties, ConcatEmptySeq
  <2>3. \A i \in DOMAIN A, j \in DOMAIN B : MayPrecede(A[i], B[j])
    BY <1>4, <1>5, Ranks DEF MayPrecede
  <2>4. out.msgs \in Seq(Messages) /\ Ordered(out.msgs)
    BY <1>4, <1>5, <2>2, <2>3, Concatenated, ConcatElements
  <2>5. ASSUME NEW i \in DOMAIN out.msgs
        PROVE  \/ out.msgs[i] = c.reqHeaderResp /\ out.msgs[i].kind = "reqHeaders" /\ reqH
               \/ out.msgs[i].kind = "reqBody" /\ reqB
    <3>1. \A k \in DOMAIN (A \o B) :
            (\E j \in DOMAIN A : (A \o B)[k] = A[j]) \/ (\E j \in DOMAIN B : (A \o B)[k] = B[j])
      BY <1>4, <1>5, ConcatElements
    <3> QED BY <1>4, <1>5, <2>2, <3>1
  <2>6. out.ctx.state = IF reqB THEN 2 ELSE IF reqH THEN 1 ELSE c.state
    BY <1>2, <2>1
  <2>7. \A i \in DOMAIN out.msgs :
              /\ Following(c.state, out.msgs[i].kind)
              /\ Rank[out.msgs[i].kind] <= Top[out.ctx.state]
              /\ out.msgs[i].kind = "reqHeaders" => out.msgs[i] = c.reqHeaderResp /\ out.msgs[i] # Absent
    BY <1>3, <1>11, <1>14, <2>5, <2>6, Ranks DEF Following
  <2>8. out.starts <=> Ends(out.msgs, "reqBody")
    <3>1. reqB => Ends(out.msgs, "reqBody")
      BY <1>4, <1>5, <1>9, <2>2, ConcatEnds
    <3>2. Ends(out.msgs, "reqBody") => reqB
      BY <2>5 DEF Ends
    <3> QED BY <1>2, <3>1, <3>2
  <2>9. ~Ends(out.msgs, "respBody")
    BY <2>5 DEF Ends
  <2> QED BY <1>12, <2>4, <2>7, <2>8, <2>9
<1>16. CASE c.state \in {4, 5}
  <2>1. ~reqH /\ ~reqB /\ A = <<>> /\ B = <<>>
    BY <1>8, <1>11, <1>16
  <2>2. out.msgs = C \o D
    BY <1>2, <1>6, <1>7, <2>1, ConcatProperties, ConcatEmptySeq
  <2>3. \A i \in DOMAIN C, j \in DOMAIN D : MayPrecede(C[i], D[j])
    BY <1>6, <1>7, Ranks DEF MayPrecede
  <2>4. out.msgs \in Seq(Messages) /\ Ordered(out.msgs)
    BY <1>6, <1>7, <2>2, <2>3, Concatenated, ConcatElements
  <2>5. ASSUME NEW i \in DOMAIN out.msgs
        PROVE  \/ out.msgs[i].kind = "respHeaders" /\ respH
               \/ out.msgs[i].kind = "respBody" /\ respB
    <3>1. \A k \in DOMAIN (C \o D) :
            (\E j \in DOMAIN C : (C \o D)[k] = C[j]) \/ (\E j \in DOMAIN D : (C \o D)[k] = D[j])
      BY <1>6, <1>7, ConcatElements
    <3> QED BY <1>6, <1>7, <2>2, <3>1
  <2>6. out.ctx.state = IF respB /\ c.respBodyResp[Len(c.respBodyResp)].eos THEN 6
                        ELSE IF respH THEN 5 ELSE c.state
    BY <1>2, <2>1
  <2>7. \A i \in DOMAIN out.msgs :
              /\ Following(c.state, out.msgs[i].kind)
              /\ Rank[out.msgs[i].kind] <= Top[out.ctx.state]
              /\ out.msgs[i].kind = "reqHeaders" => out.msgs[i] = c.reqHeaderResp /\ out.msgs[i] # Absent
    <3>1. respH \/ respB => out.ctx.state \in {5, 6}
      BY <1>11, <2>6
    <3> QED BY <1>3, <1>11, <1>14, <2>5, <3>1, Ranks DEF Following
  <2>8. out.starts <=> Ends(out.msgs, "reqBody")
    <3>2. ~Ends(out.msgs, "reqBody")
      BY <2>5 DEF Ends
    <3> QED BY <1>2, <2>1, <3>2
  <2>9. Ends(out.msgs, "respBody") => Ends(c.respBodyResp, "respBody") /\ out.ctx.state # 5
    <3>1. Ends(C \o D, "respBody") <=> Ends(C, "respBody") \/ Ends(D, "respBody")
      BY <1>6, <1>7, ConcatEnds
    <3>2. ~Ends(C, "respBody")
      BY <1>6 DEF Ends
    <3>3. Ends(D, "respBody") => respB
      BY <1>7 DEF Ends
    <3> QED BY <1>10, <2>2, <2>6, <3>1, <3>2, <3>3
  <2> QED BY <1>12, <2>4, <2>7, <2>8, <2>9
<1> QED BY <1>13, <1>15, <1>16

\* The states a send may lead to.
Moves(old, new) == \/ new = old
                   \/ old \in {0, 1} /\ new \in {1, 2}
                   \/ old \in {4, 5} /\ new \in {5, 6}
\* The context a send leaves: the state only goes forward, bodies that were
\* sent are gone, and the request runs once its body is sent.
LEMMA SendContext ==
  ASSUME NEW c, Waiting(c), NEW out, out = ToSend(c)
  PROVE  /\ Waiting(out.ctx)
         /\ out.ctx.model = c.model /\ out.ctx.streaming = c.streaming /\ out.ctx.status = c.status
         /\ out.ctx.reqHeaderResp = c.reqHeaderResp
         /\ out.ctx.isRunning = (c.isRunning \/ out.starts)
         /\ out.ctx.reqBodyResp \in {<<>>, c.reqBodyResp} /\ out.ctx.respBodyResp \in {<<>>, c.respBodyResp}
         /\ Moves(c.state, out.ctx.state)
<1>1. c \in Contexts /\ c.state \in RequestStates
  BY DEF Waiting, Contexts
<1>2. /\ out.ctx = [c EXCEPT !.state = out.ctx.state, !.reqBodyResp = out.ctx.reqBodyResp,
                            !.respBodyResp = out.ctx.respBodyResp, !.isRunning = (c.isRunning \/ out.starts)]
      /\ out.ctx.reqBodyResp \in {<<>>, c.reqBodyResp} /\ out.ctx.respBodyResp \in {<<>>, c.respBodyResp}
      /\ out.starts \in BOOLEAN
  BY <1>1 DEF ToSend, Contexts
<1>3. Moves(c.state, out.ctx.state)
  <2> DEFINE reqH == c.state = 0 /\ c.reqHeaderResp # Absent
             reqB == (reqH \/ c.state = 1) /\ c.reqBodyResp # <<>>
             respH == c.state = 4 /\ c.respHeaderResp
             respB == (respH \/ c.state = 5) /\ c.respBodyResp # <<>>
  <2>1. out.ctx.state = IF reqB THEN 2 ELSE IF reqH THEN 1 ELSE IF respB /\ Last(c.respBodyResp).eos THEN 6
                        ELSE IF respH THEN 5 ELSE c.state
    BY <1>1 DEF ToSend, Contexts
  <2>2. /\ reqB => c.state \in {0, 1}
        /\ reqH => c.state = 0
        /\ respB => c.state \in {4, 5}
        /\ respH => c.state = 4
    OBVIOUS
  <2>3. reqB \in BOOLEAN /\ reqH \in BOOLEAN /\ respB \in BOOLEAN /\ respH \in BOOLEAN
    BY <1>1 DEF Contexts
  <2> HIDE DEF reqB, reqH, respB, respH
  <2>4. CASE reqB \/ reqH
    BY <2>1, <2>2, <2>3, <2>4 DEF Moves
  <2>5. CASE ~reqB /\ ~reqH
    <3>1. CASE respB
      <4>1. out.ctx.state = 6 \/ out.ctx.state = IF respH THEN 5 ELSE c.state
        BY <2>1, <2>5
      <4> QED BY <2>2, <3>1, <4>1 DEF Moves
    <3>2. CASE ~respB
      BY <2>1, <2>2, <2>3, <2>5, <3>2 DEF Moves
    <3> QED BY <3>1, <3>2
  <2> QED BY <2>3, <2>4, <2>5
<1>4. out.ctx.state \in RequestStates
  BY <1>1, <1>3 DEF RequestStates, Moves
<1>5. out.ctx \in Contexts
  <2>1. out.ctx.reqBodyResp \in Seq(Plain("reqBody")) /\ out.ctx.respBodyResp \in Seq(Plain("respBody"))
    <3>1. c.reqBodyResp \in Seq(Plain("reqBody")) /\ c.respBodyResp \in Seq(Plain("respBody"))
      BY <1>1 DEF Contexts
    <3>2. <<>> \in Seq(Plain("reqBody")) /\ <<>> \in Seq(Plain("respBody"))
      OBVIOUS
    <3> QED BY <1>2, <3>1, <3>2, Zenon
  <2>2. (c.isRunning \/ out.starts) \in BOOLEAN
    BY Zenon
  <2> QED BY <1>1, <1>2, <1>4, <2>1, <2>2 DEF Contexts
<1>6. /\ out.ctx.model = c.model /\ out.ctx.streaming = c.streaming /\ out.ctx.status = c.status
      /\ out.ctx.reqHeaderResp = c.reqHeaderResp /\ out.ctx.isRunning = (c.isRunning \/ out.starts)
  BY <1>1, <1>2 DEF Contexts
<1>7. Ordered(<<>>)
  BY DEF Ordered
<1>8. Waiting(out.ctx)
  BY <1>2, <1>5, <1>7 DEF Waiting
<1> QED BY <1>2, <1>3, <1>6, <1>8

-----------------------------------------------------------------------------
(* Steps of one stream.                                                      *)

\* What the invariant says of a stream it says of these values, the load and the metrics.
View(t) == <<pc[t], phase[t], next[t], req[t], resp[t], ctx[t], body[t], err[t], targets[t], todo[t], sent[t],
             recorded[t], ever[t], always[t]>>
\* A step of stream s leaves the others alone.
OnlyOf(s) == (\A t \in Streams \ {s} : View(t)' = View(t)) /\ load' = load /\ metrics' = metrics

\* A stream that did not move keeps its part of the invariant.
LEMMA OthersKept ==
  ASSUME NEW t \in Streams, StreamInv(t), View(t)' = View(t), load' = load, metrics' = metrics
  PROVE  StreamInv(t)'
<1>1. /\ pc'[t] = pc[t] /\ phase'[t] = phase[t] /\ next'[t] = next[t] /\ req'[t] = req[t] /\ resp'[t] = resp[t]
      /\ ctx'[t] = ctx[t] /\ body'[t] = body[t] /\ err'[t] = err[t] /\ targets'[t] = targets[t]
      /\ todo'[t] = todo[t] /\ sent'[t] = sent[t] /\ recorded'[t] = recorded[t]
      /\ ever'[t] = ever[t] /\ always'[t] = always[t]
  BY DEF View
<1>2. Exchange(t)'
  BY <1>1 DEF StreamInv, Exchange
<1>3. Located(t)'
  BY <1>1 DEF StreamInv, Located, Silent, Open
<1>4. Replies(t)'
  BY <1>1 DEF StreamInv, Replies, Open
<1>5. Requests(t)'
  BY <1>1 DEF StreamInv, Requests, Open
<1>6. Errors(t)'
  BY <1>1 DEF StreamInv, Errors, Open
<1>7. Usage(t)'
  BY <1>1 DEF StreamInv, Usage
<1>8. Routing(t)'
  BY <1>1 DEF StreamInv, Routing, Chosen
<1>9. Admission(t)'
  BY <1>1 DEF StreamInv, Admission, Good
<1> QED BY <1>2, <1>3, <1>4, <1>5, <1>6, <1>7, <1>8, <1>9 DEF StreamInv

\* The invariant holds again when it does of the stream that moved.
LEMMA StepOf ==
  ASSUME NEW s \in Streams, Inv, OnlyOf(s), TypeOK', StreamInv(s)', Gauge'
  PROVE  Inv'
<1>1. \A t \in Streams \ {s} : StreamInv(t)'
  BY OthersKept DEF Inv, OnlyOf
<1> QED BY <1>1 DEF Inv

\* A stream that is counted by the gauge of its model.
Counts(t, m) == pc[t] # "closed" /\ Forwarded(t) /\ ctx[t].model = m

\* Of the streams the gauge counts, only the one that moved may be another.
LEMMA OthersCounted ==
  ASSUME NEW s \in Streams, OnlyOf(s), NEW m
  PROVE  /\ \A t \in Streams \ {s} : Counts(t, m)' <=> Counts(t, m)
         /\ Running(m) = {t \in Streams : Counts(t, m)}
         /\ Running(m)' = {t \in Streams : Counts(t, m)'}
         /\ IsFiniteSet(Running(m)) /\ Running(m) \subseteq Streams
<1>1. \A t \in Streams \ {s} : Counts(t, m)' <=> Counts(t, m)
  BY DEF OnlyOf, View, Counts, Forwarded
<1>2. Running(m) = {t \in Streams : Counts(t, m)}
  BY DEF Running, Counts
<1>3. Running(m)' = {t \in Streams : Counts(t, m)'}
  BY DEF Running, Counts
<1>4. IsFiniteSet(Running(m)) /\ Running(m) \subseteq Streams
  BY <1>2, StreamsAssumption, FS_Subset
<1> QED BY <1>1, <1>2, <1>3, <1>4

\* The gauge need not change when the stream counts as before.
LEMMA GaugeKept ==
  ASSUME NEW s \in Streams, Gauge, OnlyOf(s), running' = running,
         \A m \in Models : Counts(s, m)' <=> Counts(s, m)
  PROVE  Gauge'
<1>1. Models' = Models
  BY DEF Models
<1>2. ASSUME NEW m \in Models
      PROVE  Running(m)' = Running(m)
  BY OthersCounted
<1> QED BY <1>1, <1>2 DEF Gauge

\* Inc for a stream that starts to count.
LEMMA GaugeInc ==
  ASSUME NEW s \in Streams, TypeOK, Gauge, OnlyOf(s), NEW model, AddRunning(model, 1),
         \A m \in Models : ~Counts(s, m) /\ (Counts(s, m)' <=> m = model)
  PROVE  Gauge'
<1>1. SUFFICES ASSUME NEW m \in Models PROVE running'[m] = Cardinality(Running(m)')
  BY DEF Gauge, Models
<1>2. running[m] = Cardinality(Running(m)) /\ running \in [Models -> Int]
  BY DEF Gauge, TypeOK
<1>3. CASE m = model
  <2>1. Running(m)' = Running(m) \cup {s} /\ s \notin Running(m)
    BY <1>3, OthersCounted
  <2>2. Cardinality(Running(m)') = Cardinality(Running(m)) + 1
    BY <2>1, OthersCounted, FS_AddElement
  <2> QED BY <1>2, <1>3, <2>2 DEF AddRunning
<1>4. CASE m # model
  <2>1. Running(m)' = Running(m)
    BY <1>4, OthersCounted
  <2> QED BY <1>2, <1>4, <2>1 DEF AddRunning
<1> QED BY <1>3, <1>4

\* Dec for a stream that counted.
LEMMA GaugeDec ==
  ASSUME NEW s \in Streams, TypeOK, Gauge, OnlyOf(s), NEW model, AddRunning(model, -1),
         \A m \in Models : (Counts(s, m) <=> m = model) /\ ~Counts(s, m)'
  PROVE  Gauge'
<1>1. SUFFICES ASSUME NEW m \in Models PROVE running'[m] = Cardinality(Running(m)')
  BY DEF Gauge, Models
<1>2. running[m] = Cardinality(Running(m)) /\ running \in [Models -> Int]
  BY DEF Gauge, TypeOK
<1>3. CASE m = model
  <2>1. Running(m)' = Running(m) \ {s} /\ s \in Running(m)
    BY <1>3, OthersCounted
  <2>2. Cardinality(Running(m)') = Cardinality(Running(m)) - 1
    BY <2>1, OthersCounted, FS_RemoveElement
  <2> QED BY <1>2, <1>3, <2>2 DEF AddRunning
<1>4. CASE m # model
  <2>1. Running(m)' = Running(m)
    BY <1>4, OthersCounted
  <2> QED BY <1>2, <1>4, <2>1 DEF AddRunning
<1> QED BY <1>3, <1>4

-----------------------------------------------------------------------------
(* Steps of the director.                                                    *)

\* A request is admitted, shed, or its admission looked into.
LEMMA AdmitRequestStep ==
  ASSUME Inv, NEW s \in Streams, AdmitRequest(s)
  PROVE  Inv'
<1>1. TypeOK /\ StreamInv(s) /\ Gauge
  BY DEF Inv
<1>2. /\ phase' = phase /\ next' = next /\ req' = req /\ resp' = resp /\ ctx' = ctx /\ body' = body
      /\ targets' = targets /\ sent' = sent /\ recorded' = recorded /\ running' = running /\ load' = load
      /\ pool' = pool /\ podSet' = podSet /\ metrics' = metrics /\ changes' = changes /\ crashed' = crashed
      /\ pc[s] = "admit"
  BY DEF AdmitRequest, storeVars
<1>3. \/ /\ CriticalityOf(req[s]) >= 2 /\ pc' = [pc EXCEPT ![s] = "schedule"]
         /\ err' = err /\ todo' = todo /\ ever' = ever /\ always' = always
      \/ /\ CriticalityOf(req[s]) < 2 /\ pc' = [pc EXCEPT ![s] = "shed"]
         /\ err' = [err EXCEPT ![s] = "InferencePoolResourceExhausted"]
         /\ todo' = todo /\ ever' = [ever EXCEPT ![s] = {}] /\ always' = [always EXCEPT ![s] = {}]
      \/ /\ CriticalityOf(req[s]) < 2 /\ pc' = [pc EXCEPT ![s] = "saturated"] /\ err' = err /\ todo' = [todo EXCEPT ![s] = podSet]
         /\ ever' = [ever EXCEPT ![s] = {p \in podSet : GoodCapacity(metrics[p])}]
         /\ always' = [always EXCEPT ![s] = {p \in podSet : GoodCapacity(metrics[p])}]
  BY DEF AdmitRequest, Goto, Shed
<1>4. OnlyOf(s)
  BY <1>1, <1>2, <1>3 DEF OnlyOf, View, TypeOK
<1>5. TypeOK'
  <2>1. pc' \in [Streams -> PCs]
    <3>1. pc \in [Streams -> PCs]
      BY <1>1 DEF TypeOK
    <3> QED BY <1>2, <1>3, <3>1 DEF PCs, Director
  <2>2. err' \in [Streams -> Codes \cup {Absent}]
    <3>1. err \in [Streams -> Codes \cup {Absent}]
      BY <1>1 DEF TypeOK
    <3> QED BY <1>2, <1>3, <3>1 DEF Codes
  <2>3. todo' \in [Streams -> SUBSET Pods]
    BY <1>1, <1>2, <1>3 DEF TypeOK
  <2>4. ever' \in [Streams -> SUBSET Pods]
    <3>1. {p \in podSet : GoodCapacity(metrics[p])} \in SUBSET Pods /\ {} \in SUBSET Pods
      BY <1>1 DEF TypeOK
    <3>2. ever \in [Streams -> SUBSET Pods]
      BY <1>1 DEF TypeOK
    <3>3. ever' = ever \/ \E P \in SUBSET Pods : ever' = [ever EXCEPT ![s] = P]
      BY <1>3, <3>1
    <3> QED BY <3>2, <3>3
  <2>5. always' \in [Streams -> SUBSET Pods]
    <3>1. {p \in podSet : GoodCapacity(metrics[p])} \in SUBSET Pods /\ {} \in SUBSET Pods
      BY <1>1 DEF TypeOK
    <3>2. always \in [Streams -> SUBSET Pods]
      BY <1>1 DEF TypeOK
    <3>3. always' = always \/ \E P \in SUBSET Pods : always' = [always EXCEPT ![s] = P]
      BY <1>3, <3>1
    <3> QED BY <3>2, <3>3
  <2> QED BY <1>1, <1>2, <2>1, <2>2, <2>3, <2>4, <2>5 DEF TypeOK
<1>6. /\ pc'[s] \in {"schedule", "shed", "saturated"}
      /\ pc'[s] = "shed" => err'[s] = "InferencePoolResourceExhausted"
  BY <1>1, <1>3 DEF TypeOK
<1>7. Exchange(s)'
  BY <1>1, <1>2, <1>6 DEF StreamInv, Exchange
<1>8. Located(s)'
  BY <1>1, <1>2, <1>6, AbsentAssumption DEF StreamInv, Located, Silent, Open, Director, Codes
<1>9. Replies(s)'
  BY <1>1, <1>2, <1>6 DEF StreamInv, Replies, Open
<1>10. Requests(s)'
  BY <1>1, <1>2, <1>6 DEF StreamInv, Requests, Open
<1>11. Errors(s)'
  BY <1>1, <1>2, <1>6 DEF StreamInv, Errors, Open
<1>12. Usage(s)'
  BY <1>1, <1>2, <1>6 DEF StreamInv, Usage, ResponsePhases
<1>13. Routing(s)'
  BY <1>1, <1>2, <1>6 DEF StreamInv, Routing, Chosen
<1>14. Admission(s)'
  <2>1. CriticalityOf(req[s]) \in Int
    BY CriticalityAssumption DEF CriticalityOf
  <2>2. CASE CriticalityOf(req[s]) >= 2 /\ pc'[s] = "schedule"
    BY <1>2, <2>1, <2>2 DEF Admission, CriticalityOf
  <2>3. CASE CriticalityOf(req[s]) < 2 /\ pc'[s] = "shed" /\ always'[s] = {}
    BY <1>2, <2>3 DEF Admission, CriticalityOf
  <2>4. CASE /\ CriticalityOf(req[s]) < 2 /\ pc'[s] = "saturated" /\ todo'[s] = podSet
             /\ ever'[s] = {p \in podSet : GoodCapacity(metrics[p])}
             /\ always'[s] = {p \in podSet : GoodCapacity(metrics[p])}
    BY <1>2, <2>4 DEF Admission, Good, CriticalityOf
  <2> QED BY <1>1, <1>3, <2>2, <2>3, <2>4 DEF TypeOK
<1>15. Gauge'
  BY <1>1, <1>2, <1>6, <1>4, GaugeKept DEF Counts, Forwarded
<1> QED BY <1>4, <1>5, <1>7, <1>8, <1>9, <1>10, <1>11, <1>12, <1>13, <1>14, <1>15, StepOf DEF StreamInv

\* IsSaturated looks at a pod.
LEMMA CheckPodStep ==
  ASSUME Inv, NEW s \in Streams, NEW p \in Pods, CheckPod(s, p)
  PROVE  Inv'
<1>1. TypeOK /\ StreamInv(s) /\ Gauge
  BY DEF Inv
<1>2. /\ phase' = phase /\ next' = next /\ req' = req /\ resp' = resp /\ ctx' = ctx /\ body' = body
      /\ targets' = targets /\ sent' = sent /\ recorded' = recorded /\ running' = running /\ load' = load
      /\ pool' = pool /\ podSet' = podSet /\ metrics' = metrics /\ changes' = changes /\ ever' = ever
      /\ always' = always /\ crashed' = crashed /\ pc[s] = "saturated"
  BY DEF CheckPod, storeVars
<1>3. \/ /\ GoodCapacity(metrics[p]) /\ pc' = [pc EXCEPT ![s] = "schedule"]
         /\ err' = err /\ todo' = [todo EXCEPT ![s] = {}]
      \/ /\ ~GoodCapacity(metrics[p]) /\ todo' = [todo EXCEPT ![s] = @ \ {p}]
         /\ \/ pc' = pc /\ err' = err
            \/ /\ todo[s] = {p} /\ pc' = [pc EXCEPT ![s] = "shed"]
               /\ err' = [err EXCEPT ![s] = "InferencePoolResourceExhausted"]
  BY DEF CheckPod, Goto, Shed
<1>4. OnlyOf(s)
  BY <1>1, <1>2, <1>3 DEF OnlyOf, View, TypeOK
<1>5. TypeOK'
  <2>1. pc' \in [Streams -> PCs]
    <3>1. pc \in [Streams -> PCs]
      BY <1>1 DEF TypeOK
    <3> QED BY <1>2, <1>3, <3>1 DEF PCs, Director
  <2>2. err' \in [Streams -> Codes \cup {Absent}]
    <3>1. err \in [Streams -> Codes \cup {Absent}]
      BY <1>1 DEF TypeOK
    <3> QED BY <1>2, <1>3, <3>1 DEF Codes
  <2>3. todo' \in [Streams -> SUBSET Pods]
    <3>1. todo[s] \ {p} \in SUBSET Pods /\ {} \in SUBSET Pods
      BY <1>1 DEF TypeOK
    <3> QED BY <1>1, <1>3, <3>1 DEF TypeOK
  <2> QED BY <1>1, <1>2, <2>1, <2>2, <2>3 DEF TypeOK
<1>6. /\ pc'[s] \in {"schedule", "shed", "saturated"}
      /\ pc'[s] = "shed" => err'[s] = "InferencePoolResourceExhausted"
  BY <1>1, <1>2, <1>3 DEF TypeOK
<1>7. Exchange(s)'
  BY <1>1, <1>2, <1>6 DEF StreamInv, Exchange
<1>8. Located(s)'
  BY <1>1, <1>2, <1>6, AbsentAssumption DEF StreamInv, Located, Silent, Open, Director, Codes
<1>9. Replies(s)'
  BY <1>1, <1>2, <1>6 DEF StreamInv, Replies, Open
<1>10. Requests(s)'
  BY <1>1, <1>2, <1>6 DEF StreamInv, Requests, Open
<1>11. Errors(s)'
  BY <1>1, <1>2, <1>6 DEF StreamInv, Errors, Open
<1>12. Usage(s)'
  BY <1>1, <1>2, <1>6 DEF StreamInv, Usage, ResponsePhases
<1>13. Routing(s)'
  BY <1>1, <1>2, <1>6 DEF StreamInv, Routing, Chosen
<1>14. Admission(s)'
  <2>1. /\ p \in todo[s] /\ always[s] \subseteq Good(s) /\ Good(s) \subseteq ever[s]
        /\ CriticalityOf(req[s]) < 2
    BY <1>1, <1>2 DEF CheckPod, StreamInv, Admission
  <2>2. CASE GoodCapacity(metrics[p]) /\ pc'[s] = "schedule"
    BY <1>2, <2>1, <2>2 DEF Admission, Good
  <2>3. CASE ~GoodCapacity(metrics[p]) /\ todo[s] = {p} /\ pc'[s] = "shed"
    <3>1. always[s] = {}
      BY <2>1, <2>3 DEF Good
    <3> QED BY <1>2, <2>1, <2>3, <3>1 DEF Admission, CriticalityOf
  <2>4. CASE ~GoodCapacity(metrics[p]) /\ pc'[s] = "saturated" /\ todo'[s] = todo[s] \ {p}
    <3>1. Good(s)' = Good(s)
      BY <1>2, <2>1, <2>4 DEF Good
    <3> QED BY <1>2, <2>1, <2>4, <3>1 DEF Admission, CriticalityOf
  <2> QED BY <1>1, <1>2, <1>3, <2>2, <2>3, <2>4 DEF TypeOK
<1>15. Gauge'
  BY <1>1, <1>2, <1>6, <1>4, GaugeKept DEF Counts, Forwarded
<1> QED BY <1>4, <1>5, <1>7, <1>8, <1>9, <1>10, <1>11, <1>12, <1>13, <1>14, <1>15, StepOf DEF StreamInv

\* The scheduler picks pods among the candidates, or fails.
LEMMA ScheduleStep ==
  ASSUME Inv, NEW s \in Streams, Schedule(s)
  PROVE  Inv'
<1>1. TypeOK /\ StreamInv(s) /\ Gauge
  BY DEF Inv
<1>2. /\ phase' = phase /\ next' = next /\ req' = req /\ resp' = resp /\ ctx' = ctx /\ body' = body
      /\ todo' = todo /\ sent' = sent /\ recorded' = recorded /\ running' = running /\ load' = load
      /\ pool' = pool /\ podSet' = podSet /\ metrics' = metrics /\ changes' = changes /\ ever' = ever
      /\ always' = always /\ crashed' = crashed /\ pc[s] = "schedule"
  BY DEF Schedule, storeVars
<1>3. \/ /\ pc' = [pc EXCEPT ![s] = "error"] /\ targets' = targets
         /\ \E e \in {"ServiceUnavailable", "InferencePoolResourceExhausted"} : err' = [err EXCEPT ![s] = e]
      \/ /\ pc' = [pc EXCEPT ![s] = "prepare"] /\ err' = err
         /\ \E T \in SUBSET podSet : /\ T # {} /\ (req[s].subset # Absent => T \subseteq req[s].subset)
                                     /\ targets' = [targets EXCEPT ![s] = T]
  BY DEF Schedule, Goto, Fail, getCandidatePodsForScheduling
<1>4. OnlyOf(s)
  BY <1>1, <1>2, <1>3 DEF OnlyOf, View, TypeOK
<1>5. TypeOK'
  <2>1. pc' \in [Streams -> PCs]
    <3>1. pc \in [Streams -> PCs]
      BY <1>1 DEF TypeOK
    <3> QED BY <1>2, <1>3, <3>1 DEF PCs, Director
  <2>2. err' \in [Streams -> Codes \cup {Absent}]
    <3>1. err \in [Streams -> Codes \cup {Absent}]
      BY <1>1 DEF TypeOK
    <3> QED BY <1>2, <1>3, <3>1 DEF Codes
  <2>3. targets' \in [Streams -> SUBSET Pods]
    <3>1. \A T \in SUBSET podSet : T \in SUBSET Pods
      BY <1>1 DEF TypeOK
    <3>2. targets' = targets \/ \E T \in SUBSET Pods : targets' = [targets EXCEPT ![s] = T]
      BY <1>3, <3>1
    <3> QED BY <1>1, <3>2 DEF TypeOK
  <2> QED BY <1>1, <1>2, <2>1, <2>2, <2>3 DEF TypeOK
<1>6. \/ pc'[s] = "error" /\ err'[s] \in Codes
      \/ /\ pc'[s] = "prepare" /\ targets'[s] # {}
         /\ req[s].subset # Absent => targets'[s] \subseteq req[s].subset
  BY <1>1, <1>2, <1>3 DEF TypeOK, Codes
<1>7. Exchange(s)'
  BY <1>1, <1>2, <1>6 DEF StreamInv, Exchange
<1>8. Located(s)'
  BY <1>1, <1>2, <1>6, AbsentAssumption DEF StreamInv, Located, Silent, Open, Director
<1>9. Replies(s)'
  BY <1>1, <1>2, <1>6 DEF StreamInv, Replies, Open
<1>10. Requests(s)'
  BY <1>1, <1>2, <1>6 DEF StreamInv, Requests, Open
<1>11. Errors(s)'
  BY <1>1, <1>2, <1>6 DEF StreamInv, Errors, Open
<1>12. Usage(s)'
  BY <1>1, <1>2, <1>6 DEF StreamInv, Usage, ResponsePhases
<1>13. Routing(s)'
  <2>1. Silent(s)
    BY <1>1, <1>2 DEF StreamInv, Located, Director
  <2> QED BY <1>1, <1>2, <1>6, <2>1 DEF StreamInv, Routing, Chosen, Silent
<1>14. Admission(s)'
  BY <1>1, <1>2, <1>6 DEF StreamInv, Admission, CriticalityOf
<1>15. Gauge'
  BY <1>1, <1>2, <1>6, <1>4, GaugeKept DEF Counts, Forwarded
<1> QED BY <1>4, <1>5, <1>7, <1>8, <1>9, <1>10, <1>11, <1>12, <1>13, <1>14, <1>15, StepOf DEF StreamInv

\* The pool's port is read and the answers to the request are built.
LEMMA PrepareRequestStep ==
  ASSUME Inv, NEW s \in Streams, PrepareRequest(s)
  PROVE  Inv'
<1>1. TypeOK /\ StreamInv(s) /\ Gauge
  BY DEF Inv
<1>2. /\ phase' = phase /\ next' = next /\ req' = req /\ resp' = resp /\ body' = body /\ targets' = targets
      /\ todo' = todo /\ sent' = sent /\ running' = running /\ load' = load /\ pool' = pool
      /\ podSet' = podSet /\ metrics' = metrics /\ changes' = changes /\ crashed' = crashed
      /\ pc[s] = "prepare"
  BY DEF PrepareRequest, storeVars
<1>3. /\ Silent(s) /\ phase[s] = "upstream" /\ body[s].req = 0 /\ Chosen(s) /\ req[s] \in load[s].req
      /\ ctx[s] \in Contexts /\ recorded[s] \in Records
  BY <1>1, <1>2 DEF StreamInv, Located, Routing, Exchange, Director, TypeOK
<1>4. PICK q : /\ q = generateRequestBodyResponses(req[s].out) /\ q \in Seq(Plain("reqBody")) /\ Ordered(q)
               /\ q # <<>> => q[Len(q)].eos
  <2>1. req[s].out \in Nat
    BY <1>1, <1>3, LoadsAssumption DEF TypeOK
  <2>2. TRUE \in BOOLEAN /\ "reqBody" \in {"reqBody", "respBody"}
    OBVIOUS
  <2> QED BY <2>1, <2>2, Chunks DEF generateRequestBodyResponses
<1>5. PICK h : /\ h = generateRequestHeaderResponse(targets[s], pool, req[s].out) /\ h.endpoints = targets[s]
               /\ pool # Absent => h \in Routes
  <2> WITNESS generateRequestHeaderResponse(targets[s], pool, req[s].out)
  <2>1. targets[s] \in SUBSET Pods /\ pool \in Ports \cup {Absent} /\ req[s].out \in Nat
    BY <1>1, <1>3, LoadsAssumption DEF TypeOK
  <2> QED BY <2>1 DEF generateRequestHeaderResponse, Routes
<1>6. PICK c : /\ c = [ctx[s] EXCEPT !.reqHeaderResp = h, !.reqBodyResp = q]
               /\ pool # Absent => c \in Contexts
               /\ c.state = 0 /\ c.reqHeaderResp = h /\ c.reqBodyResp = q /\ c.respBodyResp = ctx[s].respBodyResp
               /\ c.model = ctx[s].model /\ c.isRunning = ctx[s].isRunning /\ c.streaming = ctx[s].streaming
               /\ c.status = ctx[s].status
  <2> WITNESS [ctx[s] EXCEPT !.reqHeaderResp = h, !.reqBodyResp = q]
  <2>1. pool # Absent => [ctx[s] EXCEPT !.reqHeaderResp = h, !.reqBodyResp = q] \in Contexts
    BY <1>3, <1>4, <1>5 DEF Contexts
  <2> QED BY <1>3, <2>1 DEF Silent, Contexts
<1>7. PICK d : /\ d = [recorded[s] EXCEPT !.requests = @ + 1] /\ d \in Records /\ d.requests = 1
               /\ d.tokens = recorded[s].tokens /\ d.latencies = recorded[s].latencies
               /\ d.errors = recorded[s].errors
  <2> WITNESS [recorded[s] EXCEPT !.requests = @ + 1]
  <2> QED BY <1>3 DEF Silent, Records
<1>8. \/ /\ pc' = [pc EXCEPT ![s] = "error"] /\ err' = [err EXCEPT ![s] = "Unknown"]
         /\ ctx' = ctx /\ recorded' = recorded
      \/ /\ pc' = [pc EXCEPT ![s] = "send"] /\ err' = err /\ pool # Absent
         /\ ctx' = [ctx EXCEPT ![s] = c] /\ recorded' = [recorded EXCEPT ![s] = d]
  <2>1. CASE pool = Absent
    BY <2>1 DEF PrepareRequest, Goto, Fail
  <2>2. CASE pool # Absent
    <3>1. /\ ctx' = [ctx EXCEPT ![s].reqHeaderResp = h, ![s].reqBodyResp = q]
          /\ recorded' = [recorded EXCEPT ![s].requests = @ + 1]
          /\ pc' = [pc EXCEPT ![s] = "send"] /\ err' = err
      BY <2>2, <1>4, <1>5 DEF PrepareRequest, Goto
    <3>2. recorded' = [recorded EXCEPT ![s] = d]
      BY <3>1, <1>7
    <3>3. ctx' = [ctx EXCEPT ![s] = c]
      BY <1>1, <3>1, <1>6 DEF TypeOK
    <3> QED BY <2>2, <3>1, <3>2, <3>3
  <2> QED BY <2>1, <2>2
<1>9. ever' = [ever EXCEPT ![s] = {}] /\ always' = [always EXCEPT ![s] = {}]
  BY DEF PrepareRequest
<1>10. OnlyOf(s)
  BY <1>1, <1>2, <1>8, <1>9 DEF OnlyOf, View, TypeOK
<1>11. TypeOK'
  <2>1. pc' \in [Streams -> PCs]
    BY <1>1, <1>8 DEF TypeOK, PCs, Director
  <2>2. err' \in [Streams -> Codes \cup {Absent}]
    BY <1>1, <1>8 DEF TypeOK, Codes
  <2>3. ctx' \in [Streams -> Contexts]
    BY <1>1, <1>6, <1>8, ZenonT(30) DEF TypeOK
  <2>4. recorded' \in [Streams -> Records]
    BY <1>1, <1>7, <1>8 DEF TypeOK
  <2>5. ever' \in [Streams -> SUBSET Pods]
    BY <1>1, <1>9 DEF TypeOK
  <2>6. always' \in [Streams -> SUBSET Pods]
    BY <1>1, <1>9 DEF TypeOK
  <2> QED BY <1>1, <1>2, <2>1, <2>2, <2>3, <2>4, <2>5, <2>6 DEF TypeOK
<1>12. \/ pc'[s] = "error" /\ err'[s] = "Unknown" /\ ctx'[s] = ctx[s] /\ recorded'[s] = recorded[s]
       \/ pc'[s] = "send" /\ err'[s] = err[s] /\ ctx'[s] = c /\ recorded'[s] = d
  BY <1>1, <1>8 DEF TypeOK
<1>13. Exchange(s)'
  BY <1>1, <1>2, <1>3, <1>6, <1>12 DEF StreamInv, Exchange, ResponsePhases
<1>14. Located(s)'
  BY <1>1, <1>2, <1>3, <1>6, <1>12, AbsentAssumption DEF StreamInv, Located, Silent, Open, Director, Codes, RequestPhases, ResponsePhases
<1>15. Replies(s)'
  <2>1. sent'[s] = <<>> /\ Ordered(sent'[s]) /\ ~Ends(sent'[s], "respBody")
    BY <1>2, <1>3 DEF Silent, Ordered, Ends
  <2>2. /\ Ordered(ctx'[s].reqBodyResp) /\ Ordered(ctx'[s].respBodyResp)
        /\ ctx'[s].reqBodyResp # <<>> => ctx'[s].reqBodyResp[Len(ctx'[s].reqBodyResp)].eos
    BY <1>1, <1>4, <1>6, <1>12 DEF StreamInv, Replies
  <2> QED BY <2>1, <2>2 DEF Replies
<1>16. Requests(s)'
  <2>1. sent'[s] = <<>> /\ ~Ends(sent'[s], "reqBody")
    BY <1>2, <1>3 DEF Silent, Ends
  <2> QED BY <1>1, <1>2, <1>3, <1>6, <1>7, <1>12, <2>1 DEF StreamInv, Requests, Silent
<1>17. Errors(s)'
  BY <1>1, <1>2, <1>7, <1>12 DEF StreamInv, Errors, Open
<1>18. Usage(s)'
  <2>1. ~Ends(ctx'[s].respBodyResp, "respBody") /\ ~Ends(sent'[s], "respBody")
    BY <1>1, <1>2, <1>3, <1>6, <1>12 DEF StreamInv, Usage
  <2> QED BY <1>1, <1>2, <1>3, <1>7, <1>12, <2>1 DEF StreamInv, Usage, ResponsePhases
<1>19. Routing(s)'
  <2>1. sent'[s] = <<>>
    BY <1>2, <1>3 DEF Silent
  <2>2. Chosen(s)'
    BY <1>2, <1>3 DEF Chosen
  <2>3. ctx'[s].reqHeaderResp # Absent => ctx'[s].reqHeaderResp.endpoints = targets'[s]
    BY <1>2, <1>3, <1>5, <1>6, <1>12 DEF Silent
  <2> QED BY <2>1, <2>2, <2>3 DEF Routing
<1>20. Admission(s)'
  BY <1>12 DEF Admission
<1>21. Gauge'
  <2>1. ~Forwarded(s) /\ ~Forwarded(s)'
    BY <1>2, <1>3 DEF Silent, Forwarded, Ends
  <2> QED BY <1>1, <1>2, <1>10, <2>1, GaugeKept DEF Counts
<1> QED BY <1>10, <1>11, <1>13, <1>14, <1>15, <1>16, <1>17, <1>18, <1>19, <1>20, <1>21, StepOf DEF StreamInv

-----------------------------------------------------------------------------
(* The end of a stream.                                                      *)

\* Process's deferred function, after the messages q have been sent.
LEMMA CloseStep ==
  ASSUME Inv, NEW s \in Streams, Open(s), NEW e \in Codes \cup {Absent}, Close(s, e),
         NEW q \in Seq(Messages), sent' = [sent EXCEPT ![s] = q], Ordered(q),
         Ends(q, "immediate") => e # Absent,
         Ends(q, "reqBody") => recorded[s].requests = 1,
         Ends(q, "respBody") => Ends(sent[s], "respBody") \/ Ends(ctx[s].respBodyResp, "respBody"),
         \A i \in DOMAIN q : q[i].kind = "reqHeaders" => q[i] = ctx[s].reqHeaderResp /\ q[i] # Absent,
         UNCHANGED <<phase, next, req, resp, ctx, body, targets, todo, storeVars, ever, always, crashed>>
  PROVE  Inv'
<1>1. TypeOK /\ StreamInv(s) /\ Gauge
  BY DEF Inv
<1>2. /\ phase' = phase /\ next' = next /\ req' = req /\ resp' = resp /\ ctx' = ctx /\ body' = body
      /\ targets' = targets /\ todo' = todo /\ load' = load /\ pool' = pool /\ podSet' = podSet
      /\ metrics' = metrics /\ changes' = changes /\ ever' = ever /\ always' = always /\ crashed' = crashed
  BY DEF storeVars
<1>3. recorded[s] \in Records /\ recorded[s].errors = 0 /\ ctx[s] \in Contexts
  BY <1>1 DEF StreamInv, Errors, TypeOK
<1>4. PICK d : /\ d = [recorded[s] EXCEPT !.errors = IF ctx[s].status \/ e # Absent THEN 1 ELSE 0] /\ d \in Records
               /\ d.errors = (IF ctx[s].status \/ e # Absent THEN 1 ELSE 0) /\ d.requests = recorded[s].requests
               /\ d.tokens = recorded[s].tokens /\ d.latencies = recorded[s].latencies
  <2> WITNESS [recorded[s] EXCEPT !.errors = IF ctx[s].status \/ e # Absent THEN 1 ELSE 0]
  <2> QED BY <1>3 DEF Records
<1>5. /\ pc' = [pc EXCEPT ![s] = "closed"] /\ err' = [err EXCEPT ![s] = e]
      /\ recorded' = [recorded EXCEPT ![s] = d]
  <2>1. recorded' = [recorded EXCEPT ![s].errors = IF ctx[s].status \/ e # Absent THEN @ + 1 ELSE @]
    BY DEF Close
  <2>2. recorded' = [recorded EXCEPT ![s] = d]
    BY <1>3, <1>4, <2>1
  <2> QED BY <2>2 DEF Close
<1>6. OnlyOf(s)
  BY <1>1, <1>2, <1>5 DEF OnlyOf, View, TypeOK
<1>7. TypeOK'
  <2>1. pc' \in [Streams -> PCs]
    BY <1>1, <1>5 DEF TypeOK, PCs
  <2>2. err' \in [Streams -> Codes \cup {Absent}]
    BY <1>1, <1>5 DEF TypeOK
  <2>3. recorded' \in [Streams -> Records]
    BY <1>1, <1>4, <1>5 DEF TypeOK
  <2>4. sent' \in [Streams -> Seq(Messages)]
    BY <1>1 DEF TypeOK
  <2>5. running' \in [Models -> Int]
    BY <1>1 DEF TypeOK, Close, AddRunning
  <2> QED BY <1>1, <1>2, <2>1, <2>2, <2>3, <2>4, <2>5 DEF TypeOK
<1>8. pc'[s] = "closed" /\ err'[s] = e /\ recorded'[s] = d /\ sent'[s] = q
  BY <1>1, <1>5 DEF TypeOK
<1>9. Exchange(s)'
  BY <1>1, <1>2, <1>8 DEF StreamInv, Exchange, Open
<1>10. Located(s)'
  BY <1>8 DEF Located, Open, Director
<1>11. Replies(s)'
  BY <1>1, <1>2, <1>8 DEF StreamInv, Replies, Open
<1>12. Requests(s)'
  BY <1>1, <1>2, <1>4, <1>8 DEF StreamInv, Requests, Open
<1>13. Errors(s)'
  BY <1>2, <1>4, <1>8 DEF Errors, Open
<1>14. Usage(s)'
  BY <1>1, <1>2, <1>4, <1>8 DEF StreamInv, Usage
<1>15. Routing(s)'
  BY <1>1, <1>2, <1>8 DEF StreamInv, Routing, Chosen
<1>16. Admission(s)'
  BY <1>8 DEF Admission
<1>17. Gauge'
  <2>1. \A m : ~Counts(s, m)'
    BY <1>8 DEF Counts
  <2>2. ctx[s].isRunning <=> Forwarded(s)
    BY <1>1 DEF StreamInv, Requests, Forwarded
  <2>3. CASE ctx[s].isRunning
    BY <1>1, <1>6, <2>1, <2>2, <2>3, GaugeDec DEF Counts, Close, Open
  <2>4. CASE ~ctx[s].isRunning
    <3>1. running' = running
      BY <2>4 DEF Close
    <3> QED BY <1>1, <1>6, <2>1, <2>2, <2>4, <3>1, GaugeKept DEF Counts
  <2> QED BY <2>3, <2>4
<1> QED BY <1>6, <1>7, <1>9, <1>10, <1>11, <1>12, <1>13, <1>14, <1>15, <1>16, <1>17, StepOf DEF StreamInv

\* What a stream has been sent meets the conditions of a close.
LEMMA SentSoFar ==
  ASSUME Inv, NEW s \in Streams
  PROVE  /\ sent[s] \in Seq(Messages) /\ Ordered(sent[s]) /\ sent = [sent EXCEPT ![s] = sent[s]]
         /\ Open(s) => ~Ends(sent[s], "immediate")
         /\ Ends(sent[s], "reqBody") => recorded[s].requests = 1
         /\ \A i \in DOMAIN sent[s] : sent[s][i].kind = "reqHeaders" => sent[s][i] = ctx[s].reqHeaderResp /\ sent[s][i] # Absent
<1>1. TypeOK /\ StreamInv(s)
  BY DEF Inv
<1>2. ASSUME Open(s), NEW i \in DOMAIN sent[s]
      PROVE  sent[s][i].kind # "immediate"
  <2>1. Rank[sent[s][i].kind] <= Top[ctx[s].state] /\ ctx[s].state \in RequestStates
    BY <1>1, <1>2 DEF StreamInv, Replies, TypeOK, Contexts
  <2>2. Top[ctx[s].state] \in 0..4
    BY <2>1 DEF Top
  <2> QED BY <2>1, <2>2, Ranks
<1> QED BY <1>1, <1>2 DEF TypeOK, StreamInv, Replies, Requests, Routing, Ends

\* The end of a stream as Envoy tells it.
LEMMA StreamEndsStep ==
  ASSUME Inv, NEW s \in Streams, StreamEnds(s)
  PROVE  Inv'
<1>1. Open(s) /\ Close(s, Absent) /\ sent' = sent
  BY DEF StreamEnds, Open
<1>2. UNCHANGED <<phase, next, req, resp, ctx, body, targets, todo, storeVars, ever, always, crashed>>
  BY DEF StreamEnds
<1> QED BY <1>1, <1>2, SentSoFar, CloseStep

\* The error of an iteration is answered, or not, and ends the stream.
LEMMA ErrorResponseStep ==
  ASSUME Inv, NEW s \in Streams, ErrorResponse(s)
  PROVE  Inv'
<1>1. /\ Open(s) /\ Close(s, err[s]) /\ err[s] \in Codes \cup {Absent} /\ err[s] # Absent
      /\ sent[s] = <<>> /\ sent \in [Streams -> Seq(Messages)]
  BY DEF ErrorResponse, Open, Inv, StreamInv, Located, Silent, TypeOK
<1>2. UNCHANGED <<phase, next, req, resp, ctx, body, targets, todo, storeVars, ever, always, crashed>>
  BY DEF ErrorResponse
<1>3. PICK m : m = Message("immediate", 0, TRUE) /\ m \in Messages /\ m.kind = "immediate"
  <2>1. Message("immediate", 0, TRUE) \in Plain("immediate")
    BY DEF Message, Plain
  <2> QED BY <2>1, PlainMessages DEF Kinds, Message
<1>4. PICK q \in {<<>>, <<m>>} : sent' = [sent EXCEPT ![s] = q]
  <2>1. Append(<<>>, m) = <<m>>
    OBVIOUS
  <2>2. sent' = sent \/ sent' = [sent EXCEPT ![s] = Append(sent[s], m)]
    BY <1>3 DEF ErrorResponse
  <2>3. sent = [sent EXCEPT ![s] = <<>>]
    BY <1>1
  <2> QED BY <1>1, <2>1, <2>2, <2>3, Zenon
<1>5. q \in Seq(Messages) /\ Ordered(q) /\ \A i \in DOMAIN q : q[i].kind = "immediate"
  <2>1. CASE q = <<>>
    BY <2>1 DEF Ordered
  <2>2. CASE q = <<m>>
    <3>1. m \in Messages /\ m.kind = "immediate"
      BY <1>3
    <3>2. q \in Seq(Messages) /\ DOMAIN q = 1..1 /\ q[1] = m
      BY <2>2, <3>1
    <3> QED BY <3>1, <3>2 DEF Ordered
  <2> QED BY <1>4, <2>1, <2>2
<1>6. ~Ends(q, "reqBody") /\ ~Ends(q, "respBody") /\ \A i \in DOMAIN q : q[i].kind # "reqHeaders"
  BY <1>5 DEF Ends
<1> QED BY <1>1, <1>2, <1>4, <1>5, <1>6, CloseStep

-----------------------------------------------------------------------------
(* Messages from Envoy.                                                      *)

\* The port of the pool is read for a request without a body.
LEMMA RandomPodPortStep ==
  ASSUME Inv, NEW s \in Streams, RandomPodPort(s)
  PROVE  Inv'
<1>1. TypeOK /\ StreamInv(s) /\ Gauge
  BY DEF Inv
<1>2. /\ phase' = phase /\ next' = next /\ req' = req /\ resp' = resp /\ body' = body /\ targets' = targets
      /\ todo' = todo /\ sent' = sent /\ recorded' = recorded /\ running' = running /\ load' = load
      /\ pool' = pool /\ podSet' = podSet /\ metrics' = metrics /\ changes' = changes /\ ever' = ever
      /\ always' = always /\ crashed' = crashed /\ pc[s] = "randomPod"
  BY DEF RandomPodPort, storeVars
<1>3. /\ Silent(s) /\ phase[s] = "upstream" /\ Chosen(s) /\ ctx[s] \in Contexts /\ req[s].chunks = <<>>
  BY <1>1, <1>2 DEF StreamInv, Located, Routing, TypeOK
<1>4. PICK h : /\ h = generateRequestHeaderResponse(targets[s], pool, 0) /\ h.endpoints = targets[s]
               /\ pool # Absent => h \in Routes
  <2> WITNESS generateRequestHeaderResponse(targets[s], pool, 0)
  <2>1. targets[s] \in SUBSET Pods /\ pool \in Ports \cup {Absent}
    BY <1>1 DEF TypeOK
  <2> QED BY <2>1 DEF generateRequestHeaderResponse, Routes
<1>5. PICK c : /\ c = [ctx[s] EXCEPT !.reqHeaderResp = h]
               /\ pool # Absent => c \in Contexts
               /\ c.state = 0 /\ c.reqHeaderResp = h /\ c.reqBodyResp = <<>> /\ c.respBodyResp = ctx[s].respBodyResp
               /\ c.model = ctx[s].model /\ c.isRunning = ctx[s].isRunning /\ c.streaming = ctx[s].streaming
               /\ c.status = ctx[s].status
  <2> WITNESS [ctx[s] EXCEPT !.reqHeaderResp = h]
  <2>1. pool # Absent => [ctx[s] EXCEPT !.reqHeaderResp = h] \in Contexts
    BY <1>3, <1>4 DEF Contexts
  <2> QED BY <1>3, <2>1 DEF Silent, Contexts
<1>6. \/ pc' = [pc EXCEPT ![s] = "error"] /\ err' = [err EXCEPT ![s] = "Unknown"] /\ ctx' = ctx
      \/ /\ pc' = [pc EXCEPT ![s] = "send"] /\ err' = err /\ pool # Absent
         /\ ctx' = [ctx EXCEPT ![s] = c]
  <2>1. CASE pool = Absent
    BY <2>1 DEF RandomPodPort, Goto, Fail
  <2>2. CASE pool # Absent
    <3>1. /\ ctx' = [ctx EXCEPT ![s].reqHeaderResp = h]
          /\ pc' = [pc EXCEPT ![s] = "send"] /\ err' = err
      BY <2>2, <1>4 DEF RandomPodPort, Goto
    <3>2. ctx' = [ctx EXCEPT ![s] = c]
      BY <1>1, <3>1, <1>5 DEF TypeOK
    <3> QED BY <2>2, <3>1, <3>2
  <2> QED BY <2>1, <2>2
<1>7. OnlyOf(s)
  BY <1>1, <1>2, <1>6 DEF OnlyOf, View, TypeOK
<1>8. TypeOK'
  <2>1. pc' \in [Streams -> PCs]
    BY <1>1, <1>6 DEF TypeOK, PCs, Director
  <2>2. err' \in [Streams -> Codes \cup {Absent}]
    BY <1>1, <1>6 DEF TypeOK, Codes
  <2>3. ctx' \in [Streams -> Contexts]
    BY <1>1, <1>5, <1>6 DEF TypeOK
  <2> QED BY <1>1, <1>2, <2>1, <2>2, <2>3 DEF TypeOK
<1>9. \/ pc'[s] = "error" /\ err'[s] = "Unknown" /\ ctx'[s] = ctx[s]
      \/ pc'[s] = "send" /\ err'[s] = err[s] /\ ctx'[s] = c
  BY <1>1, <1>6 DEF TypeOK
<1>10. Exchange(s)'
  BY <1>1, <1>2, <1>3, <1>5, <1>9 DEF StreamInv, Exchange, ResponsePhases
<1>11. Located(s)'
  BY <1>1, <1>2, <1>3, <1>5, <1>9, AbsentAssumption DEF StreamInv, Located, Silent, Open, Director, Codes, RequestPhases, ResponsePhases
<1>12. Replies(s)'
  <2>1. sent'[s] = <<>> /\ Ordered(sent'[s]) /\ ~Ends(sent'[s], "respBody") /\ Ordered(<<>>)
    BY <1>2, <1>3 DEF Silent, Ordered, Ends
  <2>2. Ordered(ctx'[s].respBodyResp) /\ ctx'[s].reqBodyResp = <<>>
    BY <1>1, <1>3, <1>5, <1>9 DEF StreamInv, Replies, Silent
  <2> QED BY <2>1, <2>2 DEF Replies
<1>13. Requests(s)'
  <2>1. sent'[s] = <<>> /\ ~Ends(sent'[s], "reqBody")
    BY <1>2, <1>3 DEF Silent, Ends
  <2> QED BY <1>1, <1>2, <1>3, <1>5, <1>9, <2>1 DEF StreamInv, Requests, Silent
<1>14. Errors(s)'
  BY <1>1, <1>2, <1>9 DEF StreamInv, Errors, Open
<1>15. Usage(s)'
  BY <1>1, <1>2, <1>3, <1>5, <1>9 DEF StreamInv, Usage, ResponsePhases
<1>16. Routing(s)'
  <2>1. sent'[s] = <<>>
    BY <1>2, <1>3 DEF Silent
  <2>2. Chosen(s)'
    BY <1>2, <1>3 DEF Chosen
  <2>3. ctx'[s].reqHeaderResp # Absent => ctx'[s].reqHeaderResp.endpoints = targets'[s]
    BY <1>2, <1>3, <1>4, <1>5, <1>9 DEF Silent
  <2> QED BY <2>1, <2>2, <2>3 DEF Routing
<1>17. Admission(s)'
  BY <1>9 DEF Admission
<1>18. Gauge'
  <2>1. ~Forwarded(s) /\ ~Forwarded(s)'
    BY <1>2, <1>3 DEF Silent, Forwarded, Ends
  <2> QED BY <1>1, <1>2, <1>7, <2>1, GaugeKept DEF Counts
<1> QED BY <1>7, <1>8, <1>10, <1>11, <1>12, <1>13, <1>14, <1>15, <1>16, <1>17, <1>18, StepOf DEF StreamInv

\* The headers of a request, which may be all of it.
LEMMA RequestHeadersStep ==
  ASSUME Inv, NEW s \in Streams, RequestHeaders(s)
  PROVE  Inv'
<1>1. TypeOK /\ StreamInv(s) /\ Gauge
  BY DEF Inv
<1>2. /\ resp' = resp /\ ctx' = ctx /\ body' = body /\ todo' = todo /\ sent' = sent /\ recorded' = recorded
      /\ running' = running /\ load' = load /\ pool' = pool /\ podSet' = podSet /\ metrics' = metrics
      /\ changes' = changes /\ ever' = ever /\ always' = always /\ crashed' = crashed /\ pc[s] = "recv"
      /\ phase[s] = "new"
  BY DEF RequestHeaders, storeVars, Received
<1>3. PICK r \in load[s].req :
        /\ req' = [req EXCEPT ![s] = r]
        /\ phase' = [phase EXCEPT ![s] = IF r.chunks = <<>> THEN "upstream" ELSE "reqBody"]
        /\ next' = [next EXCEPT ![s] = 1]
        /\ \/ /\ r.chunks # <<>> /\ pc' = [pc EXCEPT ![s] = "send"]
              /\ err' = err /\ targets' = targets
           \/ /\ r.chunks = <<>> /\ pc' = [pc EXCEPT ![s] = "error"]
              /\ err' = [err EXCEPT ![s] = "Internal"] /\ targets' = targets
           \/ /\ r.chunks = <<>> /\ pc' = [pc EXCEPT ![s] = "randomPod"] /\ err' = err
              /\ \E p \in podSet : targets' = [targets EXCEPT ![s] = {p}]
  <2>1. PICK r \in load[s].req : RequestHeaders(s)!(r)
    BY DEF RequestHeaders
  <2> QED BY <2>1 DEF Received, Goto, Fail, GetRandomPod
<1>4. Silent(s) /\ r.chunks \in Seq(Nat)
  BY <1>1, <1>2, LoadsAssumption DEF StreamInv, Located, Open, RequestPhases, TypeOK
<1>5. OnlyOf(s)
  BY <1>1, <1>2, <1>3, <1>4 DEF OnlyOf, View, TypeOK
<1>6. TypeOK'
  <2>1. pc' \in [Streams -> PCs]
    <3>1. pc \in [Streams -> PCs]
      BY <1>1 DEF TypeOK
    <3> QED BY <1>2, <1>3, <1>4, <3>1 DEF PCs, Director
  <2>2. phase' \in [Streams -> Phases]
    <3>1. phase \in [Streams -> Phases]
      BY <1>1 DEF TypeOK
    <3> QED BY <1>2, <1>3, <1>4, <3>1 DEF Phases, RequestPhases, ResponsePhases
  <2>3. next' \in [Streams -> Nat \ {0}]
    <3>1. next \in [Streams -> Nat \ {0}]
      BY <1>1 DEF TypeOK
    <3> QED BY <1>2, <1>3, <1>4, <3>1
  <2>4. DOMAIN req' = Streams /\ req' = [t \in Streams |-> req'[t]]
    BY <1>1, <1>2, <1>3, <1>4 DEF TypeOK
  <2>5. err' \in [Streams -> Codes \cup {Absent}]
    <3>1. err \in [Streams -> Codes \cup {Absent}]
      BY <1>1 DEF TypeOK
    <3> QED BY <1>2, <1>3, <1>4, <3>1 DEF Codes
  <2>6. targets' \in [Streams -> SUBSET Pods]
    <3>1. \A p \in podSet : {p} \in SUBSET Pods
      BY <1>1 DEF TypeOK
    <3>2. targets' = targets \/ \E T \in SUBSET Pods : targets' = [targets EXCEPT ![s] = T]
      BY <1>3, <3>1
    <3> QED BY <1>1, <3>2 DEF TypeOK
  <2> QED BY <1>1, <1>2, <2>1, <2>2, <2>3, <2>4, <2>5, <2>6 DEF TypeOK
<1>7. /\ req'[s] = r /\ next'[s] = 1
      /\ \/ pc'[s] = "send" /\ r.chunks # <<>> /\ phase'[s] = "reqBody"
         \/ pc'[s] = "error" /\ r.chunks = <<>> /\ phase'[s] = "upstream" /\ err'[s] = "Internal"
         \/ pc'[s] = "randomPod" /\ r.chunks = <<>> /\ phase'[s] = "upstream" /\ targets'[s] # {}
  <2>1. /\ req'[s] = r /\ next'[s] = 1 /\ phase'[s] = (IF r.chunks = <<>> THEN "upstream" ELSE "reqBody")
    BY <1>1, <1>3 DEF TypeOK
  <2>2. CASE r.chunks # <<>>
    BY <1>1, <1>3, <2>1, <2>2 DEF TypeOK
  <2>3. CASE r.chunks = <<>>
    <3>1. (\E p \in podSet : targets' = [targets EXCEPT ![s] = {p}]) => targets'[s] # {}
      BY <1>1 DEF TypeOK
    <3> QED BY <1>1, <1>3, <2>1, <2>3, <3>1 DEF TypeOK
  <2> QED BY <2>2, <2>3
<1>8. Exchange(s)'
  BY <1>2, <1>3, <1>4, <1>7 DEF Exchange, ResponsePhases
<1>9. Located(s)'
  <2>1. Silent(s)'
    BY <1>2, <1>4 DEF Silent
  <2>2. ctx'[s].state = 0
    BY <2>1 DEF Silent
  <2> QED BY <1>7, <2>1, <2>2, AbsentAssumption DEF Located, Director, Codes, RequestPhases, ResponsePhases, Open
<1>10. Replies(s)'
  BY <1>1, <1>2, <1>7 DEF StreamInv, Replies, Open
<1>11. Requests(s)'
  BY <1>1, <1>2, <1>7 DEF StreamInv, Requests, Open
<1>12. Errors(s)'
  BY <1>1, <1>2, <1>7 DEF StreamInv, Errors, Open
<1>13. Usage(s)'
  BY <1>1, <1>2, <1>7 DEF StreamInv, Usage, ResponsePhases
<1>14. Routing(s)'
  BY <1>2, <1>4, <1>7 DEF Routing, Chosen, Silent
<1>15. Admission(s)'
  BY <1>7 DEF Admission
<1>16. Gauge'
  BY <1>1, <1>2, <1>7, <1>5, GaugeKept DEF Counts, Forwarded
<1> QED BY <1>5, <1>6, <1>8, <1>9, <1>10, <1>11, <1>12, <1>13, <1>14, <1>15, <1>16, StepOf DEF StreamInv

\* Trailers of a request or a response.
LEMMA TrailersStep ==
  ASSUME Inv, NEW s \in Streams, Trailers(s)
  PROVE  Inv'
<1>1. TypeOK /\ StreamInv(s) /\ Gauge
  BY DEF Inv
<1>2. /\ req' = req /\ resp' = resp /\ ctx' = ctx /\ body' = body /\ err' = err /\ targets' = targets
      /\ todo' = todo /\ sent' = sent /\ recorded' = recorded /\ running' = running /\ load' = load
      /\ pool' = pool /\ podSet' = podSet /\ metrics' = metrics /\ changes' = changes /\ ever' = ever
      /\ always' = always /\ crashed' = crashed /\ pc[s] = "recv"
  BY DEF Trailers, storeVars, Received
<1>3. /\ pc' = [pc EXCEPT ![s] = "send"] /\ next' = [next EXCEPT ![s] = 1]
      /\ \/ phase[s] = "reqTrailers" /\ phase' = [phase EXCEPT ![s] = "upstream"]
         \/ phase[s] = "respTrailers" /\ phase' = [phase EXCEPT ![s] = "end"]
  BY DEF Trailers, Received, Goto
<1>4. OnlyOf(s)
  BY <1>1, <1>2, <1>3 DEF OnlyOf, View, TypeOK
<1>5. TypeOK'
  <2>1. pc' \in [Streams -> PCs]
    <3>1. pc \in [Streams -> PCs]
      BY <1>1 DEF TypeOK
    <3> QED BY <1>2, <1>3, <3>1 DEF PCs, Director
  <2>2. phase' \in [Streams -> Phases]
    <3>1. phase \in [Streams -> Phases]
      BY <1>1 DEF TypeOK
    <3> QED BY <1>2, <1>3, <3>1 DEF Phases, RequestPhases, ResponsePhases
  <2>3. next' \in [Streams -> Nat \ {0}]
    <3>1. next \in [Streams -> Nat \ {0}]
      BY <1>1 DEF TypeOK
    <3> QED BY <1>2, <1>3, <3>1
  <2> QED BY <1>1, <1>2, <2>1, <2>2, <2>3 DEF TypeOK
<1>6. /\ pc'[s] = "send"
      /\ \/ phase[s] = "reqTrailers" /\ phase'[s] = "upstream" /\ Silent(s)
         \/ phase[s] = "respTrailers" /\ phase'[s] = "end"
  BY <1>1, <1>2, <1>3 DEF TypeOK, StreamInv, Located, Open, RequestPhases
<1>7. Exchange(s)'
  BY <1>1, <1>2, <1>6 DEF StreamInv, Exchange, ResponsePhases
<1>8. Located(s)'
  BY <1>1, <1>2, <1>6 DEF StreamInv, Located, Silent, Open, Director, RequestPhases, ResponsePhases
<1>9. Replies(s)'
  BY <1>1, <1>2, <1>6 DEF StreamInv, Replies, Open
<1>10. Requests(s)'
  BY <1>1, <1>2, <1>6 DEF StreamInv, Requests, Open
<1>11. Errors(s)'
  BY <1>1, <1>2, <1>6 DEF StreamInv, Errors, Open
<1>12. Usage(s)'
  BY <1>1, <1>2, <1>6 DEF StreamInv, Usage, ResponsePhases
<1>13. Routing(s)'
  BY <1>1, <1>2, <1>6 DEF StreamInv, Routing, Chosen, Silent
<1>14. Admission(s)'
  BY <1>1, <1>2, <1>6 DEF StreamInv, Admission, Good
<1>15. Gauge'
  BY <1>1, <1>2, <1>6, <1>4, GaugeKept DEF Counts, Forwarded
<1> QED BY <1>4, <1>5, <1>7, <1>8, <1>9, <1>10, <1>11, <1>12, <1>13, <1>14, <1>15, StepOf DEF StreamInv

\* A chunk of the request, of which the last may start the director.
LEMMA RequestBodyStep ==
  ASSUME Inv, NEW s \in Streams, RequestBody(s)
  PROVE  Inv'
<1>1. TypeOK /\ StreamInv(s) /\ Gauge
  BY DEF Inv
<1>2. /\ req' = req /\ resp' = resp /\ targets' = targets /\ todo' = todo /\ sent' = sent
      /\ recorded' = recorded /\ running' = running /\ load' = load /\ pool' = pool /\ podSet' = podSet
      /\ metrics' = metrics /\ changes' = changes /\ ever' = ever /\ always' = always /\ crashed' = crashed
      /\ pc[s] = "recv" /\ phase[s] = "reqBody"
  BY DEF RequestBody, storeVars, Received
<1>3. /\ Silent(s) /\ req[s] \in load[s].req /\ next[s] \in DOMAIN req[s].chunks
      /\ req[s].chunks \in Seq(Nat) /\ next[s] \in 1..Len(req[s].chunks) /\ req[s].chunks[next[s]] \in Nat
      /\ ctx[s] \in Contexts /\ body[s] \in [req : Nat, resp : Nat] /\ req[s].trailers \in BOOLEAN
  <2>1. Silent(s) /\ req[s] \in load[s].req /\ next[s] \in DOMAIN req[s].chunks
    BY <1>1, <1>2 DEF StreamInv, Located, Exchange, Open, RequestPhases
  <2>2. req[s].chunks \in Seq(Nat) /\ req[s].trailers \in BOOLEAN
    BY <1>1, <2>1, LoadsAssumption DEF TypeOK
  <2> QED BY <1>1, <2>1, <2>2 DEF TypeOK
<1>4. PICK c : /\ c = [ctx[s] EXCEPT !.model = req[s].model] /\ c \in Contexts /\ c.state = ctx[s].state
               /\ c.reqHeaderResp = ctx[s].reqHeaderResp /\ c.reqBodyResp = ctx[s].reqBodyResp
               /\ c.isRunning = ctx[s].isRunning /\ c.respBodyResp = ctx[s].respBodyResp
  <2> WITNESS [ctx[s] EXCEPT !.model = req[s].model]
  <2>1. req[s].model \in Models \cup {Absent}
    BY <1>1, <1>3 DEF Models, TypeOK
  <2> QED BY <1>3, <2>1 DEF Contexts
<1>5. /\ \E to \in {"reqBody", "reqTrailers", "upstream"}, n \in Nat \ {0}, b \in [req : Nat, resp : Nat] :
           /\ phase' = [phase EXCEPT ![s] = to] /\ next' = [next EXCEPT ![s] = n]
           /\ body' = [body EXCEPT ![s] = b]
           /\ to = "reqBody" => n \in DOMAIN req[s].chunks /\ pc' = [pc EXCEPT ![s] = "send"]
           /\ to = "reqTrailers" => pc' = [pc EXCEPT ![s] = "send"]
           /\ pc' = [pc EXCEPT ![s] = "admit"] => to = "upstream" /\ b.req = 0
      /\ \/ pc' = [pc EXCEPT ![s] = "send"] /\ err' = err
         \/ pc' = [pc EXCEPT ![s] = "admit"] /\ err' = err
         \/ pc' = [pc EXCEPT ![s] = "error"] /\ err' = [err EXCEPT ![s] = "BadRequest"]
      /\ ctx' = ctx \/ ctx' = [ctx EXCEPT ![s] = c]
  <2> DEFINE r == req[s]
             n == next[s]
             to == IF n < Len(r.chunks) THEN "reqBody" ELSE IF r.trailers THEN "reqTrailers" ELSE "upstream"
             buffered == [body[s] EXCEPT !.req = @ + r.chunks[n]]
  <2>1. /\ phase' = [phase EXCEPT ![s] = to] /\ next' = [next EXCEPT ![s] = IF to = "reqBody" THEN n + 1 ELSE 1]
    BY <1>1, <1>2 DEF RequestBody, Received, TypeOK
  <2>2. buffered \in [req : Nat, resp : Nat]
    BY <1>3, SMTT(30)
  <2>3. (IF to = "reqBody" THEN n + 1 ELSE 1) \in Nat \ {0} /\ (to = "reqBody" => n + 1 \in DOMAIN r.chunks)
    <3>1. n \in 1..Len(r.chunks) /\ Len(r.chunks) \in Nat /\ DOMAIN r.chunks = 1..Len(r.chunks)
      BY <1>3
    <3>2. to = "reqBody" => n < Len(r.chunks)
      OBVIOUS
    <3> HIDE DEF to, n, r
    <3> QED
      BY <3>1, <3>2
  <2>4. \/ /\ n < Len(r.chunks) \/ r.trailers
           /\ body' = [body EXCEPT ![s] = buffered] /\ pc' = [pc EXCEPT ![s] = "send"] /\ ctx' = ctx /\ err' = err
        \/ /\ n = Len(r.chunks) /\ ~r.trailers
           /\ body' = [body EXCEPT ![s] = buffered] /\ pc' = [pc EXCEPT ![s] = "error"]
           /\ err' = [err EXCEPT ![s] = "BadRequest"] /\ ctx' = ctx
        \/ /\ n = Len(r.chunks) /\ ~r.trailers
           /\ body' = [body EXCEPT ![s] = [req |-> 0, resp |-> 0]]
           /\ ctx' = [ctx EXCEPT ![s].model = r.model]
           /\ \/ pc' = [pc EXCEPT ![s] = "admit"] /\ err' = err
              \/ pc' = [pc EXCEPT ![s] = "error"] /\ err' = [err EXCEPT ![s] = "BadRequest"]
    BY DEF RequestBody, Body, EmptyBody, Goto, Fail
  <2>5. ctx' = [ctx EXCEPT ![s].model = r.model] => ctx' = [ctx EXCEPT ![s] = c]
    BY <1>1, <1>4 DEF TypeOK
  <2>6. pc \in [Streams -> PCs]
    BY <1>1 DEF TypeOK
  <2>7. [req |-> 0, resp |-> 0] \in [req : Nat, resp : Nat]
    OBVIOUS
  <2>8. to \in {"reqBody", "reqTrailers", "upstream"} /\ (n = Len(r.chunks) /\ ~r.trailers => to = "upstream")
        /\ (n < Len(r.chunks) => to = "reqBody") /\ (to = "reqBody" => n < Len(r.chunks))
        /\ (to = "reqTrailers" => r.trailers)
    BY <1>3
  <2> HIDE DEF to, buffered, n, r
  <2>9. CASE /\ n < Len(r.chunks) \/ r.trailers
             /\ body' = [body EXCEPT ![s] = buffered] /\ pc' = [pc EXCEPT ![s] = "send"] /\ ctx' = ctx /\ err' = err
    <3>1. [pc EXCEPT ![s] = "send"] # [pc EXCEPT ![s] = "admit"]
      BY <2>6
    <3> QED BY <2>1, <2>2, <2>3, <2>8, <2>9, <3>1 DEF r
  <2>10. CASE /\ n = Len(r.chunks) /\ ~r.trailers
              /\ \E b \in {buffered, [req |-> 0, resp |-> 0]} : body' = [body EXCEPT ![s] = b]
              /\ pc' = [pc EXCEPT ![s] = "error"] /\ err' = [err EXCEPT ![s] = "BadRequest"]
              /\ ctx' = ctx \/ ctx' = [ctx EXCEPT ![s].model = r.model]
    <3>1. [pc EXCEPT ![s] = "error"] # [pc EXCEPT ![s] = "admit"]
      BY <2>6
    <3>2. to = "upstream" /\ to # "reqBody" /\ to # "reqTrailers"
      BY <2>8, <2>10
    <3>3. PICK b \in [req : Nat, resp : Nat] : body' = [body EXCEPT ![s] = b]
      BY <2>2, <2>7, <2>10
    <3> QED BY <2>1, <2>3, <2>5, <2>10, <3>1, <3>2, <3>3
  <2>11. CASE /\ n = Len(r.chunks) /\ ~r.trailers
              /\ body' = [body EXCEPT ![s] = [req |-> 0, resp |-> 0]]
              /\ pc' = [pc EXCEPT ![s] = "admit"] /\ err' = err
              /\ ctx' = [ctx EXCEPT ![s].model = r.model]
    <3>1. to = "upstream" /\ to # "reqBody" /\ to # "reqTrailers"
      BY <2>8, <2>11
    <3>2. [req |-> 0, resp |-> 0].req = 0
      OBVIOUS
    <3> QED BY <2>1, <2>3, <2>5, <2>7, <2>11, <3>1, <3>2
  <2> QED BY <2>4, <2>9, <2>10, <2>11
<1>6. OnlyOf(s)
  BY <1>1, <1>2, <1>5 DEF OnlyOf, View, TypeOK
<1>7. TypeOK'
  <2>1. pc' \in [Streams -> PCs]
    BY <1>1, <1>5 DEF TypeOK, PCs, Director
  <2>2. phase' \in [Streams -> Phases]
    BY <1>1, <1>5 DEF TypeOK, Phases, RequestPhases
  <2>3. next' \in [Streams -> Nat \ {0}]
    BY <1>1, <1>5 DEF TypeOK
  <2>4. ctx' \in [Streams -> Contexts]
    <3>1. ctx' = ctx \/ ctx' = [ctx EXCEPT ![s] = c]
      BY <1>5
    <3> QED BY <1>1, <1>4, <3>1 DEF TypeOK
  <2>5. body' \in [Streams -> [req : Nat, resp : Nat]]
    BY <1>1, <1>5 DEF TypeOK
  <2>6. err' \in [Streams -> Codes \cup {Absent}]
    BY <1>1, <1>5 DEF TypeOK, Codes
  <2> QED BY <1>1, <1>2, <2>1, <2>2, <2>3, <2>4, <2>5, <2>6 DEF TypeOK
<1>8. /\ \/ pc'[s] = "send" /\ phase'[s] \in {"reqBody", "reqTrailers", "upstream"}
         \/ pc'[s] = "admit" /\ phase'[s] = "upstream" /\ body'[s].req = 0
         \/ pc'[s] = "error" /\ phase'[s] = "upstream" /\ err'[s] = "BadRequest"
      /\ phase'[s] = "reqBody" => next'[s] \in DOMAIN req[s].chunks
      /\ ctx'[s] = ctx[s] \/ ctx'[s] = c
  <2>1. /\ pc \in [Streams -> PCs] /\ err \in [Streams -> Codes \cup {Absent}] /\ ctx \in [Streams -> Contexts]
        /\ phase \in [Streams -> Phases] /\ next \in [Streams -> Nat \ {0}]
        /\ body \in [Streams -> [req : Nat, resp : Nat]]
    BY <1>1 DEF TypeOK
  <2> QED BY <1>5, <2>1
<1>9. Exchange(s)'
  BY <1>1, <1>2, <1>3, <1>8 DEF StreamInv, Exchange, ResponsePhases
<1>10. Located(s)'
  <2>1. Silent(s)' /\ ctx'[s].state = 0
    BY <1>2, <1>3, <1>4, <1>8 DEF Silent
  <2> QED BY <1>8, <2>1, AbsentAssumption DEF Located, Director, Codes, RequestPhases, ResponsePhases, Open
<1>11. Replies(s)'
  BY <1>1, <1>2, <1>4, <1>8 DEF StreamInv, Replies, Open
<1>12. Requests(s)'
  <2>1. Silent(s)'
    BY <1>2, <1>3, <1>4, <1>8 DEF Silent
  <2>2. ~Ends(sent'[s], "reqBody")
    BY <2>1 DEF Silent, Ends
  <2> QED BY <2>1, <2>2 DEF Requests, Silent
<1>13. Errors(s)'
  BY <1>1, <1>2, <1>8 DEF StreamInv, Errors, Open
<1>14. Usage(s)'
  BY <1>1, <1>2, <1>4, <1>8 DEF StreamInv, Usage, ResponsePhases
<1>15. Routing(s)'
  <2>1. ctx'[s].reqHeaderResp = Absent /\ sent'[s] = <<>>
    BY <1>2, <1>3, <1>4, <1>8 DEF Silent
  <2> QED BY <1>8, <2>1 DEF Routing
<1>16. Admission(s)'
  BY <1>8 DEF Admission
<1>17. Gauge'
  <2>1. ~Forwarded(s) /\ ~Forwarded(s)'
    BY <1>2, <1>3 DEF Silent, Forwarded, Ends
  <2> QED BY <1>1, <1>2, <1>6, <2>1, GaugeKept DEF Counts
<1> QED BY <1>6, <1>7, <1>9, <1>10, <1>11, <1>12, <1>13, <1>14, <1>15, <1>16, <1>17, StepOf DEF StreamInv

\* The headers of a response, or of a local reply.
LEMMA ResponseHeadersStep ==
  ASSUME Inv, NEW s \in Streams, ResponseHeaders(s)
  PROVE  Inv'
<1>1. TypeOK /\ StreamInv(s) /\ Gauge
  BY DEF Inv
<1>2. /\ req' = req /\ body' = body /\ err' = err /\ todo' = todo /\ sent' = sent /\ recorded' = recorded
      /\ running' = running /\ load' = load /\ pool' = pool /\ podSet' = podSet /\ metrics' = metrics
      /\ changes' = changes /\ ever' = ever /\ always' = always /\ crashed' = crashed /\ pc[s] = "recv"
  BY DEF ResponseHeaders, storeVars, Received
<1>3. PICK r \in load[s].resp :
        /\ resp' = [resp EXCEPT ![s] = r] /\ phase[s] \in {"reqBody", "reqTrailers", "upstream"}
        /\ phase' = [phase EXCEPT ![s] = IF r.chunks = <<>> THEN "end" ELSE "respBody"]
        /\ next' = [next EXCEPT ![s] = 1] /\ pc' = [pc EXCEPT ![s] = "send"]
        /\ targets' = [targets EXCEPT ![s] = {}]
        /\ ctx' = [ctx EXCEPT ![s] = generateResponseHeaderResponse(
                     [@ EXCEPT !.status = ~r.ok, !.streaming = r.streaming, !.state = 4])]
  <2>1. PICK r \in load[s].resp : ResponseHeaders(s)!(r)
    BY DEF ResponseHeaders
  <2> QED BY <2>1 DEF Received, Goto
<1>4. /\ ctx[s] \in Contexts /\ r.chunks \in Seq(Nat) /\ r.ok \in BOOLEAN /\ r.streaming \in BOOLEAN
      /\ req[s] \in load[s].req /\ ctx[s].state \in {0, 1, 2} /\ r.done \in Nat
  <2>1. ctx[s] \in Contexts /\ ctx[s].state \in RequestStates
    BY <1>1 DEF TypeOK, Contexts
  <2> QED BY <1>1, <1>2, <1>3, <2>1, LoadsAssumption DEF TypeOK, StreamInv, Exchange, Located, Open, ResponsePhases, RequestStates
<1>5. PICK c : /\ ctx' = [ctx EXCEPT ![s] = c] /\ c \in Contexts /\ c.state = 4
               /\ c.reqHeaderResp = ctx[s].reqHeaderResp /\ c.reqBodyResp = ctx[s].reqBodyResp
               /\ c.isRunning = ctx[s].isRunning /\ c.respBodyResp = ctx[s].respBodyResp
               /\ c.model = ctx[s].model /\ c.streaming = r.streaming
  <2> WITNESS generateResponseHeaderResponse([ctx[s] EXCEPT !.status = ~r.ok, !.streaming = r.streaming, !.state = 4])
  <2>1. (~r.ok) \in BOOLEAN /\ 4 \in RequestStates
    BY DEF RequestStates
  <2> QED BY <1>3, <1>4, <2>1 DEF generateResponseHeaderResponse, Contexts
<1>6. OnlyOf(s)
  BY <1>1, <1>2, <1>3, <1>4, <1>5 DEF OnlyOf, View, TypeOK
<1>7. TypeOK'
  <2>1. pc' \in [Streams -> PCs]
    <3>1. pc \in [Streams -> PCs]
      BY <1>1 DEF TypeOK
    <3> QED BY <1>2, <1>3, <1>4, <1>5, <3>1 DEF PCs, Director
  <2>2. phase' \in [Streams -> Phases]
    <3>1. phase \in [Streams -> Phases]
      BY <1>1 DEF TypeOK
    <3> QED BY <1>2, <1>3, <1>4, <1>5, <3>1 DEF Phases, RequestPhases, ResponsePhases
  <2>3. next' \in [Streams -> Nat \ {0}]
    <3>1. next \in [Streams -> Nat \ {0}]
      BY <1>1 DEF TypeOK
    <3> QED BY <1>2, <1>3, <1>4, <1>5, <3>1
  <2>4. DOMAIN resp' = Streams /\ resp' = [t \in Streams |-> resp'[t]]
    BY <1>1, <1>2, <1>3, <1>4, <1>5 DEF TypeOK
  <2>5. ctx' \in [Streams -> Contexts]
    BY <1>1, <1>5 DEF TypeOK
  <2>6. targets' \in [Streams -> SUBSET Pods]
    <3>1. targets \in [Streams -> SUBSET Pods]
      BY <1>1 DEF TypeOK
    <3> QED BY <1>2, <1>3, <1>4, <1>5, <3>1
  <2> QED BY <1>1, <1>2, <2>1, <2>2, <2>3, <2>4, <2>5, <2>6 DEF TypeOK
<1>8. /\ pc'[s] = "send" /\ resp'[s] = r /\ next'[s] = 1 /\ ctx'[s] = c
      /\ \/ phase'[s] = "end"
         \/ phase'[s] = "respBody" /\ r.chunks # <<>>
  <2>1. /\ pc \in [Streams -> PCs] /\ ctx \in [Streams -> Contexts] /\ resp = [t \in Streams |-> resp[t]]
        /\ phase \in [Streams -> Phases] /\ next \in [Streams -> Nat \ {0}]
    BY <1>1 DEF TypeOK
  <2> QED BY <1>3, <1>5, <2>1
<1>9. Exchange(s)'
  BY <1>1, <1>2, <1>3, <1>4, <1>5, <1>8 DEF Exchange
<1>10. Located(s)'
  BY <1>8, <1>5 DEF Located, Director, RequestPhases, ResponsePhases, Open
<1>11. Replies(s)'
  <2>1. Open(s) /\ Top[ctx[s].state] <= 2 /\ Top[ctx[s].state] \in Int /\ Top[4] = 2
    BY <1>2, <1>4 DEF Open, Top, RequestStates
  <2>2. \A i \in DOMAIN sent[s] : sent[s][i] \in Messages
    BY <1>1 DEF TypeOK
  <2>3. \A i \in DOMAIN sent[s] : Rank[sent[s][i].kind] <= 2
    BY <1>1, <2>1, <2>2, MessageType DEF StreamInv, Replies
  <2> QED BY <1>1, <1>2, <1>5, <1>8, <2>1, <2>3 DEF StreamInv, Replies
<1>12. Requests(s)'
  BY <1>1, <1>2, <1>5, <1>8 DEF StreamInv, Requests, Open
<1>13. Errors(s)'
  BY <1>1, <1>2, <1>8 DEF StreamInv, Errors, Open
<1>14. Usage(s)'
  BY <1>1, <1>2, <1>3, <1>4, <1>5, <1>8 DEF StreamInv, Usage, ResponsePhases
<1>15. Routing(s)'
  BY <1>1, <1>2, <1>5, <1>8 DEF StreamInv, Routing, Chosen
<1>16. Admission(s)'
  BY <1>8 DEF Admission
<1>17. Gauge'
  BY <1>1, <1>2, <1>5, <1>8, <1>6, GaugeKept DEF Counts, Forwarded
<1> QED BY <1>6, <1>7, <1>9, <1>10, <1>11, <1>12, <1>13, <1>14, <1>15, <1>16, <1>17, StepOf DEF StreamInv

\* A chunk of the response.
LEMMA ResponseBodyStep ==
  ASSUME Inv, NEW s \in Streams, ResponseBody(s)
  PROVE  Inv'
<1>1. TypeOK /\ StreamInv(s) /\ Gauge
  BY DEF Inv
<1>2. /\ req' = req /\ resp' = resp /\ err' = err /\ targets' = targets /\ todo' = todo /\ sent' = sent
      /\ running' = running /\ load' = load /\ pool' = pool /\ podSet' = podSet /\ metrics' = metrics
      /\ changes' = changes /\ ever' = ever /\ always' = always /\ pc[s] = "recv" /\ phase[s] = "respBody"
  BY DEF ResponseBody, storeVars, Received
<1>3. /\ resp[s] \in load[s].resp /\ req[s] \in load[s].req /\ ctx[s].state \in {4, 5, 6}
      /\ ctx[s].streaming = resp[s].streaming /\ resp[s].streaming \in BOOLEAN /\ resp[s].trailers \in BOOLEAN
      /\ ctx[s] \in Contexts /\ body[s] \in [req : Nat, resp : Nat] /\ recorded[s] \in Records
  <2>1. /\ resp[s] \in load[s].resp /\ ctx[s].streaming = resp[s].streaming
        /\ ctx[s].state \in {4, 5, 6} /\ req[s] \in load[s].req
    BY <1>1, <1>2 DEF StreamInv, Located, Exchange, Open, ResponsePhases
  <2>2. resp[s].trailers \in BOOLEAN /\ resp[s].streaming \in BOOLEAN
    BY <1>1, <2>1, LoadsAssumption DEF TypeOK
  <2> QED BY <1>1, <2>1, <2>2 DEF TypeOK
<1>4. /\ next[s] \in Nat \ {0} /\ Len(resp[s].chunks) \in Nat /\ next[s] <= Len(resp[s].chunks)
      /\ DOMAIN resp[s].chunks = 1..Len(resp[s].chunks)
      /\ resp[s].chunks[next[s]] \in Nat /\ resp[s].out \in Nat /\ resp[s].done \in Nat
  <2>1. next[s] \in DOMAIN resp[s].chunks
    BY <1>1, <1>2 DEF StreamInv, Exchange
  <2>2. resp[s].chunks \in Seq(Nat) /\ resp[s].out \in Nat /\ resp[s].done \in Nat
    BY <1>1, <1>3, LoadsAssumption DEF TypeOK
  <2> QED BY <2>1, <2>2
<1>5. /\ ~Ends(sent[s], "respBody") /\ recorded[s].latencies = 0
      /\ recorded[s].tokens = IF resp[s].streaming /\ resp[s].done \in 1 .. next[s] - 1 /\ resp[s].usage = "full"
                              THEN 1 ELSE 0
  BY <1>1, <1>2 DEF StreamInv, Usage
<1>6. PICK eos \in BOOLEAN : eos = (next[s] = Len(resp[s].chunks) /\ ~resp[s].trailers)
  OBVIOUS
<1>7. /\ pc' = [pc EXCEPT ![s] = "send"]
      /\ phase' = [phase EXCEPT ![s] = IF next[s] < Len(resp[s].chunks) THEN "respBody"
                                       ELSE IF resp[s].trailers THEN "respTrailers" ELSE "end"]
      /\ next' = [next EXCEPT ![s] = IF next[s] < Len(resp[s].chunks) THEN next[s] + 1 ELSE 1]
  BY <1>1, <1>2 DEF ResponseBody, Received, StreamedChunk, WholeBody, Goto, TypeOK
<1>8. PICK c \in Contexts, b \in [req : Nat, resp : Nat], d \in Records :
        /\ ctx' = [ctx EXCEPT ![s] = c] /\ body' = [body EXCEPT ![s] = b] /\ recorded' = [recorded EXCEPT ![s] = d]
        /\ c.state = ctx[s].state /\ c.streaming = ctx[s].streaming /\ c.model = ctx[s].model
        /\ c.status = ctx[s].status /\ c.isRunning = ctx[s].isRunning
        /\ c.reqHeaderResp = ctx[s].reqHeaderResp /\ c.reqBodyResp = ctx[s].reqBodyResp
        /\ Ordered(c.respBodyResp)
        /\ Ends(c.respBodyResp, "respBody") => eos
        /\ b.req = body[s].req /\ d.requests = recorded[s].requests /\ d.errors = recorded[s].errors
        /\ ~eos => d.latencies = 0 /\ d.tokens = (IF resp[s].streaming /\ resp[s].done \in 1 .. next[s] /\ resp[s].usage = "full" THEN 1 ELSE 0)
        /\ eos /\ body[s].req = 0 => (d.tokens = 1 <=> UsageReported(resp[s]))
  <2>1. PICK b : /\ b = [body[s] EXCEPT !.resp = @ + resp[s].chunks[next[s]]] /\ b \in [req : Nat, resp : Nat]
                 /\ b.req = body[s].req
    <3> WITNESS [body[s] EXCEPT !.resp = @ + resp[s].chunks[next[s]]]
    <3>1. body[s] \in [req : Nat, resp : Nat] /\ resp[s].chunks[next[s]] \in Nat
      BY <1>3, <1>4
    <3> QED BY <3>1
  <2>2. ASSUME NEW q \in Seq(Plain("respBody")), Ordered(q), Ends(q, "respBody") => eos,
               ctx' = [ctx EXCEPT ![s].respBodyResp = q]
        PROVE  \E c \in Contexts :
                 /\ ctx' = [ctx EXCEPT ![s] = c]
                 /\ c.state = ctx[s].state /\ c.streaming = ctx[s].streaming /\ c.model = ctx[s].model
                 /\ c.status = ctx[s].status /\ c.isRunning = ctx[s].isRunning
                 /\ c.reqHeaderResp = ctx[s].reqHeaderResp /\ c.reqBodyResp = ctx[s].reqBodyResp
                 /\ Ordered(c.respBodyResp)
                 /\ Ends(c.respBodyResp, "respBody") => eos
    <3>1. [ctx[s] EXCEPT !.respBodyResp = q] \in Contexts
      BY <2>2, <1>3 DEF Contexts
    <3> WITNESS [ctx[s] EXCEPT !.respBodyResp = q] \in Contexts
    <3>2. ctx' = [ctx EXCEPT ![s] = [ctx[s] EXCEPT !.respBodyResp = q]]
      BY <1>1, <2>2 DEF TypeOK
    <3>3. [ctx[s] EXCEPT !.respBodyResp = q].respBodyResp = q
      BY <1>3 DEF Contexts
    <3> QED BY <1>3, <2>2, <3>2, <3>3 DEF Contexts
  <2>3. CASE ctx[s].streaming /\ StreamedChunk(s, resp[s].chunks[next[s]], eos)
    <3>1. PICK q \in Seq(Plain("respBody")) : /\ ctx' = [ctx EXCEPT ![s].respBodyResp = q] /\ Ordered(q)
                                              /\ Ends(q, "respBody") => eos
      <4>1. PICK q : q = buildCommonResponses("respBody", resp[s].chunks[next[s]], eos)
        OBVIOUS
      <4>2. ctx' = [ctx EXCEPT ![s].respBodyResp = q]
        BY <2>3, <4>1 DEF StreamedChunk, generateResponseBodyResponses
      <4>3. resp[s].chunks[next[s]] \in Nat
        BY <1>4
      <4>4. q \in Seq(Plain("respBody")) /\ Ordered(q) /\ (Ends(q, "respBody") => eos)
        BY <4>1, <4>3, Chunks, ZenonT(30)
      <4> QED BY <4>2, <4>4
    <3>2. PICK d \in Records :
             /\ recorded' = [recorded EXCEPT ![s] = d] /\ d.requests = recorded[s].requests
             /\ d.errors = recorded[s].errors /\ d.tokens = (IF resp[s].streaming /\ resp[s].done \in 1 .. next[s] /\ resp[s].usage = "full" THEN 1 ELSE 0) /\ d.latencies = IF eos THEN 1 ELSE 0
      <4>1. PICK k \in 0..1 : k = IF EndMark(s) THEN recorded[s].tokens + TokensOf(parseRespForUsage(resp[s]))
                                  ELSE recorded[s].tokens
        BY <1>4, <1>5 DEF EndMark, TokensOf, parseRespForUsage
      <4>2. k = (IF resp[s].streaming /\ resp[s].done \in 1 .. next[s] /\ resp[s].usage = "full" THEN 1 ELSE 0)
        <5>1. resp[s].streaming
          BY <2>3, <1>3
        <5>2. CASE resp[s].usage = "full"
          BY <1>4, <1>5, <4>1, <5>1, <5>2 DEF EndMark, TokensOf, parseRespForUsage
        <5>3. CASE resp[s].usage # "full"
          BY <1>4, <1>5, <4>1, <5>1, <5>3 DEF EndMark, TokensOf, parseRespForUsage
        <5> QED BY <5>2, <5>3
      <4>3. PICK l \in 0..1 : l = IF eos THEN 1 ELSE 0
        OBVIOUS
      <4>4. recorded' = [recorded EXCEPT ![s].tokens = k, ![s].latencies = l]
        BY <1>1, <2>3, <1>5, <4>1, <4>3 DEF StreamedChunk, TypeOK
      <4>5. [recorded[s] EXCEPT !.tokens = k, !.latencies = l] \in Records
        BY <1>3 DEF Records
      <4> WITNESS [recorded[s] EXCEPT !.tokens = k, !.latencies = l] \in Records
      <4>6. recorded' = [recorded EXCEPT ![s] = [recorded[s] EXCEPT !.tokens = k, !.latencies = l]]
        BY <1>1, <4>4 DEF TypeOK
      <4> QED BY <1>3, <4>2, <4>3, <4>6 DEF Records
    <3>3. body' = [body EXCEPT ![s] = body[s]]
      BY <1>1, <2>3 DEF StreamedChunk, TypeOK
    <3>4. eos => (d.tokens = 1 <=> UsageReported(resp[s]))
      <4>1. resp[s].streaming
        BY <2>3, <1>3
      <4>2. eos => next[s] = Len(resp[s].chunks)
        BY <1>6
      <4>3. eos => (resp[s].done \in 1 .. next[s] <=> resp[s].done \in DOMAIN resp[s].chunks)
        BY <1>4, <4>2
      <4> QED BY <3>2, <4>1, <4>3 DEF UsageReported
    <3> QED BY <2>2, <1>3, <3>1, <3>2, <3>3, <3>4
  <2>4. CASE ~ctx[s].streaming /\ eos /\ WholeBody(s, b)
    <3> DEFINE parsed == resp[s].json /\ b.req = 0
    <3>1. PICK n \in Nat : n = IF parsed THEN resp[s].out ELSE b.req + b.resp
      <4>1. b.req + b.resp \in Nat
        BY <2>1
      <4> QED BY <1>4, <4>1
    <3>2. PICK q \in Seq(Plain("respBody")) : ctx' = [ctx EXCEPT ![s].respBodyResp = q] /\ Ordered(q)
      <4>1. PICK q : q = buildCommonResponses("respBody", n, TRUE)
        OBVIOUS
      <4>2. ctx' = [ctx EXCEPT ![s].respBodyResp = q]
        BY <2>4, <3>1, <4>1 DEF WholeBody, generateResponseBodyResponses
      <4>3. TRUE \in BOOLEAN
        OBVIOUS
      <4> QED BY <3>1, <4>1, <4>2, <4>3, Chunks
    <3>3. PICK d \in Records :
             /\ recorded' = [recorded EXCEPT ![s] = d] /\ d.requests = recorded[s].requests
             /\ d.errors = recorded[s].errors
             /\ d.tokens = IF parsed THEN TokensOf(resp[s].usage) ELSE 0
      <4>1. CASE parsed
        <5>1. PICK k \in 0..1 : k = TokensOf(resp[s].usage)
          BY DEF TokensOf
        <5>2. recorded[s].tokens = 0
          BY <2>4, <1>3, <1>5
        <5>3. recorded' = [recorded EXCEPT ![s].tokens = k, ![s].latencies = 1]
          <6>1. recorded' = [recorded EXCEPT ![s].tokens = @ + TokensOf(resp[s].usage), ![s].latencies = @ + 1]
            BY <2>4, <4>1 DEF WholeBody
          <6>2. recorded[s].tokens + TokensOf(resp[s].usage) = k /\ recorded[s].latencies + 1 = 1
            BY <5>1, <5>2, <1>5
          <6> QED BY <1>1, <6>1, <6>2 DEF TypeOK
        <5>4. [recorded[s] EXCEPT !.tokens = k, !.latencies = 1] \in Records
          <6>1. 1 \in 0..1 /\ k \in 0..1
            BY <5>1
          <6> QED BY <1>3, <6>1 DEF Records
        <5> WITNESS [recorded[s] EXCEPT !.tokens = k, !.latencies = 1] \in Records
        <5>5. recorded' = [recorded EXCEPT ![s] = [recorded[s] EXCEPT !.tokens = k, !.latencies = 1]]
          BY <1>1, <5>3 DEF TypeOK
        <5> QED BY <1>3, <4>1, <5>1, <5>5 DEF Records
      <4>2. CASE ~parsed
        <5>1. recorded' = recorded
          BY <2>4, <4>2 DEF WholeBody
        <5>2. recorded' = [recorded EXCEPT ![s] = recorded[s]] /\ recorded[s].tokens = 0
          BY <1>1, <2>4, <1>3, <1>5, <5>1 DEF TypeOK
        <5> QED BY <1>3, <4>2, <5>2
      <4> QED BY <4>1, <4>2
    <3>4. body' = [body EXCEPT ![s] = b]
      BY <2>4 DEF WholeBody, Body
    <3>5. body[s].req = 0 => (d.tokens = 1 <=> UsageReported(resp[s]))
      <4>1. ~resp[s].streaming
        BY <2>4, <1>3
      <4> QED BY <2>1, <3>3, <4>1 DEF UsageReported, TokensOf
    <3>6. eos
      BY <2>4
    <3> HIDE DEF parsed
    <3> QED BY <2>1, <2>2, <1>3, <3>2, <3>3, <3>4, <3>5, <3>6
  <2>5. CASE /\ ~ctx[s].streaming /\ ~eos
             /\ body' = [body EXCEPT ![s] = b] /\ ctx' = ctx /\ recorded' = recorded
    <3>1. ctx' = [ctx EXCEPT ![s] = ctx[s]] /\ recorded' = [recorded EXCEPT ![s] = recorded[s]]
      BY <1>1, <2>5 DEF TypeOK
    <3>2. Ordered(ctx[s].respBodyResp) /\ ~Ends(ctx[s].respBodyResp, "respBody")
      BY <1>1, <1>2 DEF StreamInv, Replies, Usage
    <3>3. recorded[s].tokens = (IF resp[s].streaming /\ resp[s].done \in 1 .. next[s] /\ resp[s].usage = "full" THEN 1 ELSE 0)
      BY <2>5, <1>3, <1>5
    <3> QED BY <2>1, <2>5, <1>3, <1>5, <3>1, <3>2, <3>3
  <2>6. \/ ctx[s].streaming /\ StreamedChunk(s, resp[s].chunks[next[s]], eos)
        \/ ~ctx[s].streaming /\ eos /\ WholeBody(s, b)
        \/ /\ ~ctx[s].streaming /\ ~eos
           /\ body' = [body EXCEPT ![s] = b] /\ ctx' = ctx /\ recorded' = recorded
    BY <2>1, <1>6 DEF ResponseBody, Body
  <2> QED BY <2>3, <2>4, <2>5, <2>6
<1>9. crashed' \in BOOLEAN
  BY <1>1 DEF ResponseBody, StreamedChunk, WholeBody, TypeOK
<1>10. OnlyOf(s)
  BY <1>1, <1>2, <1>7, <1>8 DEF OnlyOf, View, TypeOK
<1>11. TypeOK'
  <2>1. pc' \in [Streams -> PCs]
    BY <1>1, <1>7 DEF TypeOK, PCs, Director
  <2>2. phase' \in [Streams -> Phases]
    BY <1>1, <1>7 DEF TypeOK, Phases, ResponsePhases
  <2>3. next' \in [Streams -> Nat \ {0}]
    <3>1. (IF next[s] < Len(resp[s].chunks) THEN next[s] + 1 ELSE 1) \in Nat \ {0}
      BY <1>4
    <3> QED BY <1>1, <1>7, <3>1 DEF TypeOK
  <2>4. ctx' \in [Streams -> Contexts]
    BY <1>1, <1>8 DEF TypeOK
  <2>5. body' \in [Streams -> [req : Nat, resp : Nat]]
    BY <1>1, <1>8 DEF TypeOK
  <2>6. recorded' \in [Streams -> Records]
    BY <1>1, <1>8 DEF TypeOK
  <2>7. crashed' \in BOOLEAN
    BY <1>9
  <2> QED BY <1>1, <1>2, <2>1, <2>2, <2>3, <2>4, <2>5, <2>6, <2>7 DEF TypeOK
<1>12. /\ pc'[s] = "send" /\ ctx'[s] = c /\ body'[s] = b /\ recorded'[s] = d
       /\ \/ phase'[s] = "end" /\ eos
          \/ phase'[s] = "respTrailers" /\ ~eos
          \/ phase'[s] = "respBody" /\ ~eos /\ next'[s] = next[s] + 1 /\ next'[s] \in DOMAIN resp[s].chunks
  <2>1. /\ pc \in [Streams -> PCs] /\ ctx \in [Streams -> Contexts] /\ recorded \in [Streams -> Records]
        /\ phase \in [Streams -> Phases] /\ next \in [Streams -> Nat \ {0}]
        /\ body \in [Streams -> [req : Nat, resp : Nat]]
    BY <1>1 DEF TypeOK
  <2>2. ctx'[s] = c /\ body'[s] = b /\ recorded'[s] = d
    BY <1>8, <2>1
  <2>3. CASE next[s] < Len(resp[s].chunks)
    <3>1. next[s] # Len(resp[s].chunks)
      BY <1>4, <2>3
    <3>2. ~eos
      BY <1>6, <3>1, Zenon
    <3> QED BY <1>4, <1>7, <2>1, <2>2, <2>3, <3>2
  <2>4. CASE next[s] = Len(resp[s].chunks) /\ resp[s].trailers
    <3>1. ~eos
      BY <1>6, <2>4
    <3> QED BY <1>4, <1>7, <2>1, <2>2, <2>4, <3>1
  <2>5. CASE next[s] = Len(resp[s].chunks) /\ ~resp[s].trailers
    <3>1. eos
      BY <1>6, <2>5
    <3> QED BY <1>4, <1>7, <2>1, <2>2, <2>5, <3>1
  <2> QED BY <1>4, <2>3, <2>4, <2>5
<1>13. Exchange(s)'
  BY <1>1, <1>2, <1>3, <1>8, <1>12 DEF StreamInv, Exchange, ResponsePhases
<1>14. Located(s)'
  BY <1>12, <1>3, <1>8 DEF Located, Director, RequestPhases, ResponsePhases, Open
<1>15. Replies(s)'
  BY <1>1, <1>2, <1>8, <1>12 DEF StreamInv, Replies, Open
<1>16. Requests(s)'
  BY <1>1, <1>2, <1>8, <1>12 DEF StreamInv, Requests, Open
<1>17. Errors(s)'
  BY <1>1, <1>2, <1>8, <1>12 DEF StreamInv, Errors, Open
<1>18. Usage(s)'
  <2>1. phase'[s] \in ResponsePhases
    BY <1>12 DEF ResponsePhases
  <2>2. CASE phase'[s] = "respBody"
    <3>1. next'[s] - 1 = next[s] /\ ~eos
      BY <1>4, <1>12, <2>2
    <3>2. ~Ends(sent'[s], "respBody") /\ ~Ends(ctx'[s].respBodyResp, "respBody")
      BY <1>2, <1>5, <1>8, <1>12, <3>1
    <3> QED BY <1>2, <1>8, <1>12, <2>1, <2>2, <3>1, <3>2 DEF Usage
  <2>3. CASE phase'[s] = "respTrailers"
    <3>1. ~Ends(sent'[s], "respBody") /\ ~Ends(ctx'[s].respBodyResp, "respBody")
      BY <1>2, <1>5, <1>8, <1>12, <2>3
    <3> QED BY <2>1, <2>3, <3>1 DEF Usage
  <2>4. CASE phase'[s] = "end"
    <3>1. recorded'[s].requests = 1 => (recorded'[s].tokens = 1 <=> UsageReported(resp'[s]))
      BY <1>1, <1>2, <1>8, <1>12, <2>4 DEF StreamInv, Requests
    <3> QED BY <2>1, <2>4, <3>1 DEF Usage
  <2> QED BY <1>12, <2>2, <2>3, <2>4
<1>19. Routing(s)'
  BY <1>1, <1>2, <1>8, <1>12 DEF StreamInv, Routing, Chosen
<1>20. Admission(s)'
  BY <1>12 DEF Admission
<1>21. Gauge'
  BY <1>1, <1>2, <1>8, <1>12, <1>10, GaugeKept DEF Counts, Forwarded
<1> QED BY <1>10, <1>11, <1>13, <1>14, <1>15, <1>16, <1>17, <1>18, <1>19, <1>20, <1>21, StepOf DEF StreamInv

-----------------------------------------------------------------------------
(* Sending.                                                                  *)

\* A context that may be sent from.
LEMMA MayBeSent ==
  ASSUME Inv, NEW s \in Streams
  PROVE  Waiting(ctx[s]) /\ sent[s] \in Seq(Messages) /\ ctx[s].state \in RequestStates
<1>1. TypeOK /\ Replies(s)
  BY DEF Inv, StreamInv
<1>2. ctx[s] \in Contexts /\ sent[s] \in Seq(Messages)
  BY <1>1 DEF TypeOK
<1> QED BY <1>1, <1>2 DEF Replies, Waiting, Contexts

\* Values of Top.
LEMMA Tops ==
  /\ Top[0] = 0 /\ Top[1] = 1 /\ Top[2] = 2 /\ Top[4] = 2 /\ Top[5] = 4 /\ Top[6] = 4
BY DEF Top, RequestStates

\* Messages that follow a state continue what the stream has been sent.
LEMMA SendOrder ==
  ASSUME Inv, NEW s \in Streams, Open(s), NEW q \in Seq(Messages), Ordered(q),
         \A i \in DOMAIN q : Following(ctx[s].state, q[i].kind)
  PROVE  Ordered(sent[s] \o q)
<1>1. sent[s] \in Seq(Messages) /\ Ordered(sent[s]) /\ ctx[s].state \in {0, 1, 2, 4, 5, 6}
  BY MayBeSent, SentSoFar DEF RequestStates
<1>2. ASSUME NEW i \in DOMAIN sent[s], NEW j \in DOMAIN q
      PROVE  MayPrecede(sent[s][i], q[j])
  <2>1. /\ Rank[sent[s][i].kind] <= Top[ctx[s].state]
        /\ ctx[s].state = 5 => ~(sent[s][i].kind = "respBody" /\ sent[s][i].eos)
    BY DEF Inv, StreamInv, Replies, Ends
  <2>2. sent[s][i] \in Messages /\ q[j] \in Messages
    BY <1>1
  <2>3. PICK m, n : /\ m = sent[s][i].kind /\ n = q[j].kind /\ m \in Kinds
                    /\ Rank[m] <= Top[ctx[s].state] /\ Following(ctx[s].state, n)
    BY <2>1, <2>2, MessageType
  <2>4. CASE ctx[s].state = 0
    BY <2>3, <2>4, Ranks, Tops DEF Kinds
  <2>5. CASE ctx[s].state = 1
    <3>1. m = "reqHeaders" /\ n = "reqBody"
      BY <2>3, <2>5, Ranks, Tops DEF Kinds, Following
    <3> QED BY <2>3, <3>1, Ranks DEF MayPrecede
  <2>6. CASE ctx[s].state = 4
    <3>1. m \in {"reqHeaders", "reqBody"} /\ n \in {"respHeaders", "respBody"}
      BY <2>3, <2>6, Ranks, Tops DEF Kinds, Following
    <3> QED BY <2>3, <3>1, Ranks DEF MayPrecede
  <2>7. CASE ctx[s].state = 5
    <3>1. m \in Kinds \ {"immediate"} /\ n = "respBody"
      BY <2>3, <2>7, Ranks, Tops DEF Kinds, Following
    <3>2. m = "respBody" => ~sent[s][i].eos
      BY <2>1, <2>3, <2>7, Zenon
    <3>3. Rank[m] <= Rank[n]
      BY <3>1, Ranks DEF Kinds
    <3> QED BY <2>3, <3>1, <3>2, <3>3, Zenon DEF MayPrecede
  <2> QED BY <2>3, <2>4, <2>5, <2>6, <2>7 DEF Following
<1> QED BY <1>1, <1>2, Concatenated

\* Nothing is sent while the picker has no answer to the request's headers.
LEMMA SilentSend ==
  ASSUME NEW c \in Contexts, c.state = 0, c.reqHeaderResp = Absent, NEW out, out = ToSend(c)
  PROVE  out.msgs = <<>> /\ ~out.starts /\ out.ctx.state = 0
<1>1. /\ ~(c.state = 0 /\ c.reqHeaderResp # Absent) /\ ~(c.state = 1)
      /\ ~(c.state = 4 /\ c.respHeaderResp) /\ ~(c.state = 5)
  OBVIOUS
<1>2. out.msgs = <<>> \o <<>> \o <<>> \o <<>>
  BY <1>1 DEF ToSend
<1>3. ~out.starts
  BY <1>1 DEF ToSend
<1>4. out.ctx.state = 0
  BY <1>1 DEF ToSend, Contexts
<1> QED BY <1>2, <1>3, <1>4

\* What can be sent is sent.
LEMMA UpdateStateAndSendIfNeededStep ==
  ASSUME Inv, NEW s \in Streams, UpdateStateAndSendIfNeeded(s)
  PROVE  Inv'
<1>1. TypeOK /\ StreamInv(s) /\ Gauge
  BY DEF Inv
<1>2. /\ phase' = phase /\ next' = next /\ req' = req /\ resp' = resp /\ body' = body /\ err' = err
      /\ targets' = targets /\ todo' = todo /\ recorded' = recorded /\ load' = load /\ pool' = pool
      /\ podSet' = podSet /\ metrics' = metrics /\ changes' = changes /\ ever' = ever /\ always' = always
      /\ crashed' = crashed /\ pc[s] = "send"
  BY DEF UpdateStateAndSendIfNeeded, storeVars
<1>3. PICK out : out = ToSend(ctx[s])
  OBVIOUS
<1>4. /\ Waiting(ctx[s]) /\ sent[s] \in Seq(Messages) /\ ctx[s].state \in {0, 1, 2, 4, 5, 6} /\ Open(s)
      /\ ctx[s].isRunning \in BOOLEAN
  BY <1>1, <1>2, MayBeSent DEF RequestStates, Open, TypeOK, Contexts
<1>5. /\ out.msgs \in Seq(Messages) /\ Ordered(out.msgs)
      /\ \A i \in DOMAIN out.msgs :
           /\ Following(ctx[s].state, out.msgs[i].kind)
           /\ Rank[out.msgs[i].kind] <= Top[out.ctx.state]
           /\ out.msgs[i].kind = "reqHeaders" => out.msgs[i] = ctx[s].reqHeaderResp /\ out.msgs[i] # Absent
      /\ out.starts \in BOOLEAN /\ (out.starts <=> Ends(out.msgs, "reqBody"))
      /\ out.starts => ctx[s].reqBodyResp # <<>>
      /\ Ends(out.msgs, "respBody") => Ends(ctx[s].respBodyResp, "respBody") /\ out.ctx.state # 5
  BY <1>3, <1>4, SendTypes
<1>6. /\ Waiting(out.ctx)
      /\ out.ctx.model = ctx[s].model /\ out.ctx.streaming = ctx[s].streaming /\ out.ctx.status = ctx[s].status
      /\ out.ctx.reqHeaderResp = ctx[s].reqHeaderResp
      /\ out.ctx.isRunning = (ctx[s].isRunning \/ out.starts)
      /\ out.ctx.reqBodyResp \in {<<>>, ctx[s].reqBodyResp} /\ out.ctx.respBodyResp \in {<<>>, ctx[s].respBodyResp}
      /\ Moves(ctx[s].state, out.ctx.state)
  BY <1>3, <1>4, SendContext
<1>7. PICK q : /\ q = sent[s] \o out.msgs /\ q \in Seq(Messages) /\ Ordered(q)
               /\ \A k : Ends(q, k) <=> Ends(sent[s], k) \/ Ends(out.msgs, k)
               /\ \A i \in DOMAIN q :
                    (\E j \in DOMAIN sent[s] : q[i] = sent[s][j]) \/ (\E j \in DOMAIN out.msgs : q[i] = out.msgs[j])
  <2>1. Ordered(sent[s] \o out.msgs)
    BY <1>4, <1>5, SendOrder
  <2>2. \A k : Ends(sent[s] \o out.msgs, k) <=> Ends(sent[s], k) \/ Ends(out.msgs, k)
    BY <1>4, <1>5, ConcatEnds
  <2> WITNESS sent[s] \o out.msgs
  <2> QED BY <1>4, <1>5, <2>1, <2>2, ConcatElements
<1>8. /\ pc' = [pc EXCEPT ![s] = "recv"] /\ sent' = [sent EXCEPT ![s] = q] /\ ctx' = [ctx EXCEPT ![s] = out.ctx]
      /\ IF out.starts THEN AddRunning(ctx[s].model, 1) ELSE running' = running
  BY <1>3, <1>7 DEF UpdateStateAndSendIfNeeded, Goto
<1>9. /\ \A i \in DOMAIN sent[s] : sent[s][i].kind \in Kinds /\ Rank[sent[s][i].kind] <= Top[ctx[s].state]
      /\ ctx[s].state \in {0, 1} => ~Ends(sent[s], "reqBody")
      /\ ctx[s].state \in {4, 5} => ~Ends(sent[s], "respBody")
  <2>1. \A i \in DOMAIN sent[s] : sent[s][i] \in Messages
    BY <1>4
  <2>2. \A i \in DOMAIN sent[s] : sent[s][i].kind \in Kinds /\ Rank[sent[s][i].kind] <= Top[ctx[s].state]
    BY <1>1, <1>4, <2>1, MessageType DEF StreamInv, Replies
  <2>3. ctx[s].state \in {0, 1} => ~Ends(sent[s], "reqBody")
    BY <2>2, Tops, Ranks DEF Ends
  <2>4. ctx[s].state = 4 => ~Ends(sent[s], "respBody")
    BY <2>2, Tops, Ranks DEF Ends
  <2>5. ctx[s].state = 5 => ~Ends(sent[s], "respBody")
    BY <1>1, <1>4 DEF StreamInv, Replies
  <2> QED BY <2>2, <2>3, <2>4, <2>5
<1>10. OnlyOf(s)
  BY <1>1, <1>2, <1>8 DEF OnlyOf, View, TypeOK
<1>11. TypeOK'
  <2>1. pc' \in [Streams -> PCs]
    BY <1>1, <1>8 DEF TypeOK, PCs
  <2>2. ctx' \in [Streams -> Contexts]
    BY <1>1, <1>6, <1>8 DEF TypeOK, Waiting
  <2>3. sent' \in [Streams -> Seq(Messages)]
    BY <1>1, <1>7, <1>8 DEF TypeOK
  <2>4. running' \in [Models -> Int]
    BY <1>1, <1>8 DEF TypeOK, AddRunning
  <2> QED BY <1>1, <1>2, <2>1, <2>2, <2>3, <2>4 DEF TypeOK
<1>12. pc'[s] = "recv" /\ sent'[s] = q /\ ctx'[s] = out.ctx
  BY <1>1, <1>8 DEF TypeOK
<1>13. Exchange(s)'
  BY <1>1, <1>2, <1>6, <1>12 DEF StreamInv, Exchange
<1>14. Located(s)'
  <2>1. phase[s] \in RequestPhases => Silent(s)'
    <3>1. SUFFICES ASSUME phase[s] \in RequestPhases PROVE Silent(s)'
      OBVIOUS
    <3>2. Silent(s) /\ ctx[s] \in Contexts
      BY <1>1, <1>4, <3>1 DEF StreamInv, Located, TypeOK
    <3>3. out.msgs = <<>> /\ ~out.starts /\ out.ctx.state = 0
      BY <1>3, <1>4, <3>2, SilentSend DEF Silent
    <3>4. q = <<>>
      BY <1>7, <3>2, <3>3 DEF Silent
    <3>5. out.ctx.isRunning = FALSE
      <4>1. ctx[s].isRunning = FALSE /\ out.starts = FALSE
        BY <1>4, <1>5, <3>2, <3>3, Zenon DEF Silent
      <4> QED BY <1>6, <4>1, Zenon
    <3>6. out.ctx.reqHeaderResp = Absent /\ out.ctx.reqBodyResp = <<>>
      BY <1>6, <3>2 DEF Silent
    <3> QED BY <1>2, <1>12, <3>2, <3>3, <3>4, <3>5, <3>6 DEF Silent
  <2>2. phase[s] \in ResponsePhases <=> out.ctx.state \in {4, 5, 6}
    BY <1>1, <1>4, <1>6 DEF StreamInv, Located, Moves
  <2> QED BY <1>2, <1>12, <2>1, <2>2 DEF Located, Director, Open
<1>15. Replies(s)'
  <2>1. Top[ctx[s].state] \in Int /\ Top[out.ctx.state] \in Int /\ Top[ctx[s].state] <= Top[out.ctx.state]
    BY <1>4, <1>6, Tops DEF Moves
  <2>2. \A i \in DOMAIN sent[s] : Rank[sent[s][i].kind] <= Top[out.ctx.state]
    BY <1>9, <2>1, Ranks DEF Kinds
  <2>3. \A i \in DOMAIN q : Rank[q[i].kind] <= Top[out.ctx.state]
    BY <1>7, <1>5, <2>2
  <2>4. out.ctx.state = 5 => ~Ends(q, "respBody")
    BY <1>7, <1>5, <1>6, <1>9, <1>4 DEF Moves
  <2> QED BY <1>7, <1>6, <1>12, <2>3, <2>4 DEF Replies, Waiting
<1>16. Requests(s)'
  <2>1. out.starts => recorded[s].requests = 1
    BY <1>1, <1>5 DEF StreamInv, Requests
  <2>2. Ends(q, "reqBody") <=> Ends(sent[s], "reqBody") \/ out.starts
    BY <1>7, <1>5
  <2>3. ctx[s].isRunning <=> Ends(sent[s], "reqBody")
    BY <1>1, <1>4 DEF StreamInv, Requests
  <2>4. out.ctx.isRunning <=> Ends(q, "reqBody")
    BY <1>6, <1>4, <1>5, <2>2, <2>3
  <2>5. Ends(q, "reqBody") \/ out.ctx.reqBodyResp # <<>> => recorded[s].requests = 1
    BY <1>1, <1>6, <2>1, <2>2 DEF StreamInv, Requests
  <2> QED BY <1>1, <1>2, <1>12, <2>4, <2>5 DEF StreamInv, Requests
<1>17. Errors(s)'
  BY <1>1, <1>2, <1>4, <1>12 DEF StreamInv, Errors, Open
<1>18. Usage(s)'
  <2>1. Ends(q, "respBody") \/ Ends(out.ctx.respBodyResp, "respBody")
          => Ends(sent[s], "respBody") \/ Ends(ctx[s].respBodyResp, "respBody")
    <3>1. Ends(q, "respBody") => Ends(sent[s], "respBody") \/ Ends(out.msgs, "respBody")
      BY <1>7
    <3>2. Ends(out.msgs, "respBody") => Ends(ctx[s].respBodyResp, "respBody")
      BY <1>5
    <3>3. ~Ends(<<>>, "respBody")
      BY DEF Ends
    <3>4. Ends(out.ctx.respBodyResp, "respBody") => Ends(ctx[s].respBodyResp, "respBody")
      BY <1>6, <3>3
    <3> QED BY <3>1, <3>2, <3>4, Zenon
  <2> QED BY <1>1, <1>2, <1>12, <2>1 DEF StreamInv, Usage
<1>19. Routing(s)'
  <2>1. \A i \in DOMAIN q : q[i].kind = "reqHeaders" => q[i] = out.ctx.reqHeaderResp /\ q[i] # Absent
    <3>1. out.ctx.reqHeaderResp = ctx[s].reqHeaderResp
      BY <1>6
    <3>2. \A i \in DOMAIN sent[s] : sent[s][i].kind = "reqHeaders"
            => sent[s][i] = ctx[s].reqHeaderResp /\ sent[s][i] # Absent
      BY <1>1 DEF StreamInv, Routing
    <3>3. \A i \in DOMAIN out.msgs : out.msgs[i].kind = "reqHeaders"
            => out.msgs[i] = ctx[s].reqHeaderResp /\ out.msgs[i] # Absent
      BY <1>5
    <3>4. \A i \in DOMAIN q :
            (\E j \in DOMAIN sent[s] : q[i] = sent[s][j]) \/ (\E j \in DOMAIN out.msgs : q[i] = out.msgs[j])
      BY <1>7
    <3> QED BY <3>1, <3>2, <3>3, <3>4
  <2> QED BY <1>1, <1>2, <1>6, <1>12, <2>1 DEF StreamInv, Routing, Chosen
<1>20. Admission(s)'
  BY <1>12 DEF Admission
<1>21. Gauge'
  <2>1. CASE out.starts
    <3>1. ctx[s].state \in {0, 1}
      BY <1>5, <2>1 DEF Ends, Following
    <3>2. ~Forwarded(s) /\ Forwarded(s)'
      BY <1>9, <1>7, <1>5, <1>12, <2>1, <3>1 DEF Forwarded
    <3> QED BY <1>1, <1>8, <1>6, <1>12, <1>10, <2>1, <3>2, GaugeInc DEF Counts
  <2>2. CASE ~out.starts
    <3>1. Forwarded(s)' <=> Forwarded(s)
      BY <1>7, <1>5, <1>12, <2>2 DEF Forwarded
    <3> QED BY <1>1, <1>2, <1>8, <1>6, <1>12, <1>10, <2>2, <3>1, GaugeKept DEF Counts
  <2> QED BY <2>1, <2>2
<1> QED BY <1>10, <1>11, <1>13, <1>14, <1>15, <1>16, <1>17, <1>18, <1>19, <1>20, <1>21, StepOf DEF StreamInv

\* A send that fails, after some of the messages, ends the stream.
LEMMA SendFailsStep ==
  ASSUME Inv, NEW s \in Streams, SendFails(s)
  PROVE  Inv'
<1>1. PICK out : out = ToSend(ctx[s])
  OBVIOUS
<1>2. /\ Waiting(ctx[s]) /\ sent[s] \in Seq(Messages) /\ Open(s) /\ StreamInv(s) /\ sent \in [Streams -> Seq(Messages)]
  BY MayBeSent DEF SendFails, Open, Inv, TypeOK
<1>3. /\ out.msgs \in Seq(Messages) /\ Ordered(out.msgs)
      /\ \A i \in DOMAIN out.msgs :
           /\ Following(ctx[s].state, out.msgs[i].kind)
           /\ out.msgs[i].kind = "reqHeaders" => out.msgs[i] = ctx[s].reqHeaderResp /\ out.msgs[i] # Absent
      /\ Ends(out.msgs, "reqBody") => ctx[s].reqBodyResp # <<>>
      /\ Ends(out.msgs, "respBody") => Ends(ctx[s].respBodyResp, "respBody")
  BY <1>1, <1>2, SendTypes
<1>4. PICK k \in 0..(Len(out.msgs) - 1) : sent' = [sent EXCEPT ![s] = @ \o SubSeq(out.msgs, 1, k)]
  BY <1>1 DEF SendFails
<1>5. PICK p : /\ p = SubSeq(out.msgs, 1, k) /\ p \in Seq(Messages) /\ Ordered(p)
               /\ \A i \in DOMAIN p : i \in DOMAIN out.msgs /\ p[i] = out.msgs[i]
               /\ \A kind : Ends(p, kind) => Ends(out.msgs, kind)
  <2> WITNESS SubSeq(out.msgs, 1, k)
  <2> QED BY <1>3, Prefix
<1>6. PICK q : q = sent[s] \o p
  OBVIOUS
<1>7. /\ q \in Seq(Messages) /\ Ordered(q)
      /\ \A kind : Ends(q, kind) <=> Ends(sent[s], kind) \/ Ends(p, kind)
      /\ \A i \in DOMAIN q : (\E j \in DOMAIN sent[s] : q[i] = sent[s][j]) \/ (\E j \in DOMAIN p : q[i] = p[j])
  <2>1. Ordered(q)
    BY <1>2, <1>3, <1>5, <1>6, SendOrder
  <2>2. \A kind : Ends(q, kind) <=> Ends(sent[s], kind) \/ Ends(p, kind)
    <3>1. sent[s] \in Seq(Messages) /\ p \in Seq(Messages)
      BY <1>2, <1>5
    <3>2. \A kind : Ends(sent[s] \o p, kind) <=> Ends(sent[s], kind) \/ Ends(p, kind)
      BY <3>1, ConcatEnds
    <3> QED BY <3>2, <1>6
  <2>3. q \in Seq(Messages)
    BY <1>2, <1>5, <1>6
  <2>4. \A i \in DOMAIN q : (\E j \in DOMAIN sent[s] : q[i] = sent[s][j]) \/ (\E j \in DOMAIN p : q[i] = p[j])
    <3>1. sent[s] \in Seq(Messages) /\ p \in Seq(Messages)
      BY <1>2, <1>5
    <3>2. \A i \in DOMAIN (sent[s] \o p) :
            \/ \E j \in DOMAIN sent[s] : (sent[s] \o p)[i] = sent[s][j]
            \/ \E j \in DOMAIN p : (sent[s] \o p)[i] = p[j]
      BY <3>1, ConcatElements
    <3> QED BY <3>2, <1>6, Zenon
  <2> QED BY <2>1, <2>2, <2>3, <2>4
<1>8. sent' = [sent EXCEPT ![s] = q]
  BY <1>4, <1>5, <1>6
<1>9. ~Ends(q, "immediate")
  <2>1. ~Ends(out.msgs, "immediate")
    BY <1>3 DEF Ends, Following
  <2> QED BY <1>2, <1>5, <1>6, <1>7, <2>1, SentSoFar
<1>10. Ends(q, "reqBody") => recorded[s].requests = 1
  BY <1>2, <1>3, <1>5, <1>6, <1>7 DEF StreamInv, Requests
<1>11. Ends(q, "respBody") => Ends(sent[s], "respBody") \/ Ends(ctx[s].respBodyResp, "respBody")
  BY <1>3, <1>5, <1>6, <1>7
<1>12. \A i \in DOMAIN q : q[i].kind = "reqHeaders" => q[i] = ctx[s].reqHeaderResp /\ q[i] # Absent
  BY <1>2, <1>3, <1>5, <1>6, <1>7 DEF StreamInv, Routing
<1>13. /\ Close(s, Absent)
       /\ UNCHANGED <<phase, next, req, resp, ctx, body, targets, todo, storeVars, ever, always, crashed>>
  BY DEF SendFails
<1> QED BY <1>2, <1>6, <1>7, <1>8, <1>9, <1>10, <1>11, <1>12, <1>13, CloseStep

-----------------------------------------------------------------------------
(* Return, and changes of the store.                                         *)

\* A stream that is gone is as it was before it came, and owes nothing.
LEMMA ReturnStep ==
  ASSUME Inv, NEW s \in Streams, Return(s)
  PROVE  Inv'
<1>1. TypeOK /\ StreamInv(s) /\ Gauge /\ pc[s] = "closed"
  BY DEF Inv, Return
<1>2. running' = running /\ load' = load /\ pool' = pool /\ podSet' = podSet /\ metrics' = metrics
      /\ changes' = changes /\ crashed' = crashed
  BY DEF Return, storeVars
<1>3. PICK e, b, n : e = EmptyCtx /\ b = [req |-> 0, resp |-> 0] /\ n = NoRecords
  OBVIOUS
<1>4. /\ e \in Contexts /\ e.state = 0 /\ e.reqHeaderResp = Absent /\ e.reqBodyResp = <<>> /\ e.respBodyResp = <<>>
      /\ b \in [req : Nat, resp : Nat] /\ n \in Records
      /\ n.requests = 0 /\ n.errors = 0 /\ n.tokens = 0 /\ n.latencies = 0
  BY <1>3 DEF EmptyCtx, Contexts, RequestStates, NoRecords, Records
<1>5. /\ pc' = [pc EXCEPT ![s] = "returned"] /\ phase' = [phase EXCEPT ![s] = "end"] /\ next' = [next EXCEPT ![s] = 1]
      /\ req' = [req EXCEPT ![s] = Absent] /\ resp' = [resp EXCEPT ![s] = Absent] /\ ctx' = [ctx EXCEPT ![s] = e]
      /\ body' = [body EXCEPT ![s] = b] /\ err' = [err EXCEPT ![s] = Absent]
      /\ targets' = [targets EXCEPT ![s] = {}] /\ todo' = [todo EXCEPT ![s] = {}]
      /\ sent' = [sent EXCEPT ![s] = <<>>] /\ recorded' = [recorded EXCEPT ![s] = n]
      /\ ever' = [ever EXCEPT ![s] = {}] /\ always' = [always EXCEPT ![s] = {}]
  BY <1>3 DEF Return, Goto
<1>6. OnlyOf(s)
  BY <1>1, <1>2, <1>5 DEF OnlyOf, View, TypeOK
<1>7. TypeOK'
  <2>1. pc' \in [Streams -> PCs] /\ phase' \in [Streams -> Phases] /\ next' \in [Streams -> Nat \ {0}]
    BY <1>1, <1>5 DEF TypeOK, PCs, Phases, ResponsePhases
  <2>2. /\ DOMAIN req' = Streams /\ DOMAIN resp' = Streams
        /\ req' = [t \in Streams |-> req'[t]] /\ resp' = [t \in Streams |-> resp'[t]]
    BY <1>1, <1>5 DEF TypeOK
  <2>3. ctx' \in [Streams -> Contexts] /\ body' \in [Streams -> [req : Nat, resp : Nat]]
    BY <1>1, <1>4, <1>5 DEF TypeOK
  <2>4. err' \in [Streams -> Codes \cup {Absent}] /\ recorded' \in [Streams -> Records]
    BY <1>1, <1>4, <1>5 DEF TypeOK
  <2>5. sent' \in [Streams -> Seq(Messages)]
    BY <1>1, <1>5 DEF TypeOK
  <2>6. /\ targets' \in [Streams -> SUBSET Pods] /\ todo' \in [Streams -> SUBSET Pods]
        /\ ever' \in [Streams -> SUBSET Pods] /\ always' \in [Streams -> SUBSET Pods]
    BY <1>1, <1>5 DEF TypeOK
  <2> QED BY <1>1, <1>2, <2>1, <2>2, <2>3, <2>4, <2>5, <2>6 DEF TypeOK
<1>8. /\ pc'[s] = "returned" /\ phase'[s] = "end" /\ ctx'[s] = e /\ sent'[s] = <<>> /\ recorded'[s] = n
  BY <1>1, <1>5 DEF TypeOK
<1>9. \A k : ~Ends(<<>>, k)
  BY DEF Ends
<1>10. Exchange(s)'
  BY <1>8 DEF Exchange
<1>11. Located(s)'
  BY <1>8 DEF Located, Director, Open
<1>12. Replies(s)'
  BY <1>4, <1>8 DEF Replies, Open, Ordered
<1>13. Requests(s)'
  BY <1>4, <1>8, <1>9 DEF Requests, Open
<1>14. Errors(s)' /\ Admission(s)'
  BY <1>8 DEF Errors, Open, Admission
<1>15. Usage(s)'
  BY <1>4, <1>8, <1>9 DEF Usage, ResponsePhases
<1>16. Routing(s)'
  BY <1>4, <1>8 DEF Routing
<1>17. Gauge'
  <2>1. \A m : ~Counts(s, m) /\ ~Counts(s, m)'
    BY <1>1, <1>8, <1>9 DEF Counts, Forwarded
  <2> QED BY <1>1, <1>2, <1>6, <2>1, GaugeKept
<1> QED BY <1>6, <1>7, <1>10, <1>11, <1>12, <1>13, <1>14, <1>15, <1>16, <1>17, StepOf DEF StreamInv

\* A change of the store is seen by the streams whose pods are being checked.
LEMMA ChangeStoreStep ==
  ASSUME Inv, ChangeStore
  PROVE  Inv'
<1>1. TypeOK /\ Gauge
  BY DEF Inv
<1>2. /\ load' = load /\ pc' = pc /\ phase' = phase /\ next' = next /\ req' = req /\ resp' = resp
      /\ ctx' = ctx /\ body' = body /\ err' = err /\ targets' = targets /\ todo' = todo /\ sent' = sent
      /\ recorded' = recorded /\ running' = running /\ crashed' = crashed
  BY DEF ChangeStore, streamVars
<1>3. /\ ever' = [s \in Streams |-> ever[s] \cup {p \in todo[s] : GoodCapacity(metrics'[p])}]
      /\ always' = [s \in Streams |-> {p \in always[s] : p \in todo[s] => GoodCapacity(metrics'[p])}]
      /\ changes' = changes + 1
  BY DEF ChangeStore
<1>4. pool' \in Ports \cup {Absent} /\ podSet' \in SUBSET Pods /\ metrics' \in [Pods -> Metrics]
  BY <1>1, ZenonT(30) DEF ChangeStore, TypeOK
<1>5. TypeOK'
  <2>1. ever' \in [Streams -> SUBSET Pods] /\ always' \in [Streams -> SUBSET Pods]
    BY <1>1, <1>3 DEF TypeOK
  <2>2. changes' \in Nat
    BY <1>1, <1>3 DEF TypeOK
  <2> QED BY <1>1, <1>2, <1>4, <2>1, <2>2 DEF TypeOK
<1>6. ASSUME NEW s \in Streams
      PROVE  StreamInv(s)'
  <2>1. StreamInv(s)
    BY DEF Inv
  <2>2. Exchange(s)'
    BY <1>2, <2>1 DEF StreamInv, Exchange
  <2>3. Located(s)'
    BY <1>2, <2>1 DEF StreamInv, Located, Silent, Open
  <2>4. Replies(s)' /\ Requests(s)' /\ Errors(s)'
    BY <1>2, <2>1 DEF StreamInv, Replies, Requests, Errors, Open
  <2>5. Usage(s)'
    BY <1>2, <2>1 DEF StreamInv, Usage
  <2>6. Routing(s)'
    BY <1>2, <2>1 DEF StreamInv, Routing, Chosen
  <2>7. Admission(s)'
    <3>1. /\ pc[s] = "saturated" => /\ always[s] \subseteq Good(s) /\ Good(s) \subseteq ever[s]
                                    /\ CriticalityOf(req[s]) < 2
          /\ pc[s] = "shed" => CriticalityOf(req[s]) < 2 /\ always[s] = {}
          /\ pc[s] \in {"schedule", "prepare"} /\ CriticalityOf(req[s]) < 2 => ever[s] # {}
      BY <2>1 DEF StreamInv, Admission
    <3>2. /\ ever'[s] = ever[s] \cup {p \in todo[s] : GoodCapacity(metrics'[p])}
          /\ always'[s] = {p \in always[s] : p \in todo[s] => GoodCapacity(metrics'[p])}
      BY <1>3
    <3>3. Good(s)' = {p \in todo[s] : GoodCapacity(metrics'[p])}
      BY <1>2 DEF Good
    <3>4. Good(s) \subseteq todo[s]
      BY DEF Good
    <3>5. pc[s] = "saturated" => always'[s] \subseteq Good(s)' /\ Good(s)' \subseteq ever'[s]
      BY <3>1, <3>2, <3>3, <3>4
    <3>6. ever[s] # {} => ever'[s] # {}
      BY <3>2
    <3>7. always[s] = {} => always'[s] = {}
      BY <3>2
    <3>8. CriticalityOf(req'[s]) = CriticalityOf(req[s])
      BY <1>2
    <3> QED BY <1>2, <3>1, <3>5, <3>6, <3>7, <3>8 DEF Admission
  <2> QED BY <2>2, <2>3, <2>4, <2>5, <2>6, <2>7 DEF StreamInv
<1>7. Gauge'
  BY <1>1, <1>2 DEF Gauge, Running, Forwarded
<1> QED BY <1>5, <1>6, <1>7 DEF Inv

-----------------------------------------------------------------------------
(* The theorems.                                                             *)

\* Before any message, no stream has been sent or counted anything.
LEMMA InitInv ==
  ASSUME Init
  PROVE  Inv
<1>1. PICK e, b, n : e = EmptyCtx /\ b = [req |-> 0, resp |-> 0] /\ n = NoRecords
  OBVIOUS
<1>2. /\ e \in Contexts /\ e.state = 0 /\ e.reqHeaderResp = Absent /\ e.reqBodyResp = <<>> /\ e.respBodyResp = <<>>
      /\ ~e.isRunning /\ b \in [req : Nat, resp : Nat] /\ n \in Records
      /\ n.requests = 0 /\ n.errors = 0 /\ n.tokens = 0 /\ n.latencies = 0
  BY <1>1 DEF EmptyCtx, Contexts, RequestStates, NoRecords, Records
<1>3. /\ load \in Loads
      /\ pc = [s \in Streams |-> "recv"] /\ phase = [s \in Streams |-> "new"] /\ next = [s \in Streams |-> 1]
      /\ req = [s \in Streams |-> Absent] /\ resp = [s \in Streams |-> Absent]
      /\ ctx = [s \in Streams |-> e] /\ body = [s \in Streams |-> b] /\ err = [s \in Streams |-> Absent]
      /\ targets = [s \in Streams |-> {}] /\ todo = [s \in Streams |-> {}]
      /\ sent = [s \in Streams |-> <<>>] /\ recorded = [s \in Streams |-> n]
      /\ running = [m \in Models |-> 0]
      /\ pool \in {1, Absent} /\ podSet \in {{}, Pods} /\ metrics \in [Pods -> Metrics] /\ changes = 0
      /\ ever = [s \in Streams |-> {}] /\ always = [s \in Streams |-> {}] /\ crashed = FALSE
  BY <1>1 DEF Init
<1>4. TypeOK
  <2>1. pc \in [Streams -> PCs] /\ phase \in [Streams -> Phases] /\ next \in [Streams -> Nat \ {0}]
    BY <1>3 DEF PCs, Phases, RequestPhases
  <2>2. ctx \in [Streams -> Contexts] /\ body \in [Streams -> [req : Nat, resp : Nat]] /\ recorded \in [Streams -> Records]
    BY <1>2, <1>3
  <2>3. running \in [Models -> Int] /\ sent \in [Streams -> Seq(Messages)]
    <3>1. <<>> \in Seq(Messages) /\ 0 \in Int
      OBVIOUS
    <3> QED BY <1>3, <3>1
  <2>4. crashed \in BOOLEAN
    BY <1>3, Zenon
  <2> QED BY <1>3, <2>1, <2>2, <2>3, <2>4 DEF TypeOK, Ports
<1>5. ASSUME NEW k PROVE ~Ends(<<>>, k)
  BY DEF Ends
<1>6. ASSUME NEW s \in Streams
      PROVE  StreamInv(s)
  <2>1. pc[s] = "recv" /\ phase[s] = "new" /\ ctx[s] = e /\ sent[s] = <<>> /\ recorded[s] = n /\ body[s] = b
    BY <1>3
  <2>2. Exchange(s)
    BY <2>1 DEF Exchange, ResponsePhases
  <2>3. Located(s)
    BY <1>2, <2>1 DEF Located, Silent, Director, ResponsePhases
  <2>4. Replies(s)
    BY <1>2, <2>1 DEF Replies, Ordered
  <2>5. Requests(s)
    BY <1>2, <1>5, <2>1 DEF Requests
  <2>6. Errors(s) /\ Admission(s)
    BY <1>2, <2>1 DEF Errors, Admission
  <2>7. Usage(s)
    BY <1>2, <1>5, <2>1 DEF Usage, ResponsePhases
  <2>8. Routing(s)
    BY <1>2, <2>1 DEF Routing
  <2> QED BY <2>2, <2>3, <2>4, <2>5, <2>6, <2>7, <2>8 DEF StreamInv
<1>7. Gauge
  <2>1. ASSUME NEW m \in Models
        PROVE  Running(m) = {}
    BY <1>3, <1>5 DEF Running, Forwarded
  <2> QED BY <1>3, <2>1, FS_EmptySet DEF Gauge
<1> QED BY <1>4, <1>6, <1>7 DEF Inv

\* Every step of a stream or of the store keeps the invariant.
LEMMA NextStep ==
  ASSUME Inv, [Next]_vars
  PROVE  Inv'
<1>1. CASE ChangeStore
  BY <1>1, ChangeStoreStep
<1>2. ASSUME NEW s \in Streams, FromEnvoy(s)
      PROVE  Inv'
  BY <1>2, RequestHeadersStep, RequestBodyStep, TrailersStep, ResponseHeadersStep, ResponseBodyStep, StreamEndsStep
     DEF FromEnvoy
<1>3. ASSUME NEW s \in Streams, Handler(s)
      PROVE  Inv'
  BY <1>3, RandomPodPortStep, AdmitRequestStep, CheckPodStep, ScheduleStep, PrepareRequestStep, ErrorResponseStep,
     UpdateStateAndSendIfNeededStep, SendFailsStep, ReturnStep DEF Handler, HandleRequest
<1>4. CASE UNCHANGED vars
  <2>1. /\ load' = load /\ pc' = pc /\ phase' = phase /\ next' = next /\ req' = req /\ resp' = resp
        /\ ctx' = ctx /\ body' = body /\ err' = err /\ targets' = targets /\ todo' = todo /\ sent' = sent
        /\ recorded' = recorded /\ running' = running /\ crashed' = crashed /\ ever' = ever /\ always' = always
        /\ pool' = pool /\ podSet' = podSet /\ metrics' = metrics /\ changes' = changes
    BY <1>4 DEF vars, streamVars, storeVars
  <2>2. TypeOK'
    BY <2>1 DEF Inv, TypeOK
  <2>3. \A s \in Streams : StreamInv(s)'
    BY <2>1, OthersKept DEF Inv, View
  <2>4. Gauge'
    BY <2>1 DEF Inv, Gauge, Running, Forwarded
  <2> QED BY <2>2, <2>3, <2>4 DEF Inv
<1> QED BY <1>1, <1>2, <1>3, <1>4 DEF Next

\* The inductive invariant, and with it the types, holds of every behaviour of
\* the request path.
THEOREM Invariance == Spec => []Inv
<1>1. Init => Inv
  BY InitInv
<1>2. Inv /\ [Next]_vars => Inv'
  BY NextStep
<1> QED BY <1>1, <1>2, PTL DEF Spec

\* "The order of response sent back MUST be: Header->Body->Trailer"
\* (updateStateAndSendIfNeeded): whatever Envoy sends and wherever a send
\* fails, replies are in order, headers and immediate responses come once, and
\* nothing follows the end of a body.
THEOREM RepliesInOrder == Spec => []ReplyOrder
<1>1. Inv => ReplyOrder
  BY DEF Inv, StreamInv, Replies, ReplyOrder
<1> QED BY <1>1, Invariance, PTL

\* Process's deferred function and the handlers count every stream's requests,
\* errors, latency and tokens at most once and the running gauge is exact,
\* however many streams end however they do.
THEOREM CountersTellOnce == Spec => []CountersExact
<1>1. Inv => CountersExact
  <2> SUFFICES ASSUME Inv PROVE CountersExact
    OBVIOUS
  <2>1. \A m \in Models :
          running[m] = Cardinality({s \in Streams : pc[s] # "closed" /\ Forwarded(s) /\ ctx[s].model = m})
    BY DEF Inv, Gauge, Running
  <2>2. ASSUME NEW s \in Streams
        PROVE  /\ \A f \in DOMAIN recorded[s] : recorded[s][f] <= 1
               /\ Forwarded(s) => recorded[s].requests = 1
               /\ Forwarded(s) /\ pc[s] = "recv" /\ Ends(sent[s], "respBody")
                    => (recorded[s].tokens = 1 <=> UsageReported(resp[s]))
               /\ pc[s] = "closed" => (recorded[s].errors = 1 <=> \/ Ends(sent[s], "immediate")
                                                                   \/ ctx[s].status
                                                                   \/ err[s] # Absent)
    <3>1. recorded[s] \in Records /\ StreamInv(s)
      BY DEF Inv, TypeOK
    <3>2. \A f \in DOMAIN recorded[s] : recorded[s][f] <= 1
      BY <3>1 DEF Records
    <3>3. Forwarded(s) => recorded[s].requests = 1
      BY <3>1 DEF StreamInv, Requests, Forwarded
    <3>4. Forwarded(s) /\ pc[s] = "recv" /\ Ends(sent[s], "respBody")
            => (recorded[s].tokens = 1 <=> UsageReported(resp[s]))
      BY <3>1, <3>3 DEF StreamInv, Usage
    <3>5. pc[s] = "closed" => (recorded[s].errors = 1 <=> \/ Ends(sent[s], "immediate")
                                                           \/ ctx[s].status
                                                           \/ err[s] # Absent)
      BY <3>1 DEF StreamInv, Errors
    <3> QED BY <3>2, <3>3, <3>4, <3>5
  <2> QED BY <2>1, <2>2 DEF CountersExact
<1> QED BY <1>1, Invariance, PTL

\* IsSaturated reads the pods one by one while their metrics change: a
\* request is shed only if it is below criticality 2 and no pod had capacity
\* from the listing until it was looked at, and such a request is let through
\* only if one had it at some moment, for any number of pods and changes.
THEOREM AdmissionIsSound == Spec => []AdmissionSound
<1>1. Inv => AdmissionSound
  BY DEF Inv, StreamInv, Admission, Good, AdmissionSound
<1> QED BY <1>1, Invariance, PTL

\* Whatever happens in between, a request goes where the director or the random
\* choice sent it, and within the subset Envoy asked for, for every pool.
THEOREM RoutingFollowsSchedule == Spec => []RoutedAsScheduled
<1>1. Inv => RoutedAsScheduled
  BY DEF Inv, StreamInv, Routing, Chosen, RoutedAsScheduled
<1> QED BY <1>1, Invariance, PTL
=============================================================================
