--------------------------- MODULE MCExtProcServer ---------------------------
(* Instances of ExtProcServer.  Body lengths are in units of which Limit = 2
   make the longest chunk. *)
EXTENDS ExtProcServer

Completion == [chunks |-> <<1, 2>>, trailers |-> FALSE, json |-> TRUE, model |-> "m", messages |-> Absent,
               prompt |-> "string", objective |-> "low", subset |-> Absent, out |-> 3]
\* One request per case of the handlers.
AllRequests ==
  {Completion,
   [Completion EXCEPT !.chunks = <<>>],
   [Completion EXCEPT !.chunks = <<1>>, !.trailers = TRUE],
   [Completion EXCEPT !.json = FALSE, !.chunks = <<1>>],
   [Completion EXCEPT !.messages = "other", !.chunks = <<1>>],
   [Completion EXCEPT !.model = Absent, !.chunks = <<1>>],
   [Completion EXCEPT !.messages = "list", !.prompt = Absent, !.subset = {"p1"}, !.chunks = <<1>>]}

Reply == [ok |-> TRUE, streaming |-> FALSE, json |-> TRUE, usage |-> "full", chunks |-> <<1, 1>>,
          trailers |-> FALSE, done |-> 0, out |-> 3]
AllReplies ==
  {Reply,
   [Reply EXCEPT !.chunks = <<>>, !.ok = FALSE],
   [Reply EXCEPT !.json = FALSE, !.ok = FALSE, !.chunks = <<3>>],
   [Reply EXCEPT !.usage = "partial", !.chunks = <<1>>],
   [Reply EXCEPT !.chunks = <<1>>, !.trailers = TRUE],
   [Reply EXCEPT !.usage = "none", !.chunks = <<1>>],
   [Reply EXCEPT !.streaming = TRUE, !.json = FALSE, !.chunks = <<1, 3>>, !.done = 2]}

\* One stream meets every case, or two streams meet each other.
Alone == [s \in Streams |-> IF s = "s1" THEN [req |-> AllRequests, resp |-> AllReplies]
                            ELSE [req |-> {}, resp |-> {}]]
Together == [s \in Streams |-> [req |-> {[Completion EXCEPT !.chunks = <<1>>, !.out = 1]},
                                resp |-> {[Reply EXCEPT !.chunks = <<>>]}]]
MCLoads == {Alone, Together}

MCMetrics == {[age |-> 200, queue |-> 5, kv |-> 80], [age |-> 0, queue |-> 6, kv |-> 0]}
MCCriticality == [low |-> Absent, critical |-> 2]
MCEnv == [queue |-> Absent, kv |-> 100, staleness |-> 0]
=============================================================================
