-------------------------- MODULE MCServiceValues --------------------------
\* Pages, options and specifications for model checking the services.
EXTENDS Integers, Sequences, TLC

\* Metrics pages of a model server: two queue series of different age; a page
\* without a queue metric whose latest cache value cannot be read; and a page
\* whose queue metric is a counter, with no adapters in its latest series and
\* an empty name and blanks in the one before.
Series(t, v) == [kind |-> "gauge", ts |-> t, val |-> v, ok |-> TRUE]
LoRA(v, r, w, m) == [kind |-> "gauge", val |-> v, running |-> r, waiting |-> w, max |-> m, ok |-> TRUE]
SomePages ==
    [busy |-> [queue |-> <<Series(1, 0), Series(2, 2)>>, kv |-> <<Series(0, 1)>>,
               lora |-> <<LoRA(1, {"a"}, {}, 1), LoRA(2, {"b"}, {"a"}, 2), LoRA(1, {}, {}, 2)>>],
     partial |-> [queue |-> <<>>, kv |-> <<[Series(3, 3) EXCEPT !.ok = FALSE], Series(1, 2)>>,
                  lora |-> <<LoRA(3, {"a"}, {}, -1)>>],
     idle |-> [queue |-> <<[Series(1, 1) EXCEPT !.kind = "counter"]>>, kv |-> <<>>,
               lora |-> <<LoRA(1, {"a", " b", ""}, {}, -2), LoRA(3, {}, {}, 2)>>]]
AllSpecs == [queue |-> "valid", kv |-> "valid", lora |-> "valid"]
Trimmed(name) == IF name = " b" THEN "b" ELSE name

\* What a metrics extractor may be configured with.
SomeSpecifications == {AllSpecs, [AllSpecs EXCEPT !.kv = "", !.lora = ""],
                       [AllSpecs EXCEPT !.lora = "malformed"]}

\* Valid and invalid settings, one at a time, of each process.
EnvWith(f, v) == [x \in {"pool-name", "grpc-port", "secure-serving", "refresh-metrics-interval"} |->
                    IF x = f THEN v ELSE IF x = "pool-name" THEN "valid" ELSE ""]
GoodOptions == [prog |-> "epp", env |-> EnvWith("pool-name", "valid"), args |-> <<>>,
                config |-> "file", scheme |-> "http", metrics |-> "default", group |-> "known"]
SomeOptions ==
    {GoodOptions, [GoodOptions EXCEPT !.prog = "bbr"],
     [GoodOptions EXCEPT !.env = EnvWith("pool-name", "")],
     [GoodOptions EXCEPT !.scheme = "other"], [GoodOptions EXCEPT !.metrics = "malformed"],
     [GoodOptions EXCEPT !.group = "unknown"]}
    \union {[GoodOptions EXCEPT !.env = EnvWith(f, "invalid")] :
              f \in {"secure-serving", "refresh-metrics-interval"}}
    \union {[GoodOptions EXCEPT !.args = "grpc-port" :> "invalid"]}
    \union {[GoodOptions EXCEPT !.args = f :> "zero"] :
              f \in {"refresh-metrics-interval", "refresh-prometheus-metrics-interval"}}
    \union {[GoodOptions EXCEPT !.args = "help" :> "valid"],
            [GoodOptions EXCEPT !.env = EnvWith("refresh-metrics-interval", "invalid"),
                                !.args = "refresh-metrics-interval" :> "valid"]}
    \union {[GoodOptions EXCEPT !.config = c] : c \in {"none", "text", "both"}}

\* The settings among them that change how a process may end once it is set up.
RunOptions == {GoodOptions, [GoodOptions EXCEPT !.prog = "bbr"],
               [GoodOptions EXCEPT !.args = "refresh-prometheus-metrics-interval" :> "zero"]}
=============================================================================
