----------------------------- MODULE MCScheduling -----------------------------
EXTENDS Scheduling
B(h) == [head |-> <<h>>, rest |-> "rest"]
HashPrompts == {[model |-> "m", blocks |-> <<B("x"), B("x")>>], [model |-> "m", blocks |-> <<B("x"), B("y")>>]}
MCPrompts == {[model |-> "m", blocks |-> <<>>],
              [model |-> "n", blocks |-> <<B("x")>>],
              [model |-> "m", blocks |-> <<B("x"), B("y")>>]}
Pod(q, k) == [queue |-> q, kv |-> k, active |-> {}, waiting |-> {}, max |-> 1]
MCSnapshots == {("p1" :> Pod(0, 0)) @@ ("p2" :> Pod(0, 0)),
                ("p1" :> Pod(1, 30)) @@ ("p2" :> Pod(0, 30)),
                ("p1" :> [Pod(2, 30) EXCEPT !.active = {"m"}]) @@ ("p2" :> [Pod(0, 70) EXCEPT !.waiting = {"m"}])}
Default == [profiles |-> {"default"}, picker |-> "max-score", filters |-> <<>>]
MCConfigs == {Default, [Default EXCEPT !.profiles = {"default", "other"}, !.picker = "random"],
              [Default EXCEPT !.filters = <<{"p1"}, {"p2"}>>], [Default EXCEPT !.filters = <<{"p1"}>>]}
MCWeight == [queue |-> 1, kv |-> 1, lora |-> 1, prefix |-> 1]
=============================================================================
