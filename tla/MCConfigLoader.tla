-------------------------- MODULE MCConfigLoader --------------------------
\* The loader on every configuration of up to two plugins and two profiles.
EXTENDS ConfigLoader

MCRoles == [prefix |-> {"scorer", "postCycle"}] @@ ("queue" :> {"scorer"})
             @@ ("random" :> {"picker"}) @@ (MaxScorePicker :> {"picker"})
             @@ (SingleProfileHandler :> {"handler"}) @@ ("filter" :> {"filter"})

MCPlugins == {[name |-> n, type |-> t] : n \in {"", "x"}, t \in DOMAIN MCRoles \union {""}}
MCRefs == {[ref |-> r, weight |-> w] : r \in {"x", "queue", "random", "y"}, w \in {Nil, 2}}
MCProfiles == {<< >>}
     \union {<<[name |-> "p", plugins |-> s]>> : s \in SeqOf(MCRefs, 2)}
     \union {<<[name |-> "p", plugins |-> s], [name |-> n, plugins |-> << >>]>> :
               s \in SeqOf(MCRefs, 1), n \in {"p", "q"}}

MCRawConfigs == [plugins : SeqOf(MCPlugins, 2), profiles : MCProfiles]
=============================================================================
