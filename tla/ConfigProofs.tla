---------------------------- MODULE ConfigProofs ----------------------------
(***************************************************************************)
(* What configurations come to, whatever an operator writes.               *)
(*                                                                         *)
(*   Loader    LoadedRunnable: the plugins a configuration names are in    *)
(*             the handle from the moment they are instantiated, and every *)
(*             profile has a picker once the defaults were set.            *)
(*   Registry  ShardsUsable and CapacityConserved: every shard built is    *)
(*             the part of a validated configuration; the rest is about    *)
(*             one part, its sorted priorities and the sums over parts.    *)
(***************************************************************************)
EXTENDS Configuration, Integers, Sequences, FiniteSets, FiniteSetTheorems,
        WellFoundedInduction, TLAPS

\* The strings of a configuration.
CONSTANT Names

-----------------------------------------------------------------------------
\* Every non-empty set of natural numbers has a least element: the induction
\* of the proofs below.
LEMMA LeastNumber ==
    ASSUME NEW T, T \subseteq Nat, T # {}
    PROVE  \E x \in T : \A y \in T : x <= y
<1>1. PICK x \in T : \A y \in T : <<y, x>> \notin OpToRel(<, Nat)
  BY NatLessThanWellFounded, WFMin
<1>2. \A y \in T : ~(y < x)
  BY <1>1 DEF OpToRel
<1> QED
  BY <1>2


\* Some element of a non-empty sequence of numbers is the largest.
LEMMA LargestElement ==
    ASSUME NEW n \in Nat \ {0}, NEW f, \A k \in 1 .. n : f[k] \in Int
    PROVE  \E m \in 1 .. n : \A k \in 1 .. n : f[k] <= f[m]
<1> DEFINE Has(j) == \E m \in 1 .. j : \A k \in 1 .. j : f[k] <= f[m]
           T == {j \in 1 .. n : ~Has(j)}
<1>1. CASE T = {}
  BY <1>1
<1>2. CASE T # {}
  <2>1. T \subseteq Nat
    OBVIOUS
  <2>2. PICK j \in T : \A l \in T : j <= l
    BY <1>2, <2>1, LeastNumber
  <2>3. j \in 1 .. n /\ ~Has(j)
    BY <2>2
  <2>4. CASE j = 1
    BY <2>3, <2>4
  <2>5. CASE j # 1
    <3>1. j - 1 \in 1 .. n /\ j - 1 \notin T
      <4>1. j - 1 \in 1 .. n /\ ~(j <= j - 1)
        BY <2>3, <2>5
      <4> HIDE DEF T
      <4> QED
        BY <2>2, <4>1
    <3>2. PICK m \in 1 .. j - 1 : \A k \in 1 .. j - 1 : f[k] <= f[m]
      BY <3>1
    <3>3. CASE f[j] <= f[m]
      <4>1. \A k \in 1 .. j : f[k] <= f[m]
        BY <2>3, <3>2, <3>3
      <4> QED
        BY <2>3, <3>2, <4>1
    <3>4. CASE ~(f[j] <= f[m])
      <4>1. \A k \in 1 .. j : f[k] <= f[j]
        BY <2>3, <3>2, <3>4
      <4> QED
        BY <2>3, <4>1
    <3> QED
      BY <3>3, <3>4
  <2> QED
    BY <2>4, <2>5
<1> QED
  BY <1>1, <1>2
-----------------------------------------------------------------------------
\* The configuration loader.

PluginSpecs == [name : Names, type : Names]
PluginRefs == [ref : Names, weight : Int]
Profiles == [name : Names, plugins : Seq(PluginRefs)]
Configs == [plugins : Seq(PluginSpecs), profiles : Seq(Profiles)]

\* What the loader relies on: a configuration that decodes has its fields, and
\* the in-tree picker is registered as one.  Names are the names and types
\* that configurations use and those of the defaults.
LoaderTyped ==
    /\ {"default", Loader!SingleProfileHandler, Loader!MaxScorePicker} \subseteq Names
    /\ RawConfigs \subseteq Configs
    /\ "picker" \in Roles[Loader!MaxScorePicker]

LEMMA LoaderCardinality == \A S : Loader!Cardinality(S) = Cardinality(S)
BY Zenon DEF Cardinality, Loader!Cardinality, Loader!IsFiniteSet, IsFiniteSet

LEMMA ConfigMade ==
    ASSUME NEW a \in Seq(PluginSpecs), NEW b \in Seq(Profiles), NEW c,
           c = [plugins |-> a, profiles |-> b]
    PROVE  c \in Configs /\ c.plugins = a /\ c.profiles = b
BY DEF Configs

\* The position of the first picker, or the one behind the last plugin.
LEMMA FirstPickerFound ==
    ASSUME NEW plugins \in Seq(PluginRefs)
    PROVE  LET at == {i \in DOMAIN plugins : "picker" \in Loader!RolesOf(plugins[i].ref)}
               first == Loader!FirstPicker(plugins)
           IN  \/ at = {} /\ first = Len(plugins) + 1
               \/ first \in at /\ \A j \in at : first <= j
<1> DEFINE at == {i \in DOMAIN plugins : "picker" \in Loader!RolesOf(plugins[i].ref)}
<1>1. at \subseteq Nat
  OBVIOUS
<1> HIDE DEF at
<1>2. CASE at = {}
  BY <1>2 DEF Loader!FirstPicker, at
<1>3. CASE at # {}
  <2>1. \E i \in at : \A j \in at : i <= j
    BY <1>1, <1>3, LeastNumber
  <2>2. Loader!FirstPicker(plugins) = CHOOSE i \in at : \A j \in at : i <= j
    BY <1>3 DEF Loader!FirstPicker, at
  <2> QED
    BY <2>1, <2>2 DEF at
<1> QED
  BY <1>2, <1>3

\* A profile's picker.
HasPicker(profile) == \E k \in DOMAIN profile.plugins : "picker" \in Loader!RolesOf(profile.plugins[k].ref)

\* The types; from the moment plugins are instantiated, the configured ones
\* are in the handle; the picker to add is one; every profile gets one.
LoaderInv ==
    /\ cfg \in Configs
    /\ IsFiniteSet(DOMAIN handle) /\ DOMAIN handle \subseteq Names
    /\ phase \in {"profiles", "handler", "picker", "weights", "validate", "load"} =>
         \A c \in DOMAIN cfg.plugins : cfg.plugins[c].name \in DOMAIN handle
    /\ phase = "weights" => picker \in Names /\ "picker" \in Loader!RolesOf(picker)
    /\ phase \in {"validate", "load"} => \A i \in DOMAIN cfg.profiles : HasPicker(cfg.profiles[i])
    /\ phase = "load" =>
         \A i \in DOMAIN cfg.profiles : \A k \in DOMAIN cfg.profiles[i].plugins :
            cfg.profiles[i].plugins[k].ref \in DOMAIN handle
    /\ Loader!LoadedRunnable
    /\ LoaderTyped

LEMMA LoaderInit == LoaderTyped /\ Loader!Init => LoaderInv
<1> SUFFICES ASSUME LoaderTyped, Loader!Init PROVE LoaderInv
  OBVIOUS
<1>1. DOMAIN handle = {}
  <2>1. handle = << >>
    BY DEF Loader!Init
  <2> QED
    BY <2>1
<1> QED
  BY <1>1, FS_EmptySet DEF LoaderTyped, Loader!Init, LoaderInv, Loader!LoadedRunnable

\* A profile gets a picker if it has none.
LEMMA PickerSet ==
    ASSUME NEW profile \in Profiles, picker \in Names, "picker" \in Loader!RolesOf(picker)
    PROVE  LET new == Loader!SetWeightsAndPicker(profile)
           IN  new \in Profiles /\ HasPicker(new)
<1> DEFINE plugins == profile.plugins
           first == Loader!FirstPicker(plugins)
           weighted == [i \in DOMAIN plugins |->
                          IF /\ i < first
                             /\ "scorer" \in Loader!RolesOf(plugins[i].ref)
                             /\ plugins[i].weight = Loader!Nil
                            THEN [plugins[i] EXCEPT !.weight = Loader!DefaultScorerWeight]
                            ELSE plugins[i]]
           added == [ref |-> picker, weight |-> Loader!Nil]
           set == IF first <= Len(weighted) THEN weighted ELSE Append(weighted, added)
<1>1. plugins \in Seq(PluginRefs)
  BY DEF Profiles
<1>2. PICK n \in Nat : DOMAIN plugins = 1 .. n /\ Len(plugins) = n
  BY <1>1
<1>3. \A i \in 1 .. n : weighted[i] \in PluginRefs /\ weighted[i].ref = plugins[i].ref
  <2> TAKE i \in 1 .. n
  <2>1. plugins[i] \in PluginRefs
    BY <1>1, <1>2
  <2> DEFINE heavier == [plugins[i] EXCEPT !.weight = Loader!DefaultScorerWeight]
  <2>2. heavier \in PluginRefs /\ heavier.ref = plugins[i].ref
    BY <2>1 DEF PluginRefs, Loader!DefaultScorerWeight
  <2>3. weighted[i] = heavier \/ weighted[i] = plugins[i]
    BY <1>2
  <2> HIDE DEF heavier, weighted
  <2> QED
    BY <2>1, <2>2, <2>3
<1>4. weighted \in Seq(PluginRefs) /\ Len(weighted) = n /\ DOMAIN weighted = 1 .. n
  <2>1. DOMAIN weighted = 1 .. n
    BY <1>2
  <2>2. weighted = [i \in 1 .. n |-> weighted[i]]
    BY <1>2
  <2> HIDE DEF weighted
  <2> QED
    BY <1>3, <2>1, <2>2
<1>5. Loader!SetWeightsAndPicker(profile) = [profile EXCEPT !.plugins = set]
  BY DEF Loader!SetWeightsAndPicker
<1>6. set \in Seq(PluginRefs) /\ \E k \in DOMAIN set : "picker" \in Loader!RolesOf(set[k].ref)
  <2> DEFINE at == {i \in DOMAIN plugins : "picker" \in Loader!RolesOf(plugins[i].ref)}
  <2>1. CASE at = {} /\ first = n + 1
    <3>1. set = Append(weighted, added)
      <4> HIDE DEF first, weighted, added
      <4> QED
        BY <1>4, <2>1
    <3>2. added \in PluginRefs /\ added.ref = picker
      BY DEF PluginRefs, Loader!Nil
    <3> HIDE DEF weighted, added, set
    <3>3. set \in Seq(PluginRefs) /\ DOMAIN set = 1 .. n + 1 /\ set[n + 1] = added
      BY <1>4, <3>1, <3>2
    <3> QED
      BY <3>2, <3>3
  <2>2. CASE first \in at
    <3>1. first \in 1 .. n /\ "picker" \in Loader!RolesOf(plugins[first].ref)
      BY <1>2, <2>2
    <3> HIDE DEF weighted, first
    <3>2. set = weighted
      BY <1>4, <3>1
    <3> QED
      BY <1>3, <1>4, <3>1, <3>2
  <2> QED
    BY <1>1, <1>2, <2>1, <2>2, FirstPickerFound
<1> HIDE DEF set
<1>7. [profile EXCEPT !.plugins = set] = [name |-> profile.name, plugins |-> set]
  BY DEF Profiles
<1> QED
  BY <1>5, <1>6, <1>7 DEF Profiles, HasPicker

\* Steps that keep the profiles, and add to the plugins at most.
LEMMA LoaderDefaults ==
    ASSUME LoaderInv, NEW name \in Names,
           handle' = Loader!AddPlugin(handle, name, name),
           cfg' = [cfg EXCEPT !.plugins = Append(@, [name |-> name, type |-> name])],
           \A c \in DOMAIN cfg.plugins : cfg.plugins[c].name \in DOMAIN handle
    PROVE  /\ cfg' \in Configs
           /\ IsFiniteSet(DOMAIN handle') /\ DOMAIN handle' \subseteq Names
           /\ \A c \in DOMAIN cfg'.plugins : cfg'.plugins[c].name \in DOMAIN handle'
           /\ name \in DOMAIN handle' /\ handle'[name] = name
<1> DEFINE old == cfg.plugins
           added == [name |-> name, type |-> name]
<1>1. DOMAIN handle' = DOMAIN handle \union {name} /\ handle'[name] = name
  BY DEF Loader!AddPlugin
<1>2. IsFiniteSet(DOMAIN handle') /\ DOMAIN handle' \subseteq Names
  BY <1>1, FS_AddElement DEF LoaderInv
<1>3. cfg \in Configs /\ old \in Seq(PluginSpecs) /\ added \in PluginSpecs /\ added.name = name
  BY DEF LoaderInv, Configs, PluginSpecs
<1>4. cfg' = [plugins |-> Append(old, added), profiles |-> cfg.profiles]
  <2> HIDE DEF added
  <2>1. cfg' = [cfg EXCEPT !.plugins = Append(@, added)]
    BY DEF added
  <2> QED
    BY <1>3, <2>1 DEF Configs
<1> HIDE DEF added
<1>5. cfg' \in Configs /\ cfg'.plugins = Append(old, added)
  <2> DEFINE longer == Append(old, added)
  <2>1. longer \in Seq(PluginSpecs) /\ cfg.profiles \in Seq(Profiles)
    BY <1>3 DEF Configs
  <2> DEFINE kept == cfg.profiles
  <2>2. cfg' = [plugins |-> longer, profiles |-> kept]
    BY <1>4
  <2>4. longer \in Seq(PluginSpecs) /\ kept \in Seq(Profiles)
    BY <2>1
  <2> HIDE DEF longer, kept
  <2>3. cfg' \in Configs /\ cfg'.plugins = longer
    BY <2>2, <2>4, ConfigMade
  <2> QED
    BY <2>3 DEF longer
<1>6. \A c \in DOMAIN cfg'.plugins : cfg'.plugins[c].name \in DOMAIN handle'
  <2> TAKE c \in DOMAIN cfg'.plugins
  <2>1. c \in 1 .. Len(old) + 1 /\ cfg'.plugins[c] = IF c = Len(old) + 1 THEN added ELSE old[c]
    BY <1>3, <1>5
  <2>2. CASE c = Len(old) + 1
    BY <1>1, <1>3, <2>1, <2>2
  <2>3. CASE c # Len(old) + 1
    <3>1. c \in DOMAIN old /\ cfg'.plugins[c] = old[c]
      BY <1>3, <2>1, <2>3
    <3> QED
      BY <1>1, <3>1
  <2> QED
    BY <2>2, <2>3
<1> QED
  BY <1>1, <1>2, <1>5, <1>6

\* The plugins of a configuration are instantiated under their names.
LEMMA LoaderInstantiates ==
    ASSUME LoaderInv, Loader!InstantiatePlugins
    PROVE  LoaderInv'
<1> DEFINE ps == cfg.plugins
           names == {ps[i].name : i \in DOMAIN ps}
<1>1. cfg \in Configs /\ ps \in Seq(PluginSpecs) /\ UNCHANGED <<cfg, picker>>
  BY DEF LoaderInv, Configs, Loader!InstantiatePlugins
<1>2. IsFiniteSet(names) /\ names \subseteq Names
  <2>1. PICK n \in Nat : DOMAIN ps = 1 .. n
    BY <1>1
  <2>2. IsFiniteSet(1 .. n)
    BY FS_Interval
  <2> DEFINE f == [i \in 1 .. n |-> ps[i].name]
  <2>3. f \in Surjection(1 .. n, names)
    BY <2>1 DEF Surjection
  <2>4. names \subseteq Names
    <3>1. \A i \in DOMAIN ps : ps[i] \in PluginSpecs
      BY <1>1
    <3> QED
      BY <3>1 DEF PluginSpecs
  <2> HIDE DEF f, names
  <2> QED
    BY <2>2, <2>3, <2>4, FS_Surjection
<1>3. CASE phase' = "error" /\ handle' = handle
  BY <1>1, <1>3 DEF LoaderInv, Loader!LoadedRunnable
<1>4. CASE phase' = "profiles" /\ DOMAIN handle' = names
  <2> HIDE DEF names
  <2>1. \A c \in DOMAIN ps : ps[c].name \in names
    BY DEF names
  <2> QED
    BY <1>1, <1>2, <1>4, <2>1 DEF LoaderInv, Loader!LoadedRunnable
<1> QED
  BY <1>3, <1>4 DEF Loader!InstantiatePlugins

LEMMA LoaderNames == ASSUME LoaderInv, Loader!SetDefaultsPhaseOne PROVE LoaderInv'
<1> DEFINE old == cfg.plugins
           new == [i \in DOMAIN old |-> [type |-> old[i].type,
                                         name |-> IF old[i].name = "" THEN old[i].type ELSE old[i].name]]
<1>1. cfg \in Configs /\ old \in Seq(PluginSpecs)
  BY DEF LoaderInv, Configs
<1>2. new \in Seq(PluginSpecs)
  <2>1. PICK n \in Nat : DOMAIN old = 1 .. n
    BY <1>1
  <2>2. \A i \in 1 .. n : new[i] \in PluginSpecs
    <3>1. \A i \in 1 .. n : old[i] \in PluginSpecs
      BY <1>1, <2>1
    <3> QED
      BY <2>1, <3>1 DEF PluginSpecs
  <2>3. new = [i \in 1 .. n |-> new[i]]
    BY <2>1
  <2> HIDE DEF new
  <2> QED
    BY <2>2, <2>3
<1>3. cfg' = [cfg EXCEPT !.plugins = new]
  BY DEF Loader!SetDefaultsPhaseOne
<1> HIDE DEF new
<1>4. cfg' \in Configs
  BY <1>1, <1>2, <1>3 DEF Configs
<1> QED
  BY <1>4 DEF LoaderInv, Loader!SetDefaultsPhaseOne, Loader!LoadedRunnable

\* The default profile refers to plugins of the handle.
LEMMA LoaderProfile == ASSUME LoaderInv, Loader!DefaultProfile PROVE LoaderInv'
<1>1. cfg \in Configs /\ IsFiniteSet(DOMAIN handle) /\ DOMAIN handle \subseteq Names
  BY DEF LoaderInv
<1>2. CASE cfg' = cfg
  BY <1>2 DEF LoaderInv, Loader!DefaultProfile, Loader!LoadedRunnable
<1>3. CASE cfg' # cfg
  <2> DEFINE S == UNION {Loader!WithRole(r) : r \in {"filter", "picker", "postCycle", "scorer"}}
             made(order) == [i \in DOMAIN order |-> [ref |-> order[i], weight |-> Loader!Nil]]
             profile(order) == [name |-> "default", plugins |-> made(order)]
  <2>1. PICK order \in Loader!SetToSeqs(S) : cfg' = [cfg EXCEPT !.profiles = <<profile(order)>>]
    BY <1>3 DEF Loader!DefaultProfile
  <2>2. S \subseteq DOMAIN handle
    BY DEF Loader!WithRole
  <2> HIDE DEF S
  <2>3. Cardinality(S) \in Nat /\ order \in [1 .. Cardinality(S) -> S] /\ S \subseteq Names
    <3>1. IsFiniteSet(S) /\ S \subseteq Names
      BY <1>1, <2>2, FS_Subset
    <3> QED
      BY <3>1, FS_CardinalityType, LoaderCardinality DEF Loader!SetToSeqs
  <2>4. made(order) \in Seq(PluginRefs)
    <3> DEFINE n == Cardinality(S)
    <3>1. n \in Nat /\ DOMAIN order = 1 .. n /\ \A i \in 1 .. n : order[i] \in Names
      BY <2>3
    <3> HIDE DEF n
    <3>2. \A i \in 1 .. n : made(order)[i] \in PluginRefs
      BY <3>1 DEF PluginRefs, Loader!Nil
    <3>3. made(order) = [i \in 1 .. n |-> made(order)[i]]
      BY <3>1
    <3> DEFINE m == made(order)
    <3> HIDE DEF m
    <3>4. m \in Seq(PluginRefs)
      BY <3>1, <3>2, <3>3 DEF m
    <3> QED
      BY <3>4 DEF m
  <2>5. <<profile(order)>> \in Seq(Profiles)
    <3> DEFINE m == made(order)
    <3> HIDE DEF m
    <3>1. m \in Seq(PluginRefs) /\ "default" \in Names
      BY <2>4 DEF m, LoaderInv, LoaderTyped
    <3>2. [name |-> "default", plugins |-> m] \in Profiles
      BY <3>1 DEF Profiles
    <3> QED
      BY <3>2 DEF m
  <2> DEFINE new == <<profile(order)>>
  <2> HIDE DEF new
  <2>6. cfg' \in Configs /\ cfg'.plugins = cfg.plugins
    BY <1>1, <2>1, <2>5 DEF Configs, new
  <2> QED
    BY <2>6 DEF LoaderInv, Loader!DefaultProfile, Loader!LoadedRunnable
<1> QED
  BY <1>2, <1>3

LEMMA LoaderHandler == ASSUME LoaderInv, Loader!DefaultHandler PROVE LoaderInv'
<1>1. CASE UNCHANGED <<handle, cfg>>
  BY <1>1 DEF LoaderInv, Loader!DefaultHandler, Loader!LoadedRunnable
<1>2. CASE ~UNCHANGED <<handle, cfg>>
  <2> DEFINE single == Loader!SingleProfileHandler
  <2>1. single \in Names
    BY DEF LoaderInv, LoaderTyped
  <2>2. /\ phase = "handler" /\ phase' = "picker"
        /\ handle' = Loader!AddPlugin(handle, single, single)
        /\ cfg' = [cfg EXCEPT !.plugins = Append(@, [name |-> single, type |-> single])]
    BY <1>2 DEF Loader!DefaultHandler
  <2>3. \A c \in DOMAIN cfg.plugins : cfg.plugins[c].name \in DOMAIN handle
    BY <2>2 DEF LoaderInv
  <2> HIDE DEF single
  <2> QED
    BY <2>1, <2>2, <2>3, LoaderDefaults DEF LoaderInv, Loader!LoadedRunnable, LoaderTyped
<1> QED
  BY <1>1, <1>2

LEMMA LoaderPicker == ASSUME LoaderInv, Loader!DefaultPicker PROVE LoaderInv'
<1>1. CASE Loader!WithRole("picker") # {}
  <2>1. picker' \in DOMAIN handle /\ "picker" \in Loader!RolesOf(picker') /\ UNCHANGED <<handle, cfg>>
    BY <1>1 DEF Loader!DefaultPicker, Loader!WithRole
  <2> QED
    BY <2>1 DEF LoaderInv, Loader!DefaultPicker, Loader!LoadedRunnable, Loader!RolesOf, LoaderTyped, Configs
<1>2. CASE Loader!WithRole("picker") = {}
  <2> DEFINE max == Loader!MaxScorePicker
  <2>1. max \in Names
    BY DEF LoaderInv, LoaderTyped
  <2>2. /\ phase = "picker" /\ phase' = "weights" /\ picker' = max
        /\ handle' = Loader!AddPlugin(handle, max, max)
        /\ cfg' = [cfg EXCEPT !.plugins = Append(@, [name |-> max, type |-> max])]
    BY <1>2 DEF Loader!DefaultPicker
  <2>3. \A c \in DOMAIN cfg.plugins : cfg.plugins[c].name \in DOMAIN handle
    BY <2>2 DEF LoaderInv
  <2>4. /\ cfg' \in Configs
        /\ IsFiniteSet(DOMAIN handle') /\ DOMAIN handle' \subseteq Names
        /\ \A c \in DOMAIN cfg'.plugins : cfg'.plugins[c].name \in DOMAIN handle'
        /\ max \in DOMAIN handle' /\ handle'[max] = max
    <3> HIDE DEF max
    <3> QED
      BY <2>1, <2>2, <2>3, LoaderDefaults
  <2>5. "picker" \in Loader!RolesOf(picker)'
    BY <2>2, <2>4 DEF LoaderInv, LoaderTyped, Loader!RolesOf
  <2> QED
    BY <2>1, <2>2, <2>4, <2>5 DEF LoaderInv, LoaderTyped, Loader!LoadedRunnable
<1> QED
  BY <1>1, <1>2

LEMMA LoaderWeights == ASSUME LoaderInv, Loader!DefaultWeights PROVE LoaderInv'
<1> DEFINE old == cfg.profiles
           new == [i \in DOMAIN old |-> Loader!SetWeightsAndPicker(old[i])]
<1>1. /\ cfg \in Configs /\ old \in Seq(Profiles) /\ cfg.plugins \in Seq(PluginSpecs)
      /\ phase = "weights" /\ phase' = "validate" /\ UNCHANGED <<handle, picker>>
      /\ picker \in Names /\ "picker" \in Loader!RolesOf(picker)
  BY DEF LoaderInv, Configs, Loader!DefaultWeights
<1>2. PICK n \in Nat : DOMAIN old = 1 .. n
  BY <1>1
<1>3. \A i \in 1 .. n : new[i] \in Profiles /\ HasPicker(new[i])
  <2> TAKE i \in 1 .. n
  <2>1. old[i] \in Profiles /\ new[i] = Loader!SetWeightsAndPicker(old[i])
    BY <1>1, <1>2
  <2> HIDE DEF old, new
  <2> QED
    BY <1>1, <2>1, PickerSet
<1>4. new \in Seq(Profiles) /\ DOMAIN new = 1 .. n
  <2>1. new = [i \in 1 .. n |-> new[i]] /\ DOMAIN new = 1 .. n
    BY <1>2
  <2> HIDE DEF new
  <2> QED
    BY <1>3, <2>1
<1>5. cfg' = [plugins |-> cfg.plugins, profiles |-> new]
  <2>1. cfg' = [cfg EXCEPT !.profiles = new]
    BY DEF Loader!DefaultWeights
  <2> HIDE DEF new
  <2> QED
    BY <1>1, <2>1 DEF Configs
<1> DEFINE plugins == cfg.plugins
<1>6. cfg' \in Configs /\ cfg'.plugins = plugins /\ cfg'.profiles = new
  <2> HIDE DEF new, plugins
  <2> QED
    BY <1>1, <1>4, <1>5, ConfigMade DEF plugins
<1>7. (\A i \in DOMAIN cfg.profiles : HasPicker(cfg.profiles[i]))'
  <2> HIDE DEF new, plugins
  <2>1. \A i \in DOMAIN cfg'.profiles : HasPicker(cfg'.profiles[i])
    BY <1>3, <1>4, <1>6
  <2> QED
    BY <1>1, <2>1 DEF HasPicker, Loader!RolesOf
<1> HIDE DEF new
<1> QED
  BY <1>1, <1>6, <1>7 DEF LoaderInv, Loader!LoadedRunnable, LoaderTyped

LEMMA LoaderValidates == ASSUME LoaderInv, Loader!ValidateSchedulingProfiles PROVE LoaderInv'
<1>1. UNCHANGED <<cfg, handle, picker>> /\ phase = "validate" /\ phase' \in {"load", "error"}
  BY DEF Loader!ValidateSchedulingProfiles
<1>2. ASSUME phase' = "load",
             NEW i \in DOMAIN cfg.profiles, NEW k \in DOMAIN cfg.profiles[i].plugins
      PROVE  cfg.profiles[i].plugins[k].ref \in DOMAIN handle
  <2>1. \E c \in DOMAIN cfg.plugins : cfg.profiles[i].plugins[k].ref = cfg.plugins[c].name
    BY <1>2 DEF Loader!ValidateSchedulingProfiles
  <2> QED
    BY <1>1, <2>1 DEF LoaderInv
<1> QED
  BY <1>1, <1>2 DEF LoaderInv, Loader!LoadedRunnable, HasPicker, Loader!RolesOf, LoaderTyped

\* A profile that was loaded has one picker and no scorer without a weight.
LEMMA ProfileLoaded ==
    ASSUME NEW plugins \in Seq(PluginRefs),
           \E k \in DOMAIN plugins : "picker" \in Loader!RolesOf(plugins[k].ref),
           Loader!LoadProfile(plugins) = "loaded"
    PROVE  /\ \A k \in DOMAIN plugins : "scorer" \in Loader!RolesOf(plugins[k].ref) => plugins[k].weight # Loader!Nil
           /\ Loader!ExactlyOne({k \in DOMAIN plugins : "picker" \in Loader!RolesOf(plugins[k].ref)})
<1> DEFINE at == {i \in DOMAIN plugins : "picker" \in Loader!RolesOf(plugins[i].ref)}
           first == Loader!FirstPicker(plugins)
           unweighted == {i \in DOMAIN plugins : /\ "scorer" \in Loader!RolesOf(plugins[i].ref)
                                                 /\ plugins[i].weight = Loader!Nil}
           second == {i \in DOMAIN plugins : "picker" \in Loader!RolesOf(plugins[i].ref) /\ i > first}
<1>1. unweighted \union second = {}
  <2> HIDE DEF unweighted, second
  <2>1. Loader!LoadProfile(plugins) =
          IF unweighted \union second = {} THEN "loaded"
          ELSE IF \E i \in unweighted : \A j \in second : i < j THEN "panic" ELSE "error"
    BY DEF Loader!LoadProfile, unweighted, second
  <2> QED
    BY <2>1
<1>2. first \in at /\ (\A j \in at : first <= j) /\ at \subseteq Int
  BY FirstPickerFound
<1>3. at = {first}
  <2>1. \A j \in at : ~(j > first)
    BY <1>1
  <2> HIDE DEF at, first
  <2>2. \A j \in at : j = first
    BY <1>2, <2>1
  <2> QED
    BY <1>2, <2>2
<1>4. Loader!ExactlyOne(at)
  BY <1>2, <1>3 DEF Loader!ExactlyOne
<1> QED
  BY <1>1, <1>4

LEMMA LoaderLoads == ASSUME LoaderInv, Loader!LoadSchedulerConfig PROVE LoaderInv'
<1> DEFINE results == [i \in DOMAIN cfg.profiles |-> Loader!LoadProfile(cfg.profiles[i].plugins)]
           failed == {i \in DOMAIN results : results[i] # "loaded"}
<1>1. UNCHANGED <<cfg, handle, picker>> /\ phase = "load" /\ cfg \in Configs
  BY DEF Loader!LoadSchedulerConfig, LoaderInv
<1>2. phase' \in {"loaded", "error", "panic"}
  <2>1. failed \subseteq Nat
    BY <1>1 DEF Configs
  <2>2. \A i \in failed : results[i] \in {"error", "panic"}
    BY DEF Loader!LoadProfile
  <2>3. failed # {} => \E i \in failed : \A j \in failed : i <= j
    <3> HIDE DEF failed
    <3> QED
      BY <2>1, LeastNumber
  <2>4. phase' = IF failed # {} THEN results[CHOOSE i \in failed : \A j \in failed : i <= j]
                 ELSE IF Loader!ExactlyOne(Loader!WithRole("handler")) THEN "loaded" ELSE "error"
    BY DEF Loader!LoadSchedulerConfig
  <2> HIDE DEF failed, results
  <2> QED
    BY <2>2, <2>3, <2>4
<1>3. ASSUME phase' = "loaded"
      PROVE  Loader!LoadedRunnable'
  <2>1. failed = {} /\ Loader!ExactlyOne(Loader!WithRole("handler"))
    <3>1. failed \subseteq Nat
      BY <1>1 DEF Configs
    <3>2. \A i \in failed : results[i] # "loaded"
      OBVIOUS
    <3>3. failed # {} => \E i \in failed : \A j \in failed : i <= j
      <4> HIDE DEF failed
      <4> QED
        BY <3>1, LeastNumber
    <3>4. phase' = IF failed # {} THEN results[CHOOSE i \in failed : \A j \in failed : i <= j]
                   ELSE IF Loader!ExactlyOne(Loader!WithRole("handler")) THEN "loaded" ELSE "error"
      BY DEF Loader!LoadSchedulerConfig
    <3> HIDE DEF failed, results
    <3> QED
      BY <1>3, <3>2, <3>3, <3>4
  <2>2. ASSUME NEW i \in DOMAIN cfg.profiles
        PROVE  LET ps == cfg.profiles[i].plugins
               IN  /\ \A k \in DOMAIN ps : /\ ps[k].ref \in DOMAIN handle
                                           /\ "scorer" \in Loader!RolesOf(ps[k].ref) => ps[k].weight # Loader!Nil
                   /\ Loader!ExactlyOne({k \in DOMAIN ps : "picker" \in Loader!RolesOf(ps[k].ref)})
    <3> DEFINE ps == cfg.profiles[i].plugins
    <3>1. Loader!LoadProfile(ps) = "loaded"
      BY <2>1
    <3>2. ps \in Seq(PluginRefs)
      <4>1. cfg.profiles \in Seq(Profiles)
        BY <1>1 DEF Configs
      <4>2. cfg.profiles[i] \in Profiles
        BY <4>1
      <4> QED
        BY <4>2 DEF Profiles
    <3>3. \E k \in DOMAIN ps : "picker" \in Loader!RolesOf(ps[k].ref)
      BY <1>1 DEF LoaderInv, HasPicker
    <3>4. \A k \in DOMAIN ps : ps[k].ref \in DOMAIN handle
      BY <1>1 DEF LoaderInv
    <3> HIDE DEF ps
    <3>5. /\ \A k \in DOMAIN ps : "scorer" \in Loader!RolesOf(ps[k].ref) => ps[k].weight # Loader!Nil
          /\ Loader!ExactlyOne({k \in DOMAIN ps : "picker" \in Loader!RolesOf(ps[k].ref)})
      BY <3>1, <3>2, <3>3, ProfileLoaded
    <3> QED
      BY <3>4, <3>5 DEF ps
  <2>3. /\ \A i \in DOMAIN cfg.profiles :
             LET ps == cfg.profiles[i].plugins
             IN  /\ \A k \in DOMAIN ps : /\ ps[k].ref \in DOMAIN handle
                                         /\ "scorer" \in Loader!RolesOf(ps[k].ref) => ps[k].weight # Loader!Nil
                 /\ Loader!ExactlyOne({k \in DOMAIN ps : "picker" \in Loader!RolesOf(ps[k].ref)})
        /\ Loader!ExactlyOne(Loader!WithRole("handler"))
    BY <2>1, <2>2
  <2> QED
    BY <1>1, <2>3 DEF Loader!LoadedRunnable, Loader!RolesOf, Loader!ExactlyOne, Loader!WithRole
<1> QED
  BY <1>1, <1>2, <1>3 DEF LoaderInv, LoaderTyped, Loader!LoadedRunnable

LEMMA LoaderStep == LoaderInv /\ [Loader!Next]_(Loader!vars) => LoaderInv'
<1> SUFFICES ASSUME LoaderInv, [Loader!Next]_(Loader!vars) PROVE LoaderInv'
  OBVIOUS
<1>1. CASE Loader!DecodeFails
  BY <1>1 DEF LoaderInv, Loader!DecodeFails, Loader!LoadedRunnable, LoaderTyped
<1>2. CASE Loader!Done \/ UNCHANGED Loader!vars
  <2>1. UNCHANGED <<cfg, handle, picker, phase>>
    BY <1>2 DEF Loader!Done, Loader!vars
  <2>2. LoaderTyped' <=> LoaderTyped
    BY <2>1 DEF LoaderTyped
  <2>3. Loader!LoadedRunnable' <=> Loader!LoadedRunnable
    BY <2>1 DEF Loader!LoadedRunnable, Loader!RolesOf, Loader!ExactlyOne, Loader!WithRole
  <2> QED
    BY <2>1, <2>2, <2>3 DEF LoaderInv, HasPicker, Loader!RolesOf, Loader!ExactlyOne, Loader!WithRole
<1> QED
  BY <1>1, <1>2, LoaderNames, LoaderInstantiates, LoaderProfile, LoaderHandler, LoaderPicker,
     LoaderWeights, LoaderValidates, LoaderLoads DEF Loader!Next

\* Whatever is configured, whichever plugins are registered and in whatever
\* order maps are iterated: a configuration that loads can be run.
THEOREM LoadedCanRun == LoaderTyped /\ Loader!Spec => []LoadedRunnable
<1>1. LoaderInv => LoadedRunnable
  BY DEF LoaderInv, LoadedRunnable
<1> QED
  BY <1>1, LoaderInit, LoaderStep, PTL DEF Loader!Spec

-----------------------------------------------------------------------------
\* The flow registry's configuration.

Bands == [Priority : Int, PriorityName : Names, IntraFlowDispatchPolicy : Names,
          InterFlowDispatchPolicy : Names, Queue : Names, MaxBytes : Nat]
RegistryConfigs == [MaxBytes : Nat, PriorityBands : Seq(Bands)]

\* What an operator may write, and the names of the defaults.
RegistryTyped ==
    /\ BandConfigs \subseteq Bands
    /\ {"FCFS", "BestHead", "ListQueue"} \subseteq Names
    /\ MaxBands \in Nat /\ MaxTotal \in Nat /\ MaxShards \in Nat

\* Numbers can be sorted.
LEMMA SortingOrder ==
    ASSUME NEW n \in Nat, NEW s \in [1 .. n -> Int]
    PROVE  \E p \in [1 .. n -> 1 .. n] :
             /\ \A i, j \in 1 .. n : p[i] = p[j] => i = j
             /\ \A i, j \in 1 .. n : i < j => s[p[i]] <= s[p[j]]
<1> DEFINE Sorts(k, f, p) == /\ p \in [1 .. k -> 1 .. k]
                             /\ \A i, j \in 1 .. k : p[i] = p[j] => i = j
                             /\ \A i, j \in 1 .. k : i < j => f[p[i]] <= f[p[j]]
           T == {k \in Nat : \E f \in [1 .. k -> Int] : \A p : ~Sorts(k, f, p)}
<1>1. ASSUME T # {} PROVE FALSE
  <2>1. T \subseteq Nat
    OBVIOUS
  <2>2. PICK k \in T : \A l \in T : k <= l
    BY <1>1, <2>1, LeastNumber
  <2>3. k \in Nat
    OBVIOUS
  <2>4. PICK f \in [1 .. k -> Int] : \A p : ~Sorts(k, f, p)
    BY <2>2
  <2>5. CASE k = 0
    <3> DEFINE p == [i \in 1 .. 0 |-> 0]
    <3>1. Sorts(k, f, p)
      BY <2>5
    <3> QED
      BY <2>4, <3>1
  <2>6. CASE k # 0
    <3>1. k - 1 \in Nat /\ k - 1 \notin T
      <4>1. k - 1 \in Nat /\ ~(k <= k - 1)
        BY <2>3, <2>6
      <4> HIDE DEF T
      <4> QED
        BY <2>2, <4>1
    <3>2. PICK m \in 1 .. k : \A i \in 1 .. k : f[i] <= f[m]
      BY <2>3, <2>6, LargestElement
    <3> DEFINE swap(i) == IF i = m THEN k ELSE i
               g == [i \in 1 .. k - 1 |-> f[swap(i)]]
    <3>3. g \in [1 .. k - 1 -> Int]
      BY <2>3, <3>2
    <3>4. PICK q : Sorts(k - 1, g, q)
      <4> HIDE DEF g, Sorts
      <4> QED
        BY <3>1, <3>3
    <3> DEFINE p == [i \in 1 .. k |-> IF i = k THEN m ELSE swap(q[i])]
    <3>5. \A i \in 1 .. k - 1 : q[i] \in 1 .. k - 1 /\ swap(q[i]) \in 1 .. k /\ swap(q[i]) # m
      <4> TAKE i \in 1 .. k - 1
      <4>1. q[i] \in 1 .. k - 1
        <5>1. q \in [1 .. k - 1 -> 1 .. k - 1]
          BY <3>4
        <5> QED
          BY <5>1
      <4>2. \A a \in 1 .. k - 1 : swap(a) \in 1 .. k /\ swap(a) # m
        BY <2>3, <3>2
      <4> QED
        BY <4>1, <4>2
    <3>6. \A i \in 1 .. k - 1 : p[i] = swap(q[i]) /\ f[p[i]] = g[q[i]]
      BY <2>3, <3>5
    <3>7. p[k] = m /\ k \in 1 .. k
      BY <2>3, <2>6
    <3>8. p \in [1 .. k -> 1 .. k]
      BY <2>3, <3>2, <3>5
    <3>9. \A i, j \in 1 .. k : p[i] = p[j] => i = j
      <4> TAKE i, j \in 1 .. k
      <4> HAVE p[i] = p[j]
      <4> HIDE DEF p
      <4>1. CASE i = k /\ j # k
        <5>1. j \in 1 .. k - 1
          BY <2>3, <4>1
        <5> QED
          BY <3>5, <3>6, <3>7, <4>1, <5>1
      <4>2. CASE i # k /\ j = k
        <5>1. i \in 1 .. k - 1
          BY <2>3, <4>2
        <5> QED
          BY <3>5, <3>6, <3>7, <4>2, <5>1
      <4>3. CASE i # k /\ j # k
        <5>1. i \in 1 .. k - 1 /\ j \in 1 .. k - 1
          BY <2>3, <4>3
        <5>2. swap(q[i]) = swap(q[j])
          BY <3>6, <5>1
        <5>3. q[i] = q[j]
          <6> HIDE DEF T, Sorts, g, p
          <6>1. q[i] \in 1 .. k - 1 /\ q[j] \in 1 .. k - 1
            BY <3>5, <5>1
          <6>2. q[i] # k /\ q[j] # k
            BY <2>3, <6>1
          <6> QED
            BY <5>2, <6>2
        <5> QED
          BY <3>4, <5>1, <5>3
      <4> QED
        BY <4>1, <4>2, <4>3
    <3>10. \A i, j \in 1 .. k : i < j => f[p[i]] <= f[p[j]]
      <4> TAKE i, j \in 1 .. k
      <4> HAVE i < j
      <4>0. i \in 1 .. k - 1
        BY <2>3
      <4>1. CASE j = k
        <5>1. p[i] \in 1 .. k
          BY <3>8
        <5> HIDE DEF p
        <5> QED
          BY <3>2, <3>7, <4>1, <5>1
      <4>2. CASE j # k
        <5>1. j \in 1 .. k - 1
          BY <2>3, <4>2
        <5>2. g[q[i]] <= g[q[j]]
          <6> HIDE DEF g
          <6> QED
            BY <3>4, <4>0, <5>1
        <5> HIDE DEF p, g
        <5> QED
          BY <3>6, <4>0, <5>1, <5>2
      <4> QED
        BY <4>1, <4>2
    <3>11. Sorts(k, f, p)
      <4> HIDE DEF p
      <4> QED
        BY <3>8, <3>9, <3>10
    <3> QED
      BY <2>4, <3>11
  <2> QED
    BY <2>5, <2>6
<1>2. n \notin T
  BY <1>1
<1>3. PICK p : Sorts(n, s, p)
  BY <1>2
<1> QED
  BY <1>3

\* What sorting numbers that are different gives.
LEMMA SortedLevels ==
    ASSUME NEW n \in Nat, NEW s, DOMAIN s = 1 .. n, \A i \in 1 .. n : s[i] \in Int,
           \A i, j \in 1 .. n : s[i] = s[j] => i = j
    PROVE  LET t == Registry!Sorted(s)
           IN  /\ DOMAIN t = 1 .. n
               /\ \A i \in 1 .. n : \E j \in 1 .. n : t[i] = s[j]
               /\ \A k \in 1 .. n - 1 : t[k] < t[k + 1]
<1> DEFINE f == [i \in 1 .. n |-> s[i]]
           orders == {p \in [DOMAIN s -> DOMAIN s] : \A i, j \in DOMAIN s : p[i] = p[j] => i = j}
           Ascends(p) == \A i, j \in DOMAIN s : i < j => s[p[i]] <= s[p[j]]
           order == CHOOSE p \in orders : Ascends(p)
           t == Registry!Sorted(s)
<1>1. \E p \in orders : Ascends(p)
  <2>1. f \in [1 .. n -> Int]
    OBVIOUS
  <2>2. PICK p \in [1 .. n -> 1 .. n] :
             /\ \A i, j \in 1 .. n : p[i] = p[j] => i = j
             /\ \A i, j \in 1 .. n : i < j => f[p[i]] <= f[p[j]]
    <3> HIDE DEF f
    <3> QED
      BY <2>1, SortingOrder
  <2> QED
    BY <2>2
<1>2. order \in orders /\ Ascends(order)
  <2> HIDE DEF orders, Ascends
  <2> QED
    BY <1>1
<1>3. t = [i \in 1 .. n |-> s[order[i]]]
  BY DEF Registry!Sorted
<1> HIDE DEF t
<1> SUFFICES /\ DOMAIN t = 1 .. n
             /\ \A i \in 1 .. n : \E j \in 1 .. n : t[i] = s[j]
             /\ \A k \in 1 .. n - 1 : t[k] < t[k + 1]
  BY DEF t
<1>4. order \in [1 .. n -> 1 .. n] /\ (\A i, j \in 1 .. n : order[i] = order[j] => i = j)
      /\ \A i, j \in 1 .. n : i < j => s[order[i]] <= s[order[j]]
  BY <1>2
<1> HIDE DEF order
<1>5. DOMAIN t = 1 .. n /\ \A i \in 1 .. n : order[i] \in 1 .. n /\ t[i] = s[order[i]]
  BY <1>3, <1>4
<1>6. \A k \in 1 .. n - 1 : t[k] < t[k + 1]
  <2> TAKE k \in 1 .. n - 1
  <2>1. k \in 1 .. n /\ k + 1 \in 1 .. n /\ k < k + 1 /\ k # k + 1
    OBVIOUS
  <2>2. s[order[k]] <= s[order[k + 1]] /\ s[order[k]] # s[order[k + 1]]
    BY <1>4, <1>5, <2>1
  <2>3. s[order[k]] \in Int /\ s[order[k + 1]] \in Int
    BY <1>5, <2>1
  <2> QED
    BY <1>5, <2>1, <2>2, <2>3
<1> QED
  BY <1>5, <1>6

\* The first n bands are complete and different.
Good(n) ==
    /\ \A b \in 1 .. n : Registry!Compatible(config.PriorityBands[b])
    /\ \A b, c \in 1 .. n : config.PriorityBands[b].Priority = config.PriorityBands[c].Priority => b = c

\* The shards built are the parts of a validated configuration.
ShardsBuilt ==
    /\ \E S : shards \in Seq(S)
    /\ \A i \in 1 .. Len(shards) : shards[i] = Registry!newShard(Registry!partition(i - 1))
    /\ shards # << >> => Good(Len(config.PriorityBands))
    /\ stage = "validate" => shards = << >>
    /\ stage = "partition" => Len(shards) = next /\ next <= totalShards
    /\ stage = "ready" => Len(shards) = totalShards

RegistryInv ==
    /\ RegistryTyped
    /\ config \in RegistryConfigs
    /\ totalShards \in Nat \ {0} /\ next \in Nat
    /\ stage = "validate" => next \in 1 .. Len(config.PriorityBands) + 1 /\ Good(next - 1)
    /\ stage \in {"partition", "ready"} => Good(Len(config.PriorityBands))
    /\ ShardsBuilt

LEMMA RegistryInit == RegistryTyped /\ Registry!Init => RegistryInv
<1> SUFFICES ASSUME RegistryTyped, Registry!Init PROVE RegistryInv
  OBVIOUS
<1>1. config \in RegistryConfigs
  <2>1. PICK bytes \in 0 .. MaxTotal, bands \in Registry!BoundedSeq(BandConfigs, MaxBands) :
           config = [MaxBytes |-> bytes, PriorityBands |-> bands]
    BY DEF Registry!Init
  <2>2. bands \in Seq(Bands)
    <3>1. PICK m \in 0 .. MaxBands : bands \in [1 .. m -> BandConfigs]
      BY DEF Registry!BoundedSeq, Registry!SeqOf
    <3> QED
      BY <3>1 DEF RegistryTyped
  <2>3. bytes \in Nat
    BY DEF RegistryTyped
  <2> QED
    BY <2>1, <2>2, <2>3 DEF RegistryConfigs
<1>2. totalShards \in Nat \ {0} /\ next = 1 /\ stage = "validate" /\ shards = << >>
  BY DEF Registry!Init, RegistryTyped
<1>3. Good(0)
  BY DEF Good
<1>4. ShardsBuilt
  <2>1. << >> \in Seq(Int) /\ Len(<< >>) = 0
    OBVIOUS
  <2> QED
    BY <1>2, <2>1 DEF ShardsBuilt
<1>5. Len(config.PriorityBands) \in Nat
  BY <1>1 DEF RegistryConfigs
<1> QED
  BY <1>1, <1>2, <1>3, <1>4, <1>5 DEF RegistryInv

\* The parts of a configuration that stays are the same.
LEMMA SameParts ==
    ASSUME UNCHANGED <<config, totalShards>>, NEW i
    PROVE  Registry!newShard(Registry!partition(i))' = Registry!newShard(Registry!partition(i))
<1>1. Registry!partition(i)' = Registry!partition(i)
  BY DEF Registry!partition, Registry!partitionValue
<1> QED
  BY <1>1 DEF Registry!newShard

\* Steps that leave the configuration and the shards alone.
LEMMA PartsKept ==
    ASSUME RegistryInv, UNCHANGED <<config, totalShards, shards>>,
           stage' \in {"failed", "partition", "ready"} \/ UNCHANGED <<stage, next>>,
           stage' = "failed" => next' \in Nat,
           stage' = "partition" => UNCHANGED <<stage, next>> \/
                                /\ next' = 0 /\ shards = << >>
                                /\ Good(Len(config.PriorityBands)),
           stage' = "ready" => UNCHANGED <<stage, next>> \/
                                /\ next' = totalShards /\ Len(shards) = totalShards
                                /\ Good(Len(config.PriorityBands))
    PROVE  RegistryInv'
<1>1. \A n : Good(n)' = Good(n)
  BY DEF Good
<1>2. \A i \in 1 .. Len(shards) : shards'[i] = Registry!newShard(Registry!partition(i - 1))'
  BY SameParts DEF RegistryInv, ShardsBuilt
<1>3. Len(<< >>) = 0
  OBVIOUS
<1>4. ShardsBuilt'
  BY <1>1, <1>2, <1>3 DEF RegistryInv, ShardsBuilt
<1> QED
  BY <1>1, <1>4 DEF RegistryInv, RegistryTyped

\* A band with its defaults.
LEMMA DefaultsSet ==
    ASSUME RegistryTyped, NEW band \in Bands
    PROVE  LET new == Registry!WithDefaults(band)
           IN  new \in Bands /\ new.Priority = band.Priority
BY DEF Bands, Registry!WithDefaults, Registry!OrDefault, RegistryTyped

LEMMA RegistryValidates == ASSUME RegistryInv, Registry!ValidateBand PROVE RegistryInv'
<1> DEFINE bands == config.PriorityBands
           new == Registry!WithDefaults(bands[next])
           changed == [bands EXCEPT ![next] = new]
<1>1. /\ stage = "validate" /\ next \in 1 .. Len(bands) /\ config \in RegistryConfigs
      /\ bands \in Seq(Bands) /\ shards = << >> /\ UNCHANGED <<totalShards, shards>>
  <2>1. config \in RegistryConfigs /\ stage = "validate" /\ next <= Len(bands) /\ UNCHANGED <<totalShards, shards>>
    BY DEF RegistryInv, Registry!ValidateBand
  <2>2. bands \in Seq(Bands)
    BY <2>1 DEF RegistryConfigs
  <2>3. Len(bands) \in Nat
    BY <2>2
  <2>4. next \in 1 .. Len(bands) + 1
    BY <2>1 DEF RegistryInv
  <2>5. shards = << >>
    BY <2>1 DEF RegistryInv, ShardsBuilt
  <2> HIDE DEF bands
  <2> QED
    BY <2>1, <2>2, <2>3, <2>4, <2>5
<1>2. bands[next] \in Bands
  BY <1>1
<1>3. new \in Bands /\ new.Priority = bands[next].Priority
  <2> HIDE DEF bands
  <2> QED
    BY <1>2, DefaultsSet DEF RegistryInv
<1>4. config' = [MaxBytes |-> config.MaxBytes, PriorityBands |-> changed]
  BY <1>1 DEF Registry!ValidateBand, RegistryConfigs
<1>5. changed \in Seq(Bands) /\ Len(changed) = Len(bands)
  <2> HIDE DEF new, bands
  <2> QED
    BY <1>1, <1>3
<1>6. \A b \in 1 .. Len(bands) : /\ changed[b].Priority = bands[b].Priority
                                 /\ b # next => changed[b] = bands[b]
                                 /\ b = next => changed[b] = new
  <2> HIDE DEF new, bands
  <2> QED
    BY <1>1, <1>3
<1>7. config' \in RegistryConfigs /\ config'.PriorityBands = changed
  <2> DEFINE bytes == config.MaxBytes
  <2>1. bytes \in Nat
    BY <1>1 DEF RegistryConfigs
  <2> HIDE DEF bytes, changed
  <2> QED
    BY <1>4, <1>5, <2>1 DEF RegistryConfigs, bytes
<1>8. Good(next - 1) /\ \A b \in 1 .. next - 1 : bands[b].Priority # bands[next].Priority
  BY <1>1 DEF RegistryInv, Registry!ValidateBand, Registry!Band, Registry!Seen
<1>9. ASSUME NEW n, n = next - 1 \/ (n = next /\ Registry!Compatible(new))
      PROVE  Good(n)'
  <2> HIDE DEF new, changed
  <2>1. \A b \in 1 .. n : b \in 1 .. Len(bands) /\ (b = next \/ b \in 1 .. next - 1)
    BY <1>1, <1>9
  <2>2. \A b \in 1 .. n : Registry!Compatible(changed[b])
    BY <1>1, <1>6, <1>8, <1>9, <2>1 DEF Good
  <2>3. \A b, c \in 1 .. n : changed[b].Priority = changed[c].Priority => b = c
    BY <1>6, <1>8, <2>1 DEF Good
  <2> QED
    BY <1>7, <2>2, <2>3 DEF Good, Registry!Compatible
<1>12. shards' = << >> /\ << >> \in Seq(Int) /\ Len(<< >>) = 0
  BY <1>1
<1>10. CASE Registry!Compatible(new)
  <2>1. next' = next + 1 /\ stage' = "validate"
    BY <1>1, <1>10 DEF Registry!ValidateBand, Registry!Band
  <2>2. PICK n : n = next
    OBVIOUS
  <2>3. Good(n)'
    BY <1>9, <1>10, <2>2
  <2>4. Good(next - 1)'
    <3>1. next' - 1 = n
      BY <1>1, <2>1, <2>2
    <3> QED
      BY <2>3, <3>1 DEF Good
  <2>5. next' \in 1 .. Len(config'.PriorityBands) + 1
    <3> HIDE DEF changed, bands
    <3> QED
      BY <1>1, <1>5, <1>7, <2>1
  <2>6. ShardsBuilt'
    BY <1>1, <2>1, <1>12 DEF ShardsBuilt
  <2> QED
    BY <1>1, <1>7, <2>1, <2>4, <2>5, <2>6 DEF RegistryInv, RegistryTyped
<1>11. CASE ~Registry!Compatible(new)
  <2>1. next' = next /\ stage' = "failed"
    BY <1>1, <1>11 DEF Registry!ValidateBand, Registry!Band
  <2> QED
    BY <1>1, <1>7, <1>12, <2>1 DEF RegistryInv, RegistryTyped, ShardsBuilt
<1> QED
  BY <1>10, <1>11

LEMMA RegistryBuilds == ASSUME RegistryInv, Registry!BuildShard PROVE RegistryInv'
<1> DEFINE new == Registry!newShard(Registry!partition(next))
<1>1. stage = "partition" /\ next < totalShards /\ UNCHANGED <<config, totalShards>>
  BY DEF Registry!BuildShard
<1>2. CASE stage' = "failed" /\ UNCHANGED <<shards, next>>
  BY <1>1, <1>2, PartsKept DEF RegistryInv
<1>3. CASE shards' = Append(shards, new) /\ next' = next + 1 /\ stage' = stage
  <2> HIDE DEF new
  <2>1. PICK S : shards \in Seq(S)
    BY DEF RegistryInv, ShardsBuilt
  <2>2. shards \in Seq(S \union {new})
    BY <2>1
  <2>3. /\ shards' \in Seq(S \union {new}) /\ Len(shards') = Len(shards) + 1 /\ Len(shards) \in Nat
        /\ \A i \in 1 .. Len(shards) : shards'[i] = shards[i]
        /\ shards'[Len(shards) + 1] = new
    BY <1>3, <2>2
  <2>4. Len(shards) = next /\ next \in Nat /\ totalShards \in Nat /\ Good(Len(config.PriorityBands))
    BY <1>1 DEF RegistryInv, ShardsBuilt
  <2>5. \A i \in 1 .. Len(shards') : shards'[i] = Registry!newShard(Registry!partition(i - 1))
    <3> TAKE i \in 1 .. Len(shards')
    <3>1. CASE i \in 1 .. Len(shards)
      BY <2>3, <3>1 DEF RegistryInv, ShardsBuilt
    <3>2. CASE i = Len(shards) + 1
      <4>1. i - 1 = next
        BY <2>4, <3>2
      <4> QED
        BY <2>3, <3>2, <4>1 DEF new
    <3> QED
      BY <2>3, <3>1, <3>2
  <2>6. \A i \in 1 .. Len(shards') : shards'[i] = Registry!newShard(Registry!partition(i - 1))'
    BY <1>1, <2>5, SameParts
  <2>7. Good(Len(config.PriorityBands))'
    BY <1>1, <2>4 DEF Good
  <2>8. ShardsBuilt'
    BY <1>1, <1>3, <2>3, <2>4, <2>6, <2>7 DEF ShardsBuilt
  <2> QED
    BY <1>1, <1>3, <2>4, <2>7, <2>8 DEF RegistryInv, RegistryTyped
<1> QED
  BY <1>2, <1>3 DEF Registry!BuildShard

LEMMA RegistryStep == RegistryInv /\ [Registry!Next]_(Registry!vars) => RegistryInv'
<1> SUFFICES ASSUME RegistryInv, [Registry!Next]_(Registry!vars) PROVE RegistryInv'
  OBVIOUS
<1>1. CASE Registry!Refuse
  BY <1>1, PartsKept DEF Registry!Refuse, RegistryInv
<1>2. CASE Registry!Validated
  <2>1. next - 1 = Len(config.PriorityBands)
    <3>1. config.PriorityBands \in Seq(Bands)
      BY DEF RegistryInv, RegistryConfigs
    <3>2. Len(config.PriorityBands) \in Nat
      BY <3>1
    <3> QED
      BY <1>2, <3>2 DEF Registry!Validated, RegistryInv
  <2>2. Good(Len(config.PriorityBands)) /\ shards = << >>
    BY <1>2, <2>1 DEF Registry!Validated, RegistryInv, ShardsBuilt
  <2> QED
    BY <1>2, <2>2, PartsKept DEF Registry!Validated
<1>3. CASE Registry!Ready
  BY <1>3, PartsKept DEF Registry!Ready, RegistryInv, ShardsBuilt
<1>4. CASE UNCHANGED Registry!vars
  BY <1>4, PartsKept DEF Registry!vars, RegistryInv
<1> QED
  BY <1>1, <1>2, <1>3, <1>4, RegistryValidates, RegistryBuilds DEF Registry!Next

\* What a part of a validated configuration makes of its bands.
LEMMA BandsOfShard ==
    ASSUME RegistryInv, Good(Len(config.PriorityBands)), NEW i
    PROVE  LET bands == config.PriorityBands
               shard == Registry!newShard(Registry!partition(i))
           IN  /\ shard.MaxBytes = Registry!partitionValue(config.MaxBytes, i)
               /\ \A b \in 1 .. Len(bands) :
                    shard.priorityBands[bands[b].Priority] =
                      [bands[b] EXCEPT !.MaxBytes = Registry!partitionValue(@, i)]
               /\ Len(shard.orderedPriorityLevels) = Len(bands)
               /\ DOMAIN shard.orderedPriorityLevels = 1 .. Len(bands)
               /\ \A k \in 1 .. Len(bands) - 1 :
                    shard.orderedPriorityLevels[k] < shard.orderedPriorityLevels[k + 1]
               /\ \A k \in 1 .. Len(bands) :
                    \E b \in 1 .. Len(bands) : shard.orderedPriorityLevels[k] = bands[b].Priority
<1> DEFINE bands == config.PriorityBands
           n == Len(bands)
           part == [b \in DOMAIN bands |-> [bands[b] EXCEPT !.MaxBytes = Registry!partitionValue(@, i)]]
           priorities == [b \in DOMAIN part |-> part[b].Priority]
           last(p) == Registry!Max({b \in DOMAIN part : part[b].Priority = p})
           levels == Registry!Sorted(priorities)
           shard == Registry!newShard(Registry!partition(i))
<1>1. bands \in Seq(Bands) /\ n \in Nat /\ DOMAIN bands = 1 .. n
  <2>1. bands \in Seq(Bands)
    BY DEF RegistryInv, RegistryConfigs
  <2> HIDE DEF bands
  <2> QED
    BY <2>1
<1>2. shard = [MaxBytes |-> Registry!partitionValue(config.MaxBytes, i),
               priorityBands |-> [p \in Registry!Range(priorities) |-> part[last(p)]],
               orderedPriorityLevels |-> levels]
  BY DEF Registry!newShard, Registry!partition
<1>3. DOMAIN part = 1 .. n /\ \A b \in 1 .. n : part[b] = [bands[b] EXCEPT !.MaxBytes = Registry!partitionValue(@, i)]
  BY <1>1
<1>4. \A b \in 1 .. n : bands[b] \in Bands
  <2> HIDE DEF bands
  <2> QED
    BY <1>1
<1>5. \A b \in 1 .. n : part[b].Priority = bands[b].Priority /\ bands[b].Priority \in Int
  <2> TAKE b \in 1 .. n
  <2> HIDE DEF bands, part
  <2> QED
    BY <1>3, <1>4 DEF Bands
<1>6. DOMAIN priorities = 1 .. n /\ \A b \in 1 .. n : priorities[b] = bands[b].Priority
  <2> HIDE DEF bands, part
  <2> QED
    BY <1>3, <1>5
<1>7. \A b, c \in 1 .. n : bands[b].Priority = bands[c].Priority => b = c
  BY DEF Good
<1>8. ASSUME NEW b \in 1 .. n
      PROVE  last(bands[b].Priority) = b /\ bands[b].Priority \in Registry!Range(priorities)
  <2>1. bands[b].Priority \in Registry!Range(priorities)
    <3> HIDE DEF priorities
    <3> QED
      BY <1>6, <1>8 DEF Registry!Range
  <2> DEFINE same == {c \in DOMAIN part : part[c].Priority = bands[b].Priority}
  <2>2. same = {b}
    <3> HIDE DEF part, bands
    <3> QED
      BY <1>3, <1>5, <1>7, <1>8
  <2>3. Registry!Max({b}) = b
    <3>1. \E x \in {b} : \A y \in {b} : x >= y
      BY <1>1
    <3> QED
      BY <3>1 DEF Registry!Max
  <2> HIDE DEF part, bands, same
  <2> QED
    BY <2>1, <2>2, <2>3 DEF same
<1> HIDE DEF priorities
<1>9. /\ DOMAIN levels = 1 .. n
      /\ \A k \in 1 .. n : \E b \in 1 .. n : levels[k] = priorities[b]
      /\ \A k \in 1 .. n - 1 : levels[k] < levels[k + 1]
  <2> HIDE DEF bands
  <2>1. \A b \in 1 .. n : priorities[b] \in Int
    BY <1>5, <1>6
  <2>2. \A b, c \in 1 .. n : priorities[b] = priorities[c] => b = c
    BY <1>6, <1>7
  <2>3. n \in Nat /\ DOMAIN priorities = 1 .. n
    BY <1>1, <1>6
  <2> HIDE DEF n
  <2> QED
    BY <2>1, <2>2, <2>3, SortedLevels
<1>10. Len(levels) = n
  <2>1. levels = [k \in 1 .. n |-> levels[k]]
    BY <1>6 DEF Registry!Sorted
  <2> HIDE DEF levels, bands
  <2> QED
    BY <1>1, <1>9, <2>1
<1>11. \A b \in 1 .. n : shard.priorityBands[bands[b].Priority] = part[b]
  <2> TAKE b \in 1 .. n
  <2> HIDE DEF last, bands, part, shard, levels
  <2> QED
    BY <1>2, <1>8
<1> HIDE DEF bands, part, levels, shard
<1>12. shard.MaxBytes = Registry!partitionValue(config.MaxBytes, i) /\ shard.orderedPriorityLevels = levels
  BY <1>2
<1>13. /\ shard.MaxBytes = Registry!partitionValue(config.MaxBytes, i)
       /\ \A b \in 1 .. n : shard.priorityBands[bands[b].Priority] =
                               [bands[b] EXCEPT !.MaxBytes = Registry!partitionValue(@, i)]
       /\ Len(shard.orderedPriorityLevels) = n
       /\ DOMAIN shard.orderedPriorityLevels = 1 .. n
       /\ \A k \in 1 .. n - 1 : shard.orderedPriorityLevels[k] < shard.orderedPriorityLevels[k + 1]
       /\ \A k \in 1 .. n : \E b \in 1 .. n : shard.orderedPriorityLevels[k] = bands[b].Priority
  <2>1. \A b \in 1 .. n : shard.priorityBands[bands[b].Priority] =
                              [bands[b] EXCEPT !.MaxBytes = Registry!partitionValue(@, i)]
    BY <1>3, <1>11
  <2>2. /\ Len(shard.orderedPriorityLevels) = n
        /\ DOMAIN shard.orderedPriorityLevels = 1 .. n
        /\ \A k \in 1 .. n - 1 : shard.orderedPriorityLevels[k] < shard.orderedPriorityLevels[k + 1]
    BY <1>9, <1>10, <1>12
  <2>3. \A k \in 1 .. n : \E b \in 1 .. n : shard.orderedPriorityLevels[k] = bands[b].Priority
    <3> TAKE k \in 1 .. n
    <3>1. PICK b \in 1 .. n : levels[k] = priorities[b]
      BY <1>9
    <3>2. priorities[b] = bands[b].Priority
      BY <1>6
    <3> QED
      BY <1>12, <3>1, <3>2
  <2> QED
    BY <1>12, <2>1, <2>2, <2>3
<1> QED
  BY <1>13 DEF bands, shard

LEMMA UsableShards == RegistryInv => Registry!ShardsUsable
<1> SUFFICES ASSUME RegistryInv, NEW s \in DOMAIN shards
             PROVE  LET levels == shards[s].orderedPriorityLevels
                        bands == shards[s].priorityBands
                    IN  /\ Len(levels) = Len(config.PriorityBands)
                        /\ \A k \in 1 .. Len(levels) - 1 : levels[k] < levels[k + 1]
                        /\ \A p \in Registry!Range(levels) :
                             /\ bands[p].Priority = p
                             /\ bands[p].Queue \in DOMAIN Registry!Capabilities
                             /\ Registry!RequiredQueueCapabilities[bands[p].IntraFlowDispatchPolicy]
                                  \subseteq Registry!Capabilities[bands[p].Queue]
  BY DEF Registry!ShardsUsable
<1> DEFINE n == Len(config.PriorityBands)
           i == s - 1
           shard == Registry!newShard(Registry!partition(i))
<1>1. shards[s] = shard /\ Good(n)
  <2>1. PICK S : shards \in Seq(S)
    BY DEF RegistryInv, ShardsBuilt
  <2>2. s \in 1 .. Len(shards) /\ shards # << >>
    BY <2>1
  <2> QED
    BY <2>2 DEF RegistryInv, ShardsBuilt
<1> HIDE DEF i
<1>2. /\ Len(shard.orderedPriorityLevels) = n
      /\ DOMAIN shard.orderedPriorityLevels = 1 .. n
      /\ \A k \in 1 .. n - 1 : shard.orderedPriorityLevels[k] < shard.orderedPriorityLevels[k + 1]
      /\ \A k \in 1 .. n : \E b \in 1 .. n : shard.orderedPriorityLevels[k] = config.PriorityBands[b].Priority
      /\ \A b \in 1 .. n : shard.priorityBands[config.PriorityBands[b].Priority] =
              [config.PriorityBands[b] EXCEPT !.MaxBytes = Registry!partitionValue(@, i)]
  BY <1>1, BandsOfShard
<1> HIDE DEF shard
<1>3. ASSUME NEW p \in Registry!Range(shard.orderedPriorityLevels)
      PROVE  LET band == shard.priorityBands[p]
             IN  /\ band.Priority = p
                 /\ band.Queue \in DOMAIN Registry!Capabilities
                 /\ Registry!RequiredQueueCapabilities[band.IntraFlowDispatchPolicy]
                      \subseteq Registry!Capabilities[band.Queue]
  <2>1. PICK k \in 1 .. n : p = shard.orderedPriorityLevels[k]
    BY <1>2, <1>3 DEF Registry!Range
  <2>2. PICK b \in 1 .. n : p = config.PriorityBands[b].Priority
    BY <1>2, <2>1
  <2> DEFINE old == config.PriorityBands[b]
             band == shard.priorityBands[p]
  <2>3. old \in Bands
    <3>1. config.PriorityBands \in Seq(Bands)
      BY DEF RegistryInv, RegistryConfigs
    <3> QED
      BY <2>2, <3>1
  <2>4. band = [old EXCEPT !.MaxBytes = Registry!partitionValue(@, i)]
    BY <1>2, <2>2
  <2> HIDE DEF old, band
  <2>5. band.Priority = old.Priority /\ band.Queue = old.Queue
        /\ band.IntraFlowDispatchPolicy = old.IntraFlowDispatchPolicy
    BY <2>3, <2>4 DEF Bands
  <2>6. Registry!Compatible(old)
    BY <1>1, <2>2 DEF Good, old
  <2>7. /\ old.Queue \in DOMAIN Registry!Capabilities
        /\ Registry!RequiredQueueCapabilities[old.IntraFlowDispatchPolicy] \subseteq Registry!Capabilities[old.Queue]
    <3>1. \A x \in DOMAIN Registry!RequiredQueueCapabilities : Registry!RequiredQueueCapabilities[x] # {}
      BY DEF Registry!RequiredQueueCapabilities
    <3> QED
      BY <2>6, <3>1 DEF Registry!Compatible
  <2>8. p = old.Priority
    BY <2>2 DEF old
  <2> QED
    BY <2>5, <2>7, <2>8 DEF band
<1> QED
  BY <1>1, <1>2, <1>3

\* Whatever bands an operator writes and however many shards there are: what
\* validation lets through gives shards that dispatch can use.
THEOREM ValidatedUsable == RegistryTyped /\ Registry!Spec => []ShardsUsable
<1>1. RegistryInv => ShardsUsable
  BY UsableShards DEF ShardsUsable
<1> QED
  BY RegistryInit, RegistryStep, <1>1, PTL DEF Registry!Spec

-----------------------------------------------------------------------------
\* Sums over the shards.  MapThenSumSet adds the elements in an order of its
\* own; Pick(s) is the next one.
Pick(s) == CHOOSE x \in s : TRUE

\* Each has q, the first r one more.
Share(i, q, r) == q + (IF i <= r THEN 1 ELSE 0)

\* Of the first i shards, the ones in s that get a byte more.
Extra(s, r) == {i \in s : i <= r}

\* What the elements of s add up to, when each has q and the first r one more.
SharesOf(s, q, r) == q * Cardinality(s) + Cardinality(Extra(s, r))

LEMMA SharesStep ==
    ASSUME NEW q \in Nat, NEW r \in Nat, NEW s, IsFiniteSet(s), NEW x \in s
    PROVE  /\ SharesOf(s, q, r) = Share(x, q, r) + SharesOf(s \ {x}, q, r)
           /\ SharesOf(s, q, r) \in Nat /\ SharesOf(s \ {x}, q, r) \in Nat
<1> DEFINE rest == s \ {x}
<1>1. IsFiniteSet(s) /\ IsFiniteSet(Extra(s, r)) /\ IsFiniteSet(rest) /\ IsFiniteSet(Extra(rest, r))
  <2>1. rest \subseteq s /\ Extra(s, r) \subseteq s /\ Extra(rest, r) \subseteq s
    BY DEF Extra
  <2> QED
    BY <2>1, FS_Subset
<1>2. Cardinality(s) = Cardinality(rest) + 1 /\ Cardinality(rest) \in Nat
  BY <1>1, FS_RemoveElement, FS_CardinalityType
<1>3. CASE x <= r
  <2>1. Extra(rest, r) = Extra(s, r) \ {x} /\ x \in Extra(s, r)
    BY <1>3 DEF Extra
  <2>2. Cardinality(Extra(s, r)) = Cardinality(Extra(rest, r)) + 1 /\ Cardinality(Extra(rest, r)) \in Nat
    <3> DEFINE e == Extra(s, r)
    <3>1. IsFiniteSet(e) /\ x \in e /\ Extra(rest, r) = e \ {x}
      BY <1>1, <2>1
    <3> HIDE DEF e
    <3>2. Cardinality(e) \in Nat /\ Cardinality(Extra(rest, r)) \in Nat
      BY <1>1, <3>1, FS_CardinalityType
    <3>3. Cardinality(e \ {x}) = Cardinality(e) - 1
      BY <3>1, FS_RemoveElement
    <3>4. Cardinality(Extra(rest, r)) = Cardinality(e) - 1
      BY <3>1, <3>3
    <3>5. Cardinality(e) = Cardinality(Extra(rest, r)) + 1
      BY <3>2, <3>4
    <3> QED
      BY <3>2, <3>5 DEF e
  <2> DEFINE a == Cardinality(rest)
             b == Cardinality(Extra(rest, r))
  <2>3. SharesOf(s, q, r) = q * (a + 1) + (b + 1) /\ SharesOf(rest, q, r) = q * a + b
    BY <1>2, <2>2 DEF SharesOf
  <2>4. a \in Nat /\ b \in Nat
    BY <1>2, <2>2
  <2> HIDE DEF a, b
  <2> QED
    BY <1>3, <2>3, <2>4 DEF Share
<1>4. CASE ~(x <= r)
  <2>1. Extra(rest, r) = Extra(s, r)
    BY <1>4 DEF Extra
  <2>2. Cardinality(Extra(rest, r)) \in Nat
    BY <1>1, FS_CardinalityType
  <2> DEFINE a == Cardinality(rest)
             b == Cardinality(Extra(rest, r))
  <2>3. SharesOf(s, q, r) = q * (a + 1) + b /\ SharesOf(rest, q, r) = q * a + b
    BY <1>2, <2>1 DEF SharesOf
  <2>4. a \in Nat /\ b \in Nat
    BY <1>2, <2>2
  <2> HIDE DEF a, b
  <2> QED
    BY <1>4, <2>3, <2>4 DEF Share
<1> QED
  BY <1>3, <1>4

LEMMA NoShares == ASSUME NEW q \in Nat, NEW r PROVE SharesOf({}, q, r) = 0
<1>1. Extra({}, r) = {} /\ Cardinality({}) = 0
  BY FS_EmptySet DEF Extra
<1> QED
  BY <1>1 DEF SharesOf

\* The function that the fold iterates with, for the values c of 1 .. n.
IsSum(g, n, c) == g = [s \in SUBSET (1 .. n) |-> IF s = {} THEN 0 ELSE c[Pick(s)] + g[s \ {Pick(s)}]]

\* c[i] is the share of shard i.
Shared(c, n, q, r) == \A i \in 1 .. n : c[i] = Share(i, q, r)

\* The sum exists ...
LEMMA SharesAddUp ==
    ASSUME NEW n \in Nat, NEW q \in Nat, NEW r \in Nat, NEW c,
           \A i \in 1 .. n : c[i] = Share(i, q, r)
    PROVE  \E h : IsSum(h, n, c)
<1> DEFINE h == [s \in SUBSET (1 .. n) |-> SharesOf(s, q, r)]
           F == [s \in SUBSET (1 .. n) |-> IF s = {} THEN 0 ELSE c[Pick(s)] + h[s \ {Pick(s)}]]
<1>1. ASSUME NEW s \in SUBSET (1 .. n)
      PROVE  SharesOf(s, q, r) = IF s = {} THEN 0 ELSE c[Pick(s)] + h[s \ {Pick(s)}]
  <2>1. CASE s = {}
    BY <2>1, NoShares
  <2>2. CASE s # {}
    <3> DEFINE x == Pick(s)
    <3>1. x \in s
      BY <2>2 DEF Pick
    <3> HIDE DEF x
    <3>0. IsFiniteSet(s)
      <4>1. IsFiniteSet(1 .. n)
        BY FS_Interval
      <4> QED
        BY <1>1, <4>1, FS_Subset
    <3>2. SharesOf(s, q, r) = Share(x, q, r) + SharesOf(s \ {x}, q, r)
      <4> HIDE DEF h, F
      <4> QED
        BY <3>0, <3>1, SharesStep
    <3>3. h[s \ {x}] = SharesOf(s \ {x}, q, r) /\ c[x] = Share(x, q, r)
      BY <1>1, <3>1
    <3> HIDE DEF h
    <3> QED
      BY <2>2, <3>2, <3>3 DEF x
  <2> QED
    BY <2>1, <2>2
<1>2. h = F
  <2> DEFINE G(s) == IF s = {} THEN 0 ELSE c[Pick(s)] + h[s \ {Pick(s)}]
  <2>1. \A s \in SUBSET (1 .. n) : SharesOf(s, q, r) = G(s)
    BY <1>1
  <2>2. F = [s \in SUBSET (1 .. n) |-> G(s)]
    OBVIOUS
  <2> HIDE DEF G
  <2> QED
    BY <2>1, <2>2
<1>3. IsSum(h, n, c)
  <2> HIDE DEF h
  <2> QED
    BY <1>2 DEF IsSum
<1> HIDE DEF h
<1> QED
  BY <1>3

\* ... and is what the shares are.
LEMMA SharesSum ==
    ASSUME NEW n \in Nat, NEW q \in Nat, NEW r \in 0 .. n, NEW c, NEW g, Shared(c, n, q, r), IsSum(g, n, c)
    PROVE  g[1 .. n] = SharesOf(1 .. n, q, r)
<1>s. \A i \in 1 .. n : c[i] = Share(i, q, r)
  BY DEF Shared
<1> DEFINE wrong == {s \in SUBSET (1 .. n) : g[s] # SharesOf(s, q, r)}
           sizes == {Cardinality(s) : s \in wrong}
<1>0. \A s \in SUBSET (1 .. n) : g[s] = IF s = {} THEN 0 ELSE c[Pick(s)] + g[s \ {Pick(s)}]
  BY DEF IsSum
<1>1. \A s \in SUBSET (1 .. n) : IsFiniteSet(s) /\ Cardinality(s) \in Nat
  <2>1. IsFiniteSet(1 .. n)
    BY FS_Interval
  <2>2. \A s \in SUBSET (1 .. n) : IsFiniteSet(s)
    BY <2>1, FS_Subset
  <2> QED
    BY <2>2, FS_CardinalityType
<1>2. ASSUME wrong # {} PROVE FALSE
  <2>1. sizes \subseteq Nat /\ sizes # {}
    BY <1>1, <1>2
  <2>2. PICK k \in sizes : \A l \in sizes : k <= l
    <3> HIDE DEF sizes
    <3> QED
      BY <2>1, LeastNumber
  <2>3. PICK s \in wrong : k = Cardinality(s)
    BY <2>2
  <2>4. s \in SUBSET (1 .. n) /\ g[s] # SharesOf(s, q, r)
    BY <2>3
  <2>5. CASE s = {}
    BY <1>0, <2>4, <2>5, NoShares
  <2>6. CASE s # {}
    <3> DEFINE x == Pick(s)
    <3>1. x \in s
      BY <2>6 DEF Pick
    <3>2. g[s] = c[x] + g[s \ {x}]
      BY <1>0, <2>4, <2>6
    <3> HIDE DEF x
    <3>3. s \ {x} \in SUBSET (1 .. n) /\ Cardinality(s \ {x}) = k - 1
      BY <1>1, <2>3, <2>4, <3>1, FS_RemoveElement
    <3>4. s \ {x} \notin wrong
      <4>1. k \in Nat /\ ~(k <= k - 1)
        <5> HIDE DEF sizes
        <5>1. k \in Nat
          BY <2>1, <2>2
        <5> QED
          BY <5>1
      <4>2. k - 1 \notin sizes
        <5> HIDE DEF sizes
        <5> QED
          BY <2>2, <4>1
      <4> QED
        BY <3>3, <4>2
    <3>5. g[s \ {x}] = SharesOf(s \ {x}, q, r)
      BY <3>3, <3>4
    <3>6. c[x] = Share(x, q, r)
      BY <1>s, <2>4, <3>1
    <3>7. SharesOf(s, q, r) = Share(x, q, r) + SharesOf(s \ {x}, q, r)
      <4> HIDE DEF wrong, sizes
      <4>1. r \in Nat
        OBVIOUS
      <4> QED
        BY <1>1, <2>4, <3>1, <4>1, SharesStep
    <3> HIDE DEF wrong
    <3> QED
      BY <2>4, <3>2, <3>5, <3>6, <3>7
  <2> QED
    BY <2>5, <2>6
<1>3. g[1 .. n] = SharesOf(1 .. n, q, r)
  <2>1. 1 .. n \in SUBSET (1 .. n)
    OBVIOUS
  <2> QED
    BY <1>2, <2>1
<1> QED
  BY <1>3

LEMMA AllShares ==
    ASSUME NEW n \in Nat, NEW q \in Nat, NEW r \in 0 .. n
    PROVE  SharesOf(1 .. n, q, r) = q * n + r
<1>1. Extra(1 .. n, r) = 1 .. r
  BY DEF Extra
<1>2. Cardinality(1 .. n) = n /\ Cardinality(1 .. r) = r
  BY FS_Interval
<1> QED
  BY <1>1, <1>2 DEF SharesOf

LEMMA Division ==
    ASSUME NEW n \in Nat \ {0}, NEW total \in Nat
    PROVE  /\ total \div n \in Nat /\ total % n \in 0 .. n
           /\ total = (total \div n) * n + (total % n)
<1>1. total \div n \in Nat /\ total % n \in 0 .. n
  OBVIOUS
<1>2. total = (total \div n) * n + (total % n)
  OBVIOUS
<1> QED
  BY <1>1, <1>2

\* partitionValue hands out a share to each shard.
LEMMA PartitionShares ==
    ASSUME totalShards \in Nat \ {0}, NEW total \in Nat, NEW i \in Nat \ {0}
    PROVE  Registry!partitionValue(total, i - 1) = Share(i, total \div totalShards, total % totalShards)
<1>1. total % totalShards \in Nat
  BY Division
<1>2. i - 1 < total % totalShards <=> i <= total % totalShards
  BY <1>1
<1> QED
  BY <1>2 DEF Registry!partitionValue, Share

\* Shares add up and differ by one at most.
LEMMA SharesEven ==
    ASSUME NEW n \in Nat \ {0}, NEW total \in Nat, NEW c,
           \A i \in 1 .. n : c[i] = Share(i, total \div n, total % n)
    PROVE  /\ \E h : IsSum(h, n, c)
           /\ \A g : IsSum(g, n, c) => g[1 .. n] = total
           /\ \A i, j \in 1 .. n : c[i] - c[j] \in -1 .. 1
<1> DEFINE q == total \div n
           r == total % n
<1>1. q \in Nat /\ r \in 0 .. n /\ r \in Nat /\ q * n + r = total
  BY Division
<1> HIDE DEF q, r
<1>2. \A i \in 1 .. n : c[i] = Share(i, q, r)
  BY DEF q, r
<1>3. \E h : IsSum(h, n, c)
  BY <1>1, <1>2, SharesAddUp
<1>4. ASSUME NEW g, IsSum(g, n, c)
      PROVE  g[1 .. n] = total
  <2>1. g[1 .. n] = SharesOf(1 .. n, q, r)
    <3>1. q \in Nat /\ r \in 0 .. n /\ n \in Nat
      BY <1>1
    <3>2. IsSum(g, n, c) /\ Shared(c, n, q, r)
      BY <1>2, <1>4 DEF Shared
    <3> QED
      BY <3>1, <3>2, SharesSum
  <2>2. SharesOf(1 .. n, q, r) = q * n + r
    BY <1>1, AllShares
  <2> QED
    BY <1>1, <2>1, <2>2
<1>5. \A i, j \in 1 .. n : c[i] - c[j] \in -1 .. 1
  BY <1>1, <1>2 DEF Share
<1> QED
  BY <1>3, <1>4, <1>5

LEMMA ConservedCapacity == RegistryInv => Registry!CapacityConserved
<1> SUFFICES ASSUME RegistryInv, stage = "ready" PROVE Registry!CapacityConserved
  BY DEF Registry!CapacityConserved
<1> DEFINE N == totalShards
           bands == config.PriorityBands
<1>1. /\ N \in Nat \ {0} /\ DOMAIN shards = 1 .. N /\ Good(Len(bands))
      /\ \A i \in 1 .. N : shards[i] = Registry!newShard(Registry!partition(i - 1))
      /\ config.MaxBytes \in Nat /\ bands \in Seq(Bands)
  <2>1. PICK S : shards \in Seq(S)
    BY DEF RegistryInv, ShardsBuilt
  <2>2. Len(shards) = N
    BY DEF RegistryInv, ShardsBuilt
  <2>3. DOMAIN shards = 1 .. N
    BY <2>1, <2>2
  <2> QED
    BY <2>2, <2>3 DEF RegistryInv, ShardsBuilt, RegistryConfigs
<1>2. /\ Registry!SumOver(LAMBDA s : s.MaxBytes) = config.MaxBytes
      /\ Registry!Even(LAMBDA s : s.MaxBytes)
  <2> DEFINE c == [i \in 1 .. N |-> shards[i].MaxBytes]
             total == config.MaxBytes
  <2>1. \A i \in 1 .. N : c[i] = Share(i, total \div N, total % N)
    <3> TAKE i \in 1 .. N
    <3>1. shards[i].MaxBytes = Registry!partitionValue(total, i - 1)
      BY <1>1, BandsOfShard
    <3> QED
      BY <1>1, <3>1, i \in Nat \ {0}, PartitionShares
  <2> DEFINE F(g) == [s \in SUBSET (DOMAIN shards) |->
                        IF s = {} THEN 0 ELSE shards[Pick(s)].MaxBytes + g[s \ {Pick(s)}]]
             G(g) == [s \in SUBSET (1 .. N) |-> IF s = {} THEN 0 ELSE c[Pick(s)] + g[s \ {Pick(s)}]]
             iter == CHOOSE g : g = F(g)
  <2>2. \A g : F(g) = G(g)
    <3> TAKE g
    <3>1. \A s \in SUBSET (1 .. N) : s # {} => c[Pick(s)] = shards[Pick(s)].MaxBytes
      BY DEF Pick
    <3> HIDE DEF c
    <3> QED
      BY <1>1, <3>1
  <2>3. /\ \E h : h = G(h)
        /\ \A g : g = G(g) => g[1 .. N] = total
        /\ \A i, j \in 1 .. N : c[i] - c[j] \in -1 .. 1
    <3> HIDE DEF c
    <3> QED
      BY <1>1, <2>1, SharesEven DEF IsSum
  <2>4. iter = F(iter)
    <3> HIDE DEF F, G
    <3> QED
      BY <2>2, <2>3
  <2>5. iter[1 .. N] = total
    <3> HIDE DEF F, G, iter
    <3> QED
      BY <2>2, <2>3, <2>4
  <2>6. Registry!SumOver(LAMBDA s : s.MaxBytes) = iter[DOMAIN shards]
    BY DEF Registry!SumOver, Registry!MapThenSumSet, Registry!MapThenFoldSet, Pick
  <2>7. Registry!Even(LAMBDA s : s.MaxBytes)
    BY <1>1, <2>3 DEF Registry!Even
  <2> HIDE DEF iter
  <2> QED
    BY <1>1, <2>5, <2>6, <2>7
<1>3. ASSUME NEW band \in Registry!Range(bands)
      PROVE  LET capacity(s) == s.priorityBands[band.Priority].MaxBytes
             IN  Registry!SumOver(capacity) = band.MaxBytes /\ Registry!Even(capacity)
  <2>0. PICK b \in 1 .. Len(bands) : band = bands[b]
    BY <1>1, <1>3 DEF Registry!Range
  <2> DEFINE c == [i \in 1 .. N |-> shards[i].priorityBands[band.Priority].MaxBytes]
             total == band.MaxBytes
  <2>1. total \in Nat /\ \A i \in 1 .. N : c[i] = Share(i, total \div N, total % N)
    <3>1. band \in Bands
      BY <1>1, <2>0
    <3>2. total \in Nat
      BY <3>1 DEF Bands
    <3>3. ASSUME NEW i \in 1 .. N
          PROVE  c[i] = Share(i, total \div N, total % N)
      <4>1. shards[i].priorityBands[band.Priority] = [band EXCEPT !.MaxBytes = Registry!partitionValue(@, i - 1)]
        <5>1. shards[i] = Registry!newShard(Registry!partition(i - 1)) /\ Good(Len(config.PriorityBands))
          BY <1>1
        <5>2. \A a \in 1 .. Len(config.PriorityBands) :
                 Registry!newShard(Registry!partition(i - 1)).priorityBands[config.PriorityBands[a].Priority] =
                   [config.PriorityBands[a] EXCEPT !.MaxBytes = Registry!partitionValue(@, i - 1)]
          BY <5>1, BandsOfShard
        <5> QED
          BY <2>0, <5>1, <5>2
      <4>2. shards[i].priorityBands[band.Priority].MaxBytes = Registry!partitionValue(total, i - 1)
        BY <3>1, <4>1 DEF Bands
      <4> QED
        BY <1>1, <3>2, <4>2, i \in Nat \ {0}, PartitionShares
    <3> QED
      BY <3>2, <3>3
  <2> DEFINE F(g) == [s \in SUBSET (DOMAIN shards) |->
                        IF s = {} THEN 0 ELSE shards[Pick(s)].priorityBands[band.Priority].MaxBytes + g[s \ {Pick(s)}]]
             G(g) == [s \in SUBSET (1 .. N) |-> IF s = {} THEN 0 ELSE c[Pick(s)] + g[s \ {Pick(s)}]]
             iter == CHOOSE g : g = F(g)
  <2>2. \A g : F(g) = G(g)
    <3> TAKE g
    <3>1. \A s \in SUBSET (1 .. N) : s # {} => c[Pick(s)] = shards[Pick(s)].priorityBands[band.Priority].MaxBytes
      BY DEF Pick
    <3> HIDE DEF c
    <3> QED
      BY <1>1, <3>1
  <2>3. /\ \E h : h = G(h)
        /\ \A g : g = G(g) => g[1 .. N] = total
        /\ \A i, j \in 1 .. N : c[i] - c[j] \in -1 .. 1
    <3> HIDE DEF c
    <3> QED
      BY <1>1, <2>1, SharesEven DEF IsSum
  <2>4. iter = F(iter)
    <3> HIDE DEF F, G
    <3> QED
      BY <2>2, <2>3
  <2>5. iter[1 .. N] = total
    <3> HIDE DEF F, G, iter
    <3> QED
      BY <2>2, <2>3, <2>4
  <2>6. Registry!SumOver(LAMBDA s : s.priorityBands[band.Priority].MaxBytes) = iter[DOMAIN shards]
    BY DEF Registry!SumOver, Registry!MapThenSumSet, Registry!MapThenFoldSet, Pick
  <2>7. Registry!Even(LAMBDA s : s.priorityBands[band.Priority].MaxBytes)
    BY <1>1, <2>3 DEF Registry!Even
  <2> HIDE DEF iter
  <2> QED
    BY <1>1, <2>5, <2>6, <2>7
<1> QED
  BY <1>2, <1>3 DEF Registry!CapacityConserved

\* For any configuration and number of shards: partitioning loses no byte and
\* invents none, globally and for each band, and no shard is favoured by more
\* than one.
THEOREM CapacityIsConserved == RegistryTyped /\ Registry!Spec => []CapacityConserved
<1>1. RegistryInv => CapacityConserved
  BY ConservedCapacity DEF CapacityConserved
<1> QED
  BY RegistryInit, RegistryStep, <1>1, PTL DEF Registry!Spec
=============================================================================
