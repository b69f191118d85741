---------------------------- MODULE ConfigLoader ----------------------------
(***************************************************************************)
(* Loading the EndpointPickerConfig (pkg/epp/config/loader): names are     *)
(* defaulted, plugins instantiated into the handle, profiles, handler,     *)
(* picker and weights defaulted, the profiles validated and the scheduler  *)
(* configuration built.  The plugins of the handle are kept in a Go map,   *)
(* so every iteration over them takes an order of its own.                 *)
(*                                                                         *)
(* A configuration is a record: plugins, a sequence of [name, type], and   *)
(* profiles, a sequence of [name, plugins], each plugin a [ref, weight].   *)
(* The empty name and the weight Nil stand for what the text leaves out.   *)
(***************************************************************************)
EXTENDS SequencesExt

CONSTANTS RawConfigs,   \* the configurations that decode
          Roles         \* Roles[type]: the interfaces plugins of a type implement;
                        \* its domain is the plugin registry

VARIABLES cfg,     \* the configuration, as far as defaults were set
          handle,  \* the instantiated plugins: their types by name
          picker,  \* the picker for profiles without one: maxScorePicker
          phase    \* the next step of LoadConfig, or how it ended

vars == <<cfg, handle, picker, phase>>

Nil == 0
DefaultScorerWeight == 1
SingleProfileHandler == "single-profile-handler"
MaxScorePicker == "max-score-picker"

Init == /\ cfg \in RawConfigs
        /\ handle = << >>
        /\ picker = ""
        /\ phase = "names"

ExactlyOne(S) == \E x \in S : S = {x}

\* The roles of the plugin known as name; an unknown name has none.
RolesOf(name) == IF name \in DOMAIN handle THEN Roles[handle[name]] ELSE {}
WithRole(role) == {n \in DOMAIN handle : role \in RolesOf(n)}
AddPlugin(h, name, type) ==
    [n \in DOMAIN h \union {name} |-> IF n = name THEN type ELSE h[n]]

\* loadRawConfig fails on text that does not decode strictly.
DecodeFails ==
    /\ phase = "names"
    /\ phase' = "error"
    /\ UNCHANGED <<cfg, handle, picker>>

\* A plugin without a name is called by its type.
SetDefaultsPhaseOne ==
    /\ phase = "names"
    /\ cfg' = [cfg EXCEPT !.plugins =
                 [i \in DOMAIN @ |-> [type |-> @[i].type,
                                     name |-> IF @[i].name = "" THEN @[i].type
                                                                ELSE @[i].name]]]
    /\ phase' = "instantiate"
    /\ UNCHANGED <<handle, picker>>

\* Names are unique, types registered.  A factory may refuse its parameters.
InstantiatePlugins ==
    /\ phase = "instantiate"
    /\ LET ps == cfg.plugins
           valid == /\ \A i \in DOMAIN ps : ps[i].type \in DOMAIN Roles
                    /\ \A i, j \in DOMAIN ps : ps[i].name = ps[j].name => i = j
       IN  \/ /\ valid
              /\ handle' = [n \in {ps[i].name : i \in DOMAIN ps} |->
                              ps[CHOOSE i \in DOMAIN ps : ps[i].name = n].type]
              /\ phase' = "profiles"
           \/ /\ ~valid \/ ps # << >>
              /\ phase' = "error"
              /\ handle' = handle
    /\ UNCHANGED <<cfg, picker>>

\* setDefaultsPhaseTwo, one default after the other.

\* Without profiles there is one, default, that refers to every scheduling
\* plugin in the order the map is iterated in.
DefaultProfile ==
    /\ phase = "profiles"
    /\ IF cfg.profiles # << >>
         THEN cfg' = cfg
         ELSE \E order \in SetToSeqs(UNION {WithRole(r) : r \in {"filter", "picker",
                                                               "postCycle", "scorer"}}) :
                cfg' = [cfg EXCEPT !.profiles =
                          <<[name |-> "default",
                             plugins |-> [i \in DOMAIN order |->
                                            [ref |-> order[i], weight |-> Nil]]]>>]
    /\ phase' = "handler"
    /\ UNCHANGED <<handle, picker>>

\* A single profile gets a SingleProfileHandler if there is no handler.
DefaultHandler ==
    /\ phase = "handler"
    /\ IF Len(cfg.profiles) = 1 /\ WithRole("handler") = {}
         THEN /\ handle' = AddPlugin(handle, SingleProfileHandler, SingleProfileHandler)
              /\ cfg' = [cfg EXCEPT !.plugins =
                           Append(@, [name |-> SingleProfileHandler,
                                      type |-> SingleProfileHandler])]
         ELSE UNCHANGED <<handle, cfg>>
    /\ phase' = "picker"
    /\ UNCHANGED picker

\* The picker to add is the first picker the iteration meets, or a new
\* MaxScorePicker.
DefaultPicker ==
    /\ phase = "picker"
    /\ IF WithRole("picker") # {}
         THEN /\ picker' \in WithRole("picker")
              /\ UNCHANGED <<handle, cfg>>
         ELSE /\ picker' = MaxScorePicker
              /\ handle' = AddPlugin(handle, MaxScorePicker, MaxScorePicker)
              /\ cfg' = [cfg EXCEPT !.plugins =
                           Append(@, [name |-> MaxScorePicker, type |-> MaxScorePicker])]
    /\ phase' = "weights"

FirstPicker(plugins) ==
    LET at == {i \in DOMAIN plugins : "picker" \in RolesOf(plugins[i].ref)}
    IN  IF at = {} THEN Len(plugins) + 1 ELSE CHOOSE i \in at : \A j \in at : i <= j

\* Scorers get the default weight as long as no picker has been met, and a
\* profile without a picker gets one.
SetWeightsAndPicker(profile) ==
    LET first == FirstPicker(profile.plugins)
        weighted == [i \in DOMAIN profile.plugins |->
                       IF /\ i < first
                          /\ "scorer" \in RolesOf(profile.plugins[i].ref)
                          /\ profile.plugins[i].weight = Nil
                         THEN [profile.plugins[i] EXCEPT !.weight = DefaultScorerWeight]
                         ELSE profile.plugins[i]]
    IN  [profile EXCEPT !.plugins =
           IF first <= Len(weighted) THEN weighted
                                     ELSE Append(weighted, [ref |-> picker, weight |-> Nil])]

DefaultWeightsFirstProfile ==
    /\ phase = "weights"
    /\ cfg' = [cfg EXCEPT !.profiles[1] = SetWeightsAndPicker(@)]
    /\ phase' = "validate"
    /\ UNCHANGED <<handle, picker>>

DefaultWeights ==
    /\ phase = "weights"
    /\ cfg' = [cfg EXCEPT !.profiles =
                 [i \in DOMAIN @ |-> SetWeightsAndPicker(@[i])]]
    /\ phase' = "validate"
    /\ UNCHANGED <<handle, picker>>

\* Profile names are given and unique, references name a configured plugin.
ValidateSchedulingProfiles ==
    /\ phase = "validate"
    /\ LET ps == cfg.profiles
           valid == /\ \A i \in DOMAIN ps : ps[i].name # ""
                    /\ \A i, j \in DOMAIN ps : ps[i].name = ps[j].name => i = j
                    /\ \A i \in DOMAIN ps : \A k \in DOMAIN ps[i].plugins :
                         \E c \in DOMAIN cfg.plugins :
                            /\ ps[i].plugins[k].ref # ""
                            /\ ps[i].plugins[k].ref = cfg.plugins[c].name
       IN  phase' = IF valid THEN "load" ELSE "error"
    /\ UNCHANGED <<cfg, handle, picker>>

\* A profile's plugins are added in order: dereferencing the missing weight of
\* a scorer panics, a second picker is an error.
LoadProfile(plugins) ==
    LET unweighted == {i \in DOMAIN plugins : /\ "scorer" \in RolesOf(plugins[i].ref)
                                              /\ plugins[i].weight = Nil}
        second == {i \in DOMAIN plugins : /\ "picker" \in RolesOf(plugins[i].ref)
                                          /\ i > FirstPicker(plugins)}
    IN  IF unweighted \union second = {} THEN "loaded"
        ELSE IF \E i \in unweighted : \A j \in second : i < j THEN "panic" ELSE "error"

\* The profiles are built one after the other; then there must be exactly one
\* profile handler.
LoadSchedulerConfig ==
    /\ phase = "load"
    /\ LET results == [i \in DOMAIN cfg.profiles |-> LoadProfile(cfg.profiles[i].plugins)]
           failed == {i \in DOMAIN results : results[i] # "loaded"}
       IN  phase' = IF failed # {}
                      THEN results[CHOOSE i \in failed : \A j \in failed : i <= j]
                      ELSE IF ExactlyOne(WithRole("handler")) THEN "loaded" ELSE "error"
    /\ UNCHANGED <<cfg, handle, picker>>

Done == phase \in {"loaded", "error", "panic"} /\ UNCHANGED vars

Next == \/ DecodeFails \/ SetDefaultsPhaseOne \/ InstantiatePlugins
        \/ DefaultProfile \/ DefaultHandler \/ DefaultPicker \/ DefaultWeights
        \/ ValidateSchedulingProfiles \/ LoadSchedulerConfig
        \/ Done

Spec == Init /\ [][Next]_vars

-----------------------------------------------------------------------------
\* Whatever order the maps were iterated in, a configuration that loads can
\* be run: every profile refers to instantiated plugins only, has exactly one
\* picker to end its cycle and weights for all its scorers, and there is one
\* profile handler.
LoadedRunnable ==
    phase = "loaded" =>
      /\ \A i \in DOMAIN cfg.profiles :
           LET ps == cfg.profiles[i].plugins
           IN  /\ \A k \in DOMAIN ps : /\ ps[k].ref \in DOMAIN handle
                                       /\ "scorer" \in RolesOf(ps[k].ref)
                                            => ps[k].weight # Nil
               /\ ExactlyOne({k \in DOMAIN ps : "picker" \in RolesOf(ps[k].ref)})
      /\ ExactlyOne(WithRole("handler"))

\* setDefaultsPhaseTwo "Sets a default weight for all scorers without a
\* weight", so that loading never meets a scorer without one.
AllScorersWeighted == phase # "panic"
=============================================================================
