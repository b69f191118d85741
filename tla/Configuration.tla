---------------------------- MODULE Configuration ----------------------------
(***************************************************************************)
(* What an operator configures, side by side: the plugins and profiles of  *)
(* the scheduler (ConfigLoader) and the priority bands of the flow         *)
(* registry, partitioned over its shards (RegistryConfig).  They share no  *)
(* state.                                                                  *)
(***************************************************************************)
CONSTANTS RawConfigs, Roles,                         \* the loader's
          BandConfigs, MaxBands, MaxTotal, MaxShards \* the registry's

VARIABLES cfg, handle, picker, phase,
          config, totalShards, stage, next, shards

loaderVars == <<cfg, handle, picker, phase>>
registryVars == <<config, totalShards, stage, next, shards>>

Loader == INSTANCE ConfigLoader
Registry == INSTANCE RegistryConfig WITH pc <- stage

-----------------------------------------------------------------------------
\* A configuration that loads can be run, whatever order maps are iterated in
\* (pkg/epp/config/loader).
LoadedRunnable == Loader!LoadedRunnable

\* Every shard of an accepted configuration can be used
\* (pkg/epp/flowcontrol/registry).
ShardsUsable == Registry!ShardsUsable

\* Partitioning a configuration conserves its capacity
\* (pkg/epp/flowcontrol/registry).
CapacityConserved == Registry!CapacityConserved
=============================================================================
