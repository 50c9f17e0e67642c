----------------------------- MODULE ExecutionMC -----------------------------
(* Execution on small constants for TLC. *)
EXTENDS Execution, TLC

CONSTANTS unset, Slurm, lab, hpc, prod, hosted

------------------------------------------------------------------------------
(* Jobs: a profile of a cluster, and one of a cluster that is named as an SSH *)
(* host.                                                                     *)
SmallProfiles ==
    prod :> [scheduler |-> Slurm, cluster |-> lab] @@ hosted :> [scheduler |-> Slurm, cluster |-> hpc]

------------------------------------------------------------------------------
(* Workspace: a tree on this machine and one on another. *)
SmallPlaces == {<<"a">>, <<"a", "x">>, <<"a", "x", "y">>, <<"hpc", "a">>}
SmallSessions == {None, <<"a">>, <<"a", "x">>}
CwdOf(s) == IF s = CHOOSE v \in Servers : TRUE THEN <<"a">> ELSE <<"a", "projects", "p">>

------------------------------------------------------------------------------
(* Settings: a file of the user and one of a checkout, a dict, a list and a  *)
(* scalar.                                                                   *)
SmallLayers == <<"user", "local">>
Command(v, k, m, x) == [verb |-> v, key |-> k, member |-> m, value |-> x]
SmallCommands ==
    {Command("set", "sources", m, x) : m \in {"a", "b"}, x \in {"x", "y"}}
    \cup {Command("set", k, unset, x) : k \in {"sources", "excludes", "watch"}, x \in {"x", "y"}}
    \cup {Command("add", "excludes", unset, x) : x \in {"x", "y"}}
    \cup {Command("remove", k, unset, unset) : k \in {"sources", "excludes", "watch"}}
    \cup {Command("remove", "excludes", unset, x) : x \in {"x", "y"}}
    \cup {Command("remove", "sources", "a", unset)}
==============================================================================
