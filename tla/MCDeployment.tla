----------------------------- MODULE MCDeployment -----------------------------
(* Constant values for the TLC run of Deployment. *)
EXTENDS Deployment

CONSTANTS hub, git, sim, web, api

\* hub and git race for a name and for a port: git asks for the first one, the
\* others are given it unless a committed row has it.
Kinds == [r \in Requests |-> CASE r = hub -> "dockerhub"
                              [] r = git -> "github"
                              [] r = sim -> "simulated"]
Names == [r \in Requests |-> IF r = sim THEN api ELSE web]
Wants == [r \in Requests |-> IF r = git THEN StartPort ELSE None]
=============================================================================
