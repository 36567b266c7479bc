----------------------------- MODULE MCDownload -----------------------------
(***************************************************************************)
(* Two downloads, and what a user may have configured.                     *)
(***************************************************************************)
EXTENDS Download

MCParts == [a |-> 2, b |-> 1]

(* Profiles p1 and p2, either of which may lack a token or be the default. *)
MCEnvironments ==
  {[token |-> t, apiToken |-> a, profile |-> p, config |-> c,
    defaultProfile |-> d, tokens |-> [p1 |-> "tok1", p2 |-> k]] :
     t \in {"", "flag"}, a \in {"", "env"}, p \in {"", "p1", "p2", "p3"},
     c \in BOOLEAN, d \in {"", "p1"}, k \in {"", "tok2"}}
=============================================================================
