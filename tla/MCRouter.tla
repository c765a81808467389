------------------------------- MODULE MCRouter -------------------------------
(***************************************************************************)
(* Router for TLC: a host on a link of the router, and one behind a        *)
(* gateway on another link, in a network of which another route has a part.*)
(***************************************************************************)
EXTENDS Router

CONSTANTS a, gateway, far, stray

MCHost == {a, gateway, far, stray}

Table ==
  << [net |-> {a, Me}, len |-> 2, hop |-> None],
     [net |-> {gateway}, len |-> 2, hop |-> None],
     [net |-> {a, far}, len |-> 1, hop |-> gateway],
     [net |-> MCHost, len |-> 0, hop |-> a] >>
=============================================================================
