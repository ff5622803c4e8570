---------------------------- MODULE MCKwokNodes ----------------------------
EXTENDS KwokNodes

(***************************************************************************)
(* Bases whose second node needs a carry through all octets, and has no    *)
(* address: what it takes millions of nodes to reach from 10.0.0.10.       *)
(***************************************************************************)
MCBaseIps == {<<254, 255, 255, 255>>, <<255, 255, 255, 255>>}

===========================================================================
