-------------------------- MODULE MCProductService --------------------------
EXTENDS ProductService, TLC

CONSTANTS n1, n2, n3, w1, r1

\* two front ends, each with the address of a node of its own
MCAddr == (w1 :> n1) @@ (r1 :> n2)
==============================================================================
