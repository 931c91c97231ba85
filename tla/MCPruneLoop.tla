---------------------------- MODULE MCPruneLoop ----------------------------
(***************************************************************************)
(* All ingresses of up to three rules with one to three paths each, to the *)
(* proxy service "p" that goes away or to another one.                     *)
(***************************************************************************)
EXTENDS PruneLoop

MCBackends == SeqOf({"p", "q"}, 3) \ {<< >>}

MCInputs ==
  {[h \in DOMAIN backends |->
      [host  |-> h,
       paths |-> [k \in DOMAIN backends[h] |->
                    [backend |-> backends[h][k], nth |-> k]]]] :
     backends \in SeqOf(MCBackends, 3)}
=============================================================================
