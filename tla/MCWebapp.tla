------------------------------ MODULE MCWebapp ------------------------------
(***************************************************************************)
(* Instances of WebappController for TLC.  A spec "a", "b" or "c" is valid *)
(* and wants a route; "plain" wants none; the others are quirks, which the *)
(* code or the API server has trouble with.                                *)
(***************************************************************************)
EXTENDS Convergence, TLC

CONSTANTS w1, w2

\* A hash value of its own for each spec: no collision.
MCHash == [s \in Specs |-> s]

MCHostOf == [s \in Specs |-> CASE s = "plain" -> None
                               [] s = "b"     -> "h2"
                               [] OTHER       -> "h1"]

\* Valid specs have names of one letter, the others the name of their quirk.
MCQuirkOf == [s \in Specs |-> IF s \in Quirks THEN s ELSE "none"]

\* Webapps of one namespace: each names a proxy service of its own, here by
\* the model value of the Webapp itself.
MCProxyName == [w \in Webapps |-> w]

MCSymmetry == Permutations(Webapps)
=============================================================================
