----------------------------- MODULE MCOperator -----------------------------
(***************************************************************************)
(* Instances of Operator for TLC: a Webapp's spec is the pair of the       *)
(* repository's spec, which tells its host, and the number of a build.     *)
(***************************************************************************)
EXTENDS Operator, TLC

CONSTANT w1

MCSpecs == RepoSpecs \X Builds

MCRendered == [s \in RepoSpecs \X Builds |-> s]

MCHash == [s \in MCSpecs |-> s]

MCHostOf == [s \in MCSpecs |-> IF s[1] = "b" THEN "h2" ELSE "h1"]

\* A spec has the quirk it is named for.
MCQuirkOf == [s \in MCSpecs |-> IF s[1] \in Quirks THEN s[1] ELSE "none"]

MCProxyName == [w \in Webapps |-> w]
=============================================================================
