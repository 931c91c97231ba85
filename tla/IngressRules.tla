---------------------------- MODULE IngressRules ----------------------------
(***************************************************************************)
(* What finalizeWebapp's two nested loops do to the rules of the global    *)
(* ingress, as a function of the rules and of the proxy service that is    *)
(* going away.  The loops call slices.Delete on the slices they range      *)
(* over: module PruneLoop runs them step by step and shows that these      *)
(* closed forms say what they do.                                          *)
(***************************************************************************)
EXTENDS Naturals, Sequences, SequencesExt

\* (Mutant of PrunePanics: only the inner loop is looked at.)
PrunePanicsInside(rules, p) ==
  \E j \in DOMAIN rules :
    LET paths == rules[j].paths IN
    \E i \in DOMAIN paths : i < Len(paths) /\ paths[i].backend = p

\* The loops dereference a nil pointer unless the paths to p are the last of
\* their rule, and a rule they empty is the last of the ingress: slices.Delete
\* moves later elements down and zeroes the tail, which the loop still visits.
PrunePanics(rules, p) ==
  \E j \in DOMAIN rules :
    LET paths == rules[j].paths IN
    \/ \E i \in DOMAIN paths : i < Len(paths) /\ paths[i].backend = p
    \/ j < Len(rules) /\ Len(paths) = 1 /\ paths[1].backend = p

\* (Mutants of Pruned: a rule goes with its path; a rule stays without paths.)
PrunedByRule(rules, p) ==
  SelectSeq(rules, LAMBDA rule : Last(rule.paths).backend # p)
PrunedPathsOnly(rules, p) ==
  [j \in DOMAIN rules |-> IF Last(rules[j].paths).backend = p
                         THEN [rules[j] EXCEPT !.paths = Front(@)]
                         ELSE rules[j]]

\* What the loops leave when they do not panic.
Pruned(rules, p) ==
  LET paths(j) == rules[j].paths
      trimmed == [j \in DOMAIN rules |->
                    IF Last(paths(j)).backend = p
                    THEN [rules[j] EXCEPT !.paths = Front(@)]
                    ELSE rules[j]]
  IN IF trimmed # << >> /\ Last(trimmed).paths = << >>
     THEN Front(trimmed)
     ELSE trimmed

\* One rule per host, and no rule without a path.
WellFormed(rules) ==
  /\ \A j \in DOMAIN rules : rules[j].paths # << >>
  /\ \A j, k \in DOMAIN rules : rules[j].host = rules[k].host => j = k

\* Whether some rule sends requests to backend p.
RoutesTo(rules, p) ==
  \E j \in DOMAIN rules : \E i \in DOMAIN rules[j].paths :
    rules[j].paths[i].backend = p
=============================================================================
