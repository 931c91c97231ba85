----------------------------- MODULE PruneLoop -----------------------------
(***************************************************************************)
(* The two nested loops of finalizeWebapp, step by step over Go slices.    *)
(* "range" fixes the length of a slice when a loop begins and reads the    *)
(* elements from its backing array when it gets there; slices.Delete       *)
(* shifts the array and zeroes the element behind the new end.  A rule     *)
(* points to its list of paths, a path to its backend service: in a zeroed *)
(* element the pointer is nil and to follow it is a panic.                 *)
(***************************************************************************)
EXTENDS IngressRules

CONSTANTS
  Inputs,  \* rules of the ingress as finalizeWebapp may find them
  Proxy,   \* name of the proxy service that is going away
  Zero     \* a zeroed element of a slice

ASSUME InputsAssumption ==
  \A rules \in Inputs :
    /\ Zero \notin DOMAIN rules
    /\ \A j \in DOMAIN rules :
         rules[j].paths # << >> /\ Zero \notin Range(rules[j].paths)

VARIABLES
  input,  \* the rules at the start
  rules,  \* slice of rules, each given by its index in the input
  paths,  \* slices of paths of the input's rules, which pointers share
  j,      \* position in the outer loop
  i,      \* position in the inner loop
  n,      \* length of the paths the inner loop ranges over
  pc

vars == <<input, rules, paths, j, i, n, pc>>

\* A slice: its backing array, and how many elements of it are in use.
Slice(array) == [array |-> array, len |-> Len(array)]
InUse(s) == SubSeq(s.array, 1, s.len)

\* slices.Delete(s, k, k+1), and whether its bounds check lets it.
InBounds(s, k) == k <= s.len
Deleted(s, k) ==
  [array |-> [m \in DOMAIN s.array |->
                IF m < k \/ m > s.len THEN s.array[m]
                ELSE IF m = s.len THEN Zero
                ELSE s.array[m + 1]],
   len   |-> s.len - 1]

Init ==
  /\ input \in Inputs
  /\ rules = Slice([k \in DOMAIN input |-> k])
  /\ paths = [k \in DOMAIN input |-> Slice(input[k].paths)]
  /\ j = 1 /\ i = 1 /\ n = 0
  /\ pc = "rule"

Panic == pc' = "panic" /\ UNCHANGED <<input, rules, paths, j, i, n>>

\* for j, rule := range ingress.Spec.Rules
NextRule ==
  /\ pc = "rule"
  /\ \/ /\ j > Len(input)
        /\ pc' = "done"
        /\ UNCHANGED <<input, rules, paths, j, i, n>>
     \/ /\ j <= Len(input)
        /\ rules.array[j] = Zero
        /\ Panic
     \/ /\ j <= Len(input)
        /\ rules.array[j] # Zero
        /\ i' = 1
        /\ n' = paths[rules.array[j]].len
        /\ pc' = "path"
        /\ UNCHANGED <<input, rules, paths, j>>

\* for i, path := range rule.HTTP.Paths; the copy in "rule" shares its pointer
\* with the slice, which nothing has moved since the outer loop read it.
NextPath ==
  LET rule == rules.array[j]
      slice == paths[rule]
  IN
  /\ pc = "path"
  /\ i <= n
  /\ IF slice.array[i] = Zero THEN Panic
     ELSE IF slice.array[i].backend # Proxy
     THEN i' = i + 1 /\ UNCHANGED <<input, rules, paths, j, n, pc>>
     ELSE IF ~InBounds(slice, i) THEN Panic
     ELSE /\ paths' = [paths EXCEPT ![rule] = Deleted(slice, i)]
          /\ i' = i + 1
          /\ UNCHANGED <<input, rules, j, n, pc>>

\* (Mutant of EndOfRule: a rule without paths stays.)
EndOfRuleKeeping ==
  /\ pc = "path"
  /\ i > n
  /\ j' = j + 1
  /\ pc' = "rule"
  /\ UNCHANGED <<input, rules, paths, i, n>>

\* if len(rule.HTTP.Paths) == 0
EndOfRule ==
  /\ pc = "path"
  /\ i > n
  /\ IF paths[rules.array[j]].len = 0 /\ ~InBounds(rules, j) THEN Panic
     ELSE /\ rules' = IF paths[rules.array[j]].len = 0
                     THEN Deleted(rules, j) ELSE rules
          /\ j' = j + 1
          /\ pc' = "rule"
          /\ UNCHANGED <<input, paths, i, n>>

Next == NextRule \/ NextPath \/ EndOfRule

Spec == Init /\ [][Next]_vars

-----------------------------------------------------------------------------
\* The rules that the ingress in memory holds.
Result == LET left == InUse(rules) IN
  [k \in DOMAIN left |-> [input[left[k]] EXCEPT !.paths = InUse(paths[left[k]])]]

\* The elements of s at some of its positions, in the order they have in s: the
\* m-th is the one whose position has m - 1 others before it.
ElementsAt(s, positions) ==
  [m \in 1 .. Cardinality(positions) |->
     s[CHOOSE k \in positions : Cardinality({l \in positions : l <= k}) = m]]

\* What the loops are meant to do: drop the paths to the proxy service, then
\* the rules without a path.
Wanted ==
  LET others(k) == {m \in DOMAIN input[k].paths : input[k].paths[m].backend # Proxy}
      trimmed == [k \in DOMAIN input |->
                    [input[k] EXCEPT !.paths = ElementsAt(@, others(k))]]
  IN ElementsAt(trimmed, {k \in DOMAIN input : others(k) # {}})

\* The loops panic on exactly the ingresses that PrunePanics describes, and
\* otherwise leave what Pruned says: the actions of WebappController that use
\* these two do what the code does.
ClosedFormsHold ==
  /\ pc = "panic" => PrunePanics(input, Proxy)
  /\ pc = "done"  => ~PrunePanics(input, Proxy) /\ Result = Pruned(input, Proxy)

\* When the loops get through, the result is right: deleting from the slices
\* they range over makes them panic, never keep or lose a wrong route.
RightUnlessPanic == pc = "done" => Result = Wanted
-----------------------------------------------------------------------------
(* The invariant of the loops, behind ClosedFormsHold.                     *)

Paths(k)  == input[k].paths
AllRules  == Slice([k \in DOMAIN input |-> k])

\* Rule k when the inner loop has got through it.
Trimmed(k) == IF Last(Paths(k)).backend = Proxy
              THEN Deleted(Slice(Paths(k)), Len(Paths(k)))
              ELSE Slice(Paths(k))

\* Rule k makes neither loop skip an element and step on a zeroed one.
Harmless(k) ==
  /\ \A m \in DOMAIN Paths(k) : m < Len(Paths(k)) => Paths(k)[m].backend # Proxy
  /\ ~(k < Len(input) /\ Len(Paths(k)) = 1 /\ Paths(k)[1].backend = Proxy)

\* Rules before the current one are trimmed, later ones are untouched, and none
\* is gone but possibly the last.
OnCourse ==
  /\ \A k \in DOMAIN input :
       /\ k < j => paths[k] = Trimmed(k) /\ Harmless(k)
       /\ k > j \/ (k = j /\ pc = "rule") => paths[k] = Slice(Paths(k))
  /\ rules = IF j > Len(input) /\ input # << >> /\ Trimmed(Len(input)).len = 0
             THEN Deleted(AllRules, Len(input))
             ELSE AllRules

\* The last element is zeroed and has yet to be visited.
Zeroed(s, length, next) ==
  /\ next <= length
  /\ DOMAIN s.array = 1 .. length
  /\ s.len \in Int /\ s.len <= length
  /\ s.array[length] = Zero

\* A rule was deleted that was not the last: the loops will panic.
OffCourse ==
  /\ PrunePanics(input, Proxy)
  /\ Zeroed(rules, Len(input), j)
  /\ pc = "path" => rules.array[j] # Zero

\* Within a rule, the paths visited are others', only the last was deleted, or
\* one was that was not the last.
WithinRule ==
  LET before(m) == \A l \in 1 .. m - 1 : Paths(j)[l].backend # Proxy
  IN
  /\ n = Len(Paths(j)) /\ i <= n + 1
  /\ \/ paths[j] = Slice(Paths(j)) /\ before(i)
     \/ /\ i = n + 1 /\ before(n) /\ Paths(j)[n].backend = Proxy
        /\ paths[j] = Deleted(Slice(Paths(j)), n)
     \/ PrunePanics(input, Proxy) /\ Zeroed(paths[j], n, i)

LoopInv ==
  /\ input \in Inputs
  /\ j \in Nat \ {0} /\ i \in Nat \ {0}
  /\ DOMAIN paths = DOMAIN input
  /\ pc \in {"rule", "path", "done", "panic"}
  /\ pc = "rule" => j <= Len(input) + 1 /\ (OnCourse \/ OffCourse)
  /\ pc = "path" => j <= Len(input) /\ ((OnCourse /\ WithinRule) \/ OffCourse)
  /\ pc = "done" => j = Len(input) + 1 /\ OnCourse
  /\ pc = "panic" => PrunePanics(input, Proxy)
=============================================================================
