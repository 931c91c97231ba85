------------------------- MODULE IngressRulesProofs -------------------------
(***************************************************************************)
(* Lemmas about the rules that the finalizer leaves in the ingress, and    *)
(* about the sequences that updateIngress builds rules from.               *)
(***************************************************************************)
EXTENDS IngressRules, SequenceTheorems, FiniteSetTheorems, TLAPS

\* Front leaves out the last element and keeps the others.
LEMMA FrontProperties ==
  ASSUME NEW S, NEW s \in Seq(S)
  PROVE  /\ Front(s) \in Seq(S)
         /\ s # << >> => /\ Len(Front(s)) = Len(s) - 1
                         /\ \A i \in 1 .. Len(s) - 1 : Front(s)[i] = s[i]
<1>1. ASSUME NEW n \in Int, \A i \in 1 .. n : s[i] \in S
      PROVE  /\ SubSeq(s, 1, n) \in Seq(S)
             /\ n >= 0 => Len(SubSeq(s, 1, n)) = n
             /\ \A i \in 1 .. n : SubSeq(s, 1, n)[i] = s[i]
  BY <1>1
<1>2. \A i \in 1 .. Len(s) - 1 : s[i] \in S
  BY LenProperties
<1>3. s # << >> => Len(s) - 1 >= 0
  BY EmptySeq
<1>4. Len(s) - 1 \in Int
  BY LenProperties
<1>. QED
  BY <1>1, <1>2, <1>3, <1>4 DEF Front

\* Pruning rules gives rules again.
LEMMA PrunedTypes ==
  ASSUME NEW Hosts, NEW Path, NEW p,
         NEW rules \in Seq([host : Hosts, paths : Seq(Path)])
  PROVE  Pruned(rules, p) \in Seq([host : Hosts, paths : Seq(Path)])
<1>. DEFINE Rule == [host : Hosts, paths : Seq(Path)]
            trimmed == [j \in DOMAIN rules |->
                          IF Last(rules[j].paths).backend = p
                          THEN [rules[j] EXCEPT !.paths = Front(@)]
                          ELSE rules[j]]
<1>1. /\ DOMAIN rules = 1 .. Len(rules)
      /\ Len(rules) \in Nat
      /\ \A j \in DOMAIN rules : rules[j] \in Rule
  BY LenProperties
<1>2. \A j \in DOMAIN rules : Front(rules[j].paths) \in Seq(Path)
  BY <1>1, FrontProperties
<1>3. \A j \in DOMAIN rules : trimmed[j] \in Rule
  BY <1>1, <1>2
<1>4. trimmed \in Seq(Rule)
  BY <1>1, <1>3
<1>5. Front(trimmed) \in Seq(Rule)
  BY <1>4, FrontProperties
<1>. QED
  BY <1>4, <1>5 DEF Pruned

\* Path i of rule j is still there in the new rules, at its place and under its
\* host.
Keeps(new, rules, j, i) ==
  /\ j \in DOMAIN new
  /\ new[j].host = rules[j].host
  /\ i \in DOMAIN new[j].paths
  /\ new[j].paths[i] = rules[j].paths[i]

\* Pruning the paths to p keeps every other path.
LEMMA PrunedKeeps ==
  ASSUME NEW Hosts, NEW Path, NEW p,
         NEW rules \in Seq([host : Hosts, paths : Seq(Path)])
  PROVE  \A j \in DOMAIN rules : \A i \in DOMAIN rules[j].paths :
           rules[j].paths[i].backend # p => Keeps(Pruned(rules, p), rules, j, i)
<1>. SUFFICES ASSUME NEW j \in DOMAIN rules, NEW i \in DOMAIN rules[j].paths,
                     rules[j].paths[i].backend # p
              PROVE  /\ j \in DOMAIN Pruned(rules, p)
                     /\ Pruned(rules, p)[j].host = rules[j].host
                     /\ i \in DOMAIN Pruned(rules, p)[j].paths
                     /\ Pruned(rules, p)[j].paths[i] = rules[j].paths[i]
  BY DEF Keeps
<1>. DEFINE Rule == [host : Hosts, paths : Seq(Path)]
            trimmed == [k \in DOMAIN rules |->
                          IF Last(rules[k].paths).backend = p
                          THEN [rules[k] EXCEPT !.paths = Front(@)]
                          ELSE rules[k]]
<1>1. /\ DOMAIN rules = 1 .. Len(rules)
      /\ Len(rules) \in Nat
      /\ \A k \in DOMAIN rules : rules[k] \in Rule /\ rules[k].paths \in Seq(Path)
  <2>1. \A k \in DOMAIN rules : rules[k] \in Rule
    BY LenProperties
  <2>. QED
    BY <2>1, LenProperties
<1>2. \A k \in DOMAIN rules : /\ Front(rules[k].paths) \in Seq(Path)
                              /\ trimmed[k] \in Rule
                              /\ trimmed[k].host = rules[k].host
  BY <1>1, FrontProperties
<1>3. i \in DOMAIN trimmed[j].paths /\ trimmed[j].paths[i] = rules[j].paths[i]
  <2>. DEFINE paths == rules[j].paths
  <2>1. /\ paths \in Seq(Path) /\ DOMAIN paths = 1 .. Len(paths)
        /\ Len(paths) \in Nat /\ paths # << >>
    BY <1>1, LenProperties, EmptySeq
  <2>2. CASE Last(paths).backend = p
    <3>1. trimmed[j].paths = Front(paths)
      BY <1>1, <2>2
    <3>2. i # Len(paths)
      BY <2>2 DEF Last
    <3>3. /\ Front(paths) \in Seq(Path) /\ Len(Front(paths)) = Len(paths) - 1
          /\ \A k \in 1 .. Len(paths) - 1 : Front(paths)[k] = paths[k]
      BY <2>1, FrontProperties
    <3>4. DOMAIN Front(paths) = 1 .. Len(paths) - 1
      BY <3>3, LenProperties
    <3>. QED
      BY <2>1, <3>1, <3>2, <3>3, <3>4
  <2>3. CASE Last(paths).backend # p
    BY <2>3
  <2>. QED
    BY <2>2, <2>3
<1>4. /\ trimmed \in Seq(Rule) /\ Len(trimmed) = Len(rules)
      /\ DOMAIN trimmed = DOMAIN rules
  BY <1>1, <1>2
<1>. HIDE DEF trimmed
<1>5. CASE trimmed # << >> /\ Last(trimmed).paths = << >>
  <2>1. Pruned(rules, p) = Front(trimmed)
    BY <1>5 DEF Pruned, trimmed
  <2>2. j # Len(rules)
    BY <1>3, <1>4, <1>5, EmptySeq DEF Last
  <2>3. /\ Len(Front(trimmed)) = Len(rules) - 1
        /\ Front(trimmed) \in Seq(Rule)
        /\ \A k \in 1 .. Len(rules) - 1 : Front(trimmed)[k] = trimmed[k]
    BY <1>4, <1>5, FrontProperties
  <2>4. DOMAIN Front(trimmed) = 1 .. Len(rules) - 1
    BY <2>3, LenProperties
  <2>5. j \in 1 .. Len(rules) - 1
    BY <1>1, <2>2
  <2>6. Pruned(rules, p)[j] = trimmed[j]
    BY <2>1, <2>3, <2>5
  <2>. QED
    BY <1>2, <1>3, <2>1, <2>4, <2>5, <2>6
<1>6. CASE ~(trimmed # << >> /\ Last(trimmed).paths = << >>)
  <2>1. Pruned(rules, p) = trimmed
    BY <1>6 DEF Pruned, trimmed
  <2>. QED
    BY <1>2, <1>3, <1>4, <2>1
<1>. QED
  BY <1>5, <1>6

\* Where the loops do not panic, what they leave has a path in every rule and
\* one rule per host if it was so before: only the last rule can end up empty.
LEMMA PrunedWellFormed ==
  ASSUME NEW Hosts, NEW Path, NEW p,
         NEW rules \in Seq([host : Hosts, paths : Seq(Path)]),
         WellFormed(rules), ~PrunePanics(rules, p)
  PROVE  WellFormed(Pruned(rules, p))
<1>. DEFINE Rule == [host : Hosts, paths : Seq(Path)]
            trimmed == [k \in DOMAIN rules |->
                          IF Last(rules[k].paths).backend = p
                          THEN [rules[k] EXCEPT !.paths = Front(@)]
                          ELSE rules[k]]
<1>1. /\ DOMAIN rules = 1 .. Len(rules)
      /\ Len(rules) \in Nat
      /\ \A k \in DOMAIN rules : rules[k] \in Rule /\ rules[k].paths \in Seq(Path)
  <2>1. \A k \in DOMAIN rules : rules[k] \in Rule
    BY LenProperties
  <2>. QED
    BY <2>1, LenProperties
<1>2. \A k \in DOMAIN rules : /\ trimmed[k] \in Rule
                              /\ trimmed[k].host = rules[k].host
  BY <1>1, FrontProperties
<1>3. ASSUME NEW k \in DOMAIN rules, k < Len(rules)
      PROVE  trimmed[k].paths # << >>
  <2>. DEFINE paths == rules[k].paths
  <2>1. /\ paths \in Seq(Path) /\ Len(paths) \in Nat /\ paths # << >>
    BY <1>1, LenProperties DEF WellFormed
  <2>2. CASE Last(paths).backend = p
    <3>1. Len(paths) # 1
      BY <1>3, <2>2 DEF Last, PrunePanics
    <3>2. Len(Front(paths)) = Len(paths) - 1 /\ Front(paths) \in Seq(Path)
      BY <2>1, FrontProperties
    <3>3. trimmed[k].paths = Front(paths)
      BY <1>1, <2>2
    <3>4. Len(Front(paths)) # 0
      BY <2>1, <3>1, <3>2, EmptySeq
    <3>5. Front(paths) # << >>
      BY <3>4, EmptySeq
    <3>. QED
      BY <3>3, <3>5
  <2>3. CASE Last(paths).backend # p
    BY <2>1, <2>3
  <2>. QED
    BY <2>2, <2>3
<1>4. /\ trimmed \in Seq(Rule) /\ Len(trimmed) = Len(rules)
      /\ DOMAIN trimmed = DOMAIN rules
  BY <1>1, <1>2
<1>5. \A j, k \in DOMAIN trimmed : trimmed[j].host = trimmed[k].host => j = k
  BY <1>2, <1>4 DEF WellFormed
<1>. HIDE DEF trimmed
<1>6. CASE trimmed # << >> /\ Last(trimmed).paths = << >>
  <2>1. Pruned(rules, p) = Front(trimmed)
    BY <1>6 DEF Pruned, trimmed
  <2>2. /\ Len(Front(trimmed)) = Len(rules) - 1
        /\ Front(trimmed) \in Seq(Rule)
        /\ \A k \in 1 .. Len(rules) - 1 : Front(trimmed)[k] = trimmed[k]
    BY <1>4, <1>6, FrontProperties
  <2>3. DOMAIN Front(trimmed) = 1 .. Len(rules) - 1
    BY <2>2, LenProperties
  <2>4. \A k \in 1 .. Len(rules) - 1 : k \in DOMAIN trimmed /\ k < Len(rules)
    BY <1>1, <1>4
  <2>. HIDE DEF Rule
  <2>5. \A k \in DOMAIN Front(trimmed) : Front(trimmed)[k].paths # << >>
    BY <1>3, <1>4, <2>2, <2>3, <2>4
  <2>6. \A j, k \in DOMAIN Front(trimmed) :
          Front(trimmed)[j].host = Front(trimmed)[k].host => j = k
    BY <1>5, <2>2, <2>3, <2>4
  <2>. QED
    BY <2>1, <2>5, <2>6 DEF WellFormed
<1>7. CASE ~(trimmed # << >> /\ Last(trimmed).paths = << >>)
  <2>1. Pruned(rules, p) = trimmed
    BY <1>7 DEF Pruned, trimmed
  <2>2. \A k \in DOMAIN trimmed : k < Len(rules) \/ k = Len(trimmed)
    BY <1>1, <1>4
  <2>3. trimmed = << >> \/ trimmed[Len(trimmed)].paths # << >>
    BY <1>7 DEF Last
  <2>4. \A k \in DOMAIN trimmed : trimmed[k].paths # << >>
    BY <1>1, <1>3, <1>4, <2>2, <2>3
  <2>. QED
    BY <1>5, <2>1, <2>4 DEF WellFormed
<1>. QED
  BY <1>6, <1>7

\* A sequence of all elements of a finite set has each of them once.
LEMMA SeqsOfSet ==
  ASSUME NEW S, IsFiniteSet(S), NEW s \in SetToSeqs(S)
  PROVE  /\ DOMAIN s = 1 .. Cardinality(S) /\ Cardinality(S) \in Nat
         /\ \A i \in DOMAIN s : s[i] \in S
         /\ \A i, j \in DOMAIN s : s[i] = s[j] => i = j
         /\ \A x \in S : \E i \in DOMAIN s : s[i] = x
<1>. DEFINE D == 1 .. Cardinality(S)
<1>1. Cardinality(S) \in Nat /\ IsFiniteSet(D) /\ Cardinality(D) = Cardinality(S)
  BY FS_CardinalityType, FS_Interval
<1>2. s \in [D -> S] /\ \A i, j \in D : s[i] = s[j] => i = j
  BY DEF SetToSeqs
<1>3. s \in Injection(D, S)
  BY <1>2 DEF Injection, IsInjective
<1>4. s \in Surjection(D, S)
  BY <1>1, <1>3, FS_Injection
<1>5. \A x \in S : \E i \in D : s[i] = x
  BY <1>4 DEF Surjection
<1>. QED
  BY <1>1, <1>2, <1>5
=============================================================================
