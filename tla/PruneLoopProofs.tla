--------------------------- MODULE PruneLoopProofs ---------------------------
(***************************************************************************)
(* The closed forms of module IngressRules say what finalizeWebapp's loops *)
(* do, for ingresses of any size.                                          *)
(***************************************************************************)
EXTENDS PruneLoop, IngressRulesProofs

\* The first elements of a sequence, or of a slice's array.
LEMMA Beginning ==
  ASSUME NEW S, NEW s, NEW length \in Nat, \A k \in 1 .. length : s[k] \in S
  PROVE  /\ SubSeq(s, 1, length) \in Seq(S)
         /\ Len(SubSeq(s, 1, length)) = length
         /\ \A k \in 1 .. length : SubSeq(s, 1, length)[k] = s[k]
OBVIOUS

\* What is in use of a whole slice, and of one that lost its last element.
LEMMA SliceInUse ==
  ASSUME NEW S, NEW s \in Seq(S)
  PROVE  /\ InUse(Slice(s)) = s
         /\ s # << >> => InUse(Deleted(Slice(s), Len(s))) = Front(s)
<1>1. /\ Len(s) \in Nat
      /\ \A k \in 1 .. Len(s) : k \in DOMAIN s /\ s[k] \in S
  BY LenProperties, ElementOfSeq
<1>2. InUse(Slice(s)) = s
  BY <1>1, SubSeqFull DEF InUse, Slice
<1>3. ASSUME s # << >>
      PROVE  InUse(Deleted(Slice(s), Len(s))) = Front(s)
  <2>. DEFINE d == [k \in DOMAIN s |-> IF k = Len(s) THEN Zero ELSE s[k]]
  <2>1. Deleted(Slice(s), Len(s)) = [array |-> d, len |-> Len(s) - 1]
    BY <1>1 DEF Deleted, Slice
  <2>2. ASSUME NEW length \in Nat, length < Len(s)
        PROVE  SubSeq(d, 1, length) = SubSeq(s, 1, length)
    <3>1. \A k \in 1 .. length : d[k] = s[k] /\ d[k] \in S /\ s[k] \in S
      <4>1. \A k \in 1 .. length : k \in DOMAIN s /\ k # Len(s)
        BY <1>1, <2>2
      <4>. QED
        BY <1>1, <4>1
    <3>. HIDE DEF d
    <3>2. /\ SubSeq(d, 1, length) \in Seq(S) /\ Len(SubSeq(d, 1, length)) = length
          /\ \A k \in 1 .. length : SubSeq(d, 1, length)[k] = d[k]
      BY <3>1, Beginning
    <3>3. /\ SubSeq(s, 1, length) \in Seq(S) /\ Len(SubSeq(s, 1, length)) = length
          /\ \A k \in 1 .. length : SubSeq(s, 1, length)[k] = s[k]
      BY <3>1, Beginning
    <3>. QED
      BY <3>1, <3>2, <3>3, SeqEqual
  <2>3. Len(s) - 1 \in Nat /\ Len(s) - 1 < Len(s)
    BY <1>1, <1>3, EmptySeq
  <2>. QED
    BY <2>1, <2>2, <2>3 DEF InUse, Front
<1>. QED
  BY <1>2, <1>3

\* Deleting another element leaves the last one zeroed; the loop that meets an
\* element which is not zeroed has not got to the last one.
LEMMA StaysZeroed ==
  ASSUME NEW s, NEW length \in Nat, NEW next \in Nat,
         Zeroed(s, length, next), s.array[next] # Zero
  PROVE  /\ Zeroed(s, length, next + 1)
         /\ Zeroed(Deleted(s, next), length, next + 1)
<1>1. next < length
  BY DEF Zeroed
<1>. QED
  BY <1>1 DEF Zeroed, Deleted

\* Deleting an element that is not the last zeroes the last.
LEMMA DeletionZeroes ==
  ASSUME NEW s, NEW k \in Nat, DOMAIN s = 1 .. Len(s), Len(s) \in Nat,
         k < Len(s)
  PROVE  Zeroed(Deleted(Slice(s), k), Len(s), k + 1)
BY DEF Zeroed, Deleted, Slice

-----------------------------------------------------------------------------
\* Rules as the ingress may hold them: a host, and paths in some order.
InputsTyped(Hosts, Path) == Inputs \subseteq Seq([host : Hosts, paths : Seq(Path)])

\* The facts about the rules given to the loops.
LEMMA InputFacts ==
  ASSUME NEW Hosts, NEW Path, InputsTyped(Hosts, Path), input \in Inputs
  PROVE  /\ input \in Seq([host : Hosts, paths : Seq(Path)])
         /\ Len(input) \in Nat /\ DOMAIN input = 1 .. Len(input)
         /\ Zero \notin DOMAIN input
         /\ \A k \in DOMAIN input :
              /\ Paths(k) \in Seq(Path) /\ Len(Paths(k)) \in Nat \ {0}
              /\ DOMAIN Paths(k) = 1 .. Len(Paths(k))
              /\ \A m \in DOMAIN Paths(k) : Paths(k)[m] # Zero
         /\ DOMAIN AllRules.array = DOMAIN input /\ AllRules.len = Len(input)
         /\ \A k \in DOMAIN input : AllRules.array[k] = k
<1>1. input \in Seq([host : Hosts, paths : Seq(Path)])
  BY DEF InputsTyped
<1>2. Len(input) \in Nat /\ DOMAIN input = 1 .. Len(input)
  BY <1>1, LenProperties
<1>3. ASSUME NEW k \in DOMAIN input
      PROVE  /\ Paths(k) \in Seq(Path) /\ Len(Paths(k)) \in Nat \ {0}
             /\ DOMAIN Paths(k) = 1 .. Len(Paths(k))
             /\ \A m \in DOMAIN Paths(k) : Paths(k)[m] # Zero
  <2>1. input[k] \in [host : Hosts, paths : Seq(Path)]
    BY <1>1, LenProperties
  <2>2. Paths(k) \in Seq(Path)
    BY <2>1 DEF Paths
  <2>3. Paths(k) # << >> /\ Zero \notin Range(Paths(k))
    BY InputsAssumption DEF Paths
  <2>. QED
    BY <2>2, <2>3, LenProperties, EmptySeq DEF Range
<1>4. /\ DOMAIN AllRules.array = DOMAIN input /\ AllRules.len = Len(input)
      /\ \A k \in DOMAIN input : AllRules.array[k] = k
  <2>1. [k \in DOMAIN input |-> k] \in Seq(Nat)
    BY <1>2
  <2>2. Len([k \in DOMAIN input |-> k]) = Len(input)
    BY <1>2
  <2>. QED
    BY <2>2 DEF AllRules, Slice
<1>. QED
  BY <1>1, <1>2, <1>3, <1>4, InputsAssumption

\* The rules that neither loop trips over are those the closed form names.
LEMMA HarmlessRules ==
  ASSUME Len(input) \in Nat, DOMAIN input = 1 .. Len(input)
  PROVE  PrunePanics(input, Proxy) <=> \E k \in DOMAIN input : ~Harmless(k)
BY DEF PrunePanics, Harmless, Paths

-----------------------------------------------------------------------------
\* The outer loop reads a rule that is not zeroed while nothing is deleted too
\* early, and panics only after that.
LEMMA NextRuleKeeps ==
  ASSUME NEW Hosts, NEW Path, InputsTyped(Hosts, Path), LoopInv, NextRule
  PROVE  LoopInv'
<1>1. /\ Len(input) \in Nat /\ DOMAIN input = 1 .. Len(input)
      /\ Zero \notin DOMAIN input
      /\ \A k \in DOMAIN input : AllRules.array[k] = k
      /\ \A k \in DOMAIN input : Slice(Paths(k)).len = Len(Paths(k))
  BY InputFacts DEF LoopInv, Slice
<1>2. /\ pc = "rule" /\ j <= Len(input) + 1 /\ j \in Nat \ {0}
      /\ input \in Inputs /\ i \in Nat \ {0} /\ DOMAIN paths = DOMAIN input
      /\ OnCourse \/ OffCourse
  BY DEF LoopInv, NextRule
<1>3. /\ input' = input /\ rules' = rules /\ paths' = paths /\ j' = j
      /\ AllRules' = AllRules
      /\ \A k : Paths(k)' = Paths(k) /\ Trimmed(k)' = Trimmed(k)
                /\ Harmless(k)' = Harmless(k)
  BY DEF NextRule, Panic, AllRules, Paths, Trimmed, Harmless
<1>4. ASSUME OnCourse, j <= Len(input)
      PROVE  rules.array[j] = j /\ paths[j] = Slice(Paths(j))
  BY <1>1, <1>2, <1>4 DEF OnCourse
<1>5. CASE j > Len(input)
  <2>1. OnCourse /\ j = Len(input) + 1
    BY <1>1, <1>2, <1>5 DEF OffCourse, Zeroed
  <2>2. pc' = "done" /\ i' = i
    BY <1>1, <1>2, <1>5 DEF NextRule, Panic
  <2>3. OnCourse'
    BY <1>1, <1>3, <2>1, <2>2 DEF OnCourse
  <2>. QED
    BY <1>2, <1>3, <2>1, <2>2, <2>3 DEF LoopInv
<1>6. CASE j <= Len(input) /\ rules.array[j] = Zero
  <2>1. pc' = "panic" /\ i' = i
    BY <1>1, <1>2, <1>6 DEF NextRule, Panic
  <2>2. PrunePanics(input, Proxy)
    BY <1>1, <1>2, <1>4, <1>6 DEF OffCourse
  <2>. QED
    BY <1>2, <1>3, <2>1, <2>2 DEF LoopInv
<1>7. CASE j <= Len(input) /\ rules.array[j] # Zero
  <2>1. pc' = "path" /\ i' = 1 /\ n' = paths[rules.array[j]].len
    BY <1>1, <1>2, <1>7 DEF NextRule, Panic
  <2>2. CASE OnCourse
    <3>1. OnCourse'
      BY <1>2, <1>3, <2>1, <2>2 DEF OnCourse
    <3>2. n' = Len(Paths(j)) /\ paths[j] = Slice(Paths(j)) /\ Len(Paths(j)) \in Nat
      BY <1>1, <1>2, <1>4, <1>7, <2>1, <2>2, InputFacts
    <3>3. WithinRule'
      BY <1>3, <2>1, <3>2 DEF WithinRule, Slice
    <3>. QED
      BY <1>2, <1>3, <1>7, <2>1, <3>1, <3>3 DEF LoopInv
  <2>3. CASE OffCourse
    <3>1. OffCourse'
      BY <1>3, <1>7, <2>3 DEF OffCourse, Zeroed
    <3>. QED
      BY <1>2, <1>3, <1>7, <2>1, <3>1 DEF LoopInv
  <2>. QED
    BY <1>2, <2>2, <2>3
<1>. QED
  BY <1>1, <1>2, <1>5, <1>6, <1>7

\* The inner loop deletes the last path of the rule without harm; deleting an
\* earlier one leaves a zeroed path that it will visit.
LEMMA NextPathKeeps ==
  ASSUME NEW Hosts, NEW Path, InputsTyped(Hosts, Path), LoopInv, NextPath
  PROVE  LoopInv'
<1>1. /\ Len(input) \in Nat /\ DOMAIN input = 1 .. Len(input)
      /\ \A k \in DOMAIN input : AllRules.array[k] = k
      /\ \A k \in DOMAIN input :
           /\ Len(Paths(k)) \in Nat \ {0}
           /\ DOMAIN Paths(k) = 1 .. Len(Paths(k))
           /\ \A m \in DOMAIN Paths(k) : Paths(k)[m] # Zero
           /\ Slice(Paths(k)) = [array |-> Paths(k), len |-> Len(Paths(k))]
  BY InputFacts DEF LoopInv, Slice
<1>2. /\ pc = "path" /\ j \in 1 .. Len(input) /\ j \in Nat \ {0}
      /\ input \in Inputs /\ i \in Nat \ {0} /\ DOMAIN paths = DOMAIN input
      /\ (OnCourse /\ WithinRule) \/ OffCourse
      /\ i <= n
  BY <1>1 DEF LoopInv, NextPath
<1>3. /\ input' = input /\ rules' = rules /\ j' = j /\ n' = n
      /\ AllRules' = AllRules
      /\ \A k : Paths(k)' = Paths(k) /\ Trimmed(k)' = Trimmed(k)
                /\ Harmless(k)' = Harmless(k)
      /\ DOMAIN paths' = DOMAIN paths
      /\ pc' \in {"path", "panic"}
      /\ pc' = "path" => i' = i + 1
      /\ pc' = "panic" => i' = i /\ paths' = paths
  BY <1>2 DEF NextPath, Panic, AllRules, Paths, Trimmed, Harmless
<1>4. ASSUME OffCourse
      PROVE  LoopInv'
  <2>1. PrunePanics(input, Proxy)
    BY <1>4 DEF OffCourse
  <2>2. ASSUME pc' = "path"
        PROVE  OffCourse'
    BY <1>2, <1>3, <1>4, <2>2 DEF OffCourse, Zeroed
  <2>. QED
    BY <1>1, <1>2, <1>3, <2>1, <2>2 DEF LoopInv
<1>5. ASSUME OnCourse, WithinRule
      PROVE  LoopInv'
  <2>1. rules.array[j] = j
    BY <1>1, <1>2, <1>5 DEF OnCourse
  <2>2. /\ n = Len(Paths(j)) /\ n \in Nat \ {0} /\ DOMAIN Paths(j) = 1 .. n
        /\ Slice(Paths(j)) = [array |-> Paths(j), len |-> n]
        /\ Paths(j)[i] # Zero
    BY <1>1, <1>2, <1>5 DEF WithinRule
  <2>3. \A k \in DOMAIN input : k # j => paths'[k] = paths[k]
    BY <1>2, <2>1 DEF NextPath, Panic
  <2>4. OnCourse'
    BY <1>1, <1>2, <1>3, <1>5, <2>3 DEF OnCourse
  <2>5. CASE paths[j] = Slice(Paths(j)) /\ \A l \in 1 .. i - 1 : Paths(j)[l].backend # Proxy
    <3>1. CASE Paths(j)[i].backend # Proxy
      <4>1. pc' = "path" /\ paths' = paths
        BY <1>2, <2>1, <2>2, <2>5, <3>1 DEF NextPath, Panic
      <4>2. WithinRule'
        BY <1>2, <1>3, <2>2, <2>5, <3>1, <4>1 DEF WithinRule
      <4>. QED
        BY <1>1, <1>2, <1>3, <2>4, <4>1, <4>2 DEF LoopInv
    <3>2. CASE Paths(j)[i].backend = Proxy
      <4>1. pc' = "path" /\ paths'[j] = Deleted(Slice(Paths(j)), i)
        <5>1. InBounds(Slice(Paths(j)), i)
          BY <1>2, <2>2 DEF InBounds
        <5>. QED
          BY <1>1, <1>2, <2>1, <2>2, <2>5, <3>2, <5>1 DEF NextPath, Panic
      <4>2. WithinRule'
        <5>1. CASE i = n
          <6>1. /\ i' = n + 1 /\ Paths(j)[n].backend = Proxy
                /\ \A l \in 1 .. n - 1 : Paths(j)[l].backend # Proxy
                /\ paths'[j] = Deleted(Slice(Paths(j)), n)
            BY <1>3, <2>5, <3>2, <4>1, <5>1
          <6>. QED
            BY <1>3, <2>2, <6>1 DEF WithinRule
        <5>2. CASE i < n
          <6>1. PrunePanics(input, Proxy)
            BY <1>1, <1>2, <2>2, <3>2, <5>2 DEF PrunePanics, Paths
          <6>2. Zeroed(paths'[j], n, i + 1)
            BY <1>2, <2>2, <4>1, <5>2, DeletionZeroes
          <6>. QED
            BY <1>2, <1>3, <2>2, <4>1, <5>2, <6>1, <6>2 DEF WithinRule
        <5>. QED
          BY <1>2, <2>2, <5>1, <5>2
      <4>. QED
        BY <1>1, <1>2, <1>3, <2>4, <4>1, <4>2 DEF LoopInv
    <3>. QED
      BY <3>1, <3>2
  <2>6. CASE PrunePanics(input, Proxy) /\ Zeroed(paths[j], n, i)
    <3>1. ASSUME pc' = "path"
          PROVE  WithinRule'
      <4>1. paths[j].array[i] # Zero
        BY <1>2, <2>1, <3>1 DEF NextPath, Panic
      <4>2. paths'[j] = paths[j] \/ paths'[j] = Deleted(paths[j], i)
        BY <1>1, <1>2, <2>1, <3>1 DEF NextPath, Panic
      <4>3. Zeroed(paths'[j], n, i + 1)
        BY <1>2, <2>2, <2>6, <4>1, <4>2, StaysZeroed
      <4>4. i + 1 <= n
        BY <4>3 DEF Zeroed
      <4>. QED
        BY <1>2, <1>3, <2>2, <2>6, <3>1, <4>3, <4>4 DEF WithinRule
    <3>. QED
      BY <1>1, <1>2, <1>3, <2>4, <2>6, <3>1 DEF LoopInv
  <2>. QED
    BY <1>2, <1>5, <2>2, <2>5, <2>6 DEF WithinRule
<1>. QED
  BY <1>2, <1>4, <1>5

\* A rule left without paths is deleted: the last one without harm, an earlier
\* one leaves a zeroed rule that the outer loop will visit.
LEMMA EndOfRuleKeeps ==
  ASSUME NEW Hosts, NEW Path, InputsTyped(Hosts, Path), LoopInv, EndOfRule
  PROVE  LoopInv'
<1>1. /\ Len(input) \in Nat /\ DOMAIN input = 1 .. Len(input)
      /\ DOMAIN AllRules.array = 1 .. Len(input)
      /\ AllRules = Slice(AllRules.array) /\ Len(AllRules.array) = Len(input)
      /\ \A k \in DOMAIN input : AllRules.array[k] = k
      /\ \A k \in DOMAIN input :
           /\ Len(Paths(k)) \in Nat \ {0}
           /\ DOMAIN Paths(k) = 1 .. Len(Paths(k))
           /\ Slice(Paths(k)).len = Len(Paths(k))
           /\ Deleted(Slice(Paths(k)), Len(Paths(k))).len = Len(Paths(k)) - 1
  BY InputFacts DEF LoopInv, Slice, AllRules, Deleted
<1>2. /\ pc = "path" /\ j \in 1 .. Len(input) /\ j \in Nat \ {0}
      /\ input \in Inputs /\ i \in Nat \ {0} /\ DOMAIN paths = DOMAIN input
      /\ (OnCourse /\ WithinRule) \/ OffCourse
      /\ i > n
  BY <1>1 DEF LoopInv, EndOfRule
<1>3. /\ input' = input /\ paths' = paths /\ i' = i /\ AllRules' = AllRules
      /\ \A k : Paths(k)' = Paths(k) /\ Trimmed(k)' = Trimmed(k)
                /\ Harmless(k)' = Harmless(k)
      /\ \/ pc' = "panic" /\ rules' = rules /\ j' = j
         \/ /\ pc' = "rule" /\ j' = j + 1
            /\ rules' = IF paths[rules.array[j]].len = 0
                        THEN Deleted(rules, j) ELSE rules
  BY DEF EndOfRule, Panic, AllRules, Paths, Trimmed, Harmless
<1>4. ASSUME OffCourse
      PROVE  LoopInv'
  <2>1. PrunePanics(input, Proxy) /\ rules.array[j] # Zero
    BY <1>2, <1>4 DEF OffCourse
  <2>2. ASSUME pc' = "rule"
        PROVE  OffCourse'
    <3>1. Zeroed(rules, Len(input), j + 1) /\ Zeroed(Deleted(rules, j), Len(input), j + 1)
      BY <1>1, <1>2, <1>4, <2>1, StaysZeroed DEF OffCourse
    <3>. QED
      BY <1>3, <2>1, <2>2, <3>1 DEF OffCourse
  <2>. QED
    BY <1>1, <1>2, <1>3, <2>1, <2>2 DEF LoopInv
<1>5. ASSUME OnCourse, WithinRule
      PROVE  LoopInv'
  <2>1. rules = AllRules /\ rules.array[j] = j
    BY <1>1, <1>2, <1>5 DEF OnCourse
  <2>2. /\ n = Len(Paths(j)) /\ n \in Nat \ {0}
        /\ Deleted(Slice(Paths(j)), n).len = n - 1 /\ Slice(Paths(j)).len = n
    BY <1>1, <1>2, <1>5 DEF WithinRule
  <2>3. \/ /\ paths[j] = Slice(Paths(j))
           /\ \A l \in 1 .. n : Paths(j)[l].backend # Proxy
        \/ /\ paths[j] = Deleted(Slice(Paths(j)), n) /\ Paths(j)[n].backend = Proxy
           /\ \A l \in 1 .. n - 1 : Paths(j)[l].backend # Proxy
    BY <1>2, <1>5, <2>2 DEF WithinRule, Zeroed
  <2>4. paths[j] = Trimmed(j)
    BY <2>2, <2>3 DEF Trimmed, Last
  <2>5. pc' = "rule" /\ j' = j + 1
    BY <1>1, <1>2, <2>1 DEF EndOfRule, InBounds, AllRules, Slice
  <2>6. Trimmed(j).len = 0 => n = 1 /\ Paths(j)[1].backend = Proxy
    BY <2>2, <2>3, <2>4
  <2>7. j \in Nat /\ Len(input) \in Nat /\ j <= Len(input)
    BY <1>1, <1>2
  <2>8. CASE Trimmed(j).len = 0 /\ j < Len(input)
    <3>1. PrunePanics(input, Proxy)
      BY <1>1, <1>2, <2>2, <2>6, <2>8 DEF PrunePanics, Paths
    <3>2. rules' = Deleted(AllRules, j)
      BY <1>3, <2>1, <2>4, <2>5, <2>8
    <3>3. Zeroed(rules', Len(input), j + 1)
      BY <1>1, <1>2, <2>8, <3>2, DeletionZeroes
    <3>4. OffCourse'
      BY <1>3, <2>5, <3>1, <3>3 DEF OffCourse
    <3>. QED
      BY <1>2, <1>3, <2>5, <3>4, <1>1 DEF LoopInv
  <2>9. CASE ~(Trimmed(j).len = 0 /\ j < Len(input))
    <3>1. Harmless(j)
      BY <1>1, <1>2, <2>2, <2>3, <2>4, <2>9 DEF Harmless
    <3>2. rules' = IF j = Len(input) /\ Trimmed(Len(input)).len = 0
                   THEN Deleted(AllRules, Len(input)) ELSE AllRules
      <4>1. rules' = IF Trimmed(j).len = 0 THEN Deleted(AllRules, j) ELSE AllRules
        BY <1>3, <2>1, <2>4, <2>5
      <4>2. CASE Trimmed(j).len = 0
        <5>1. j = Len(input)
          BY <2>9, <2>7, <4>2
        <5>. QED
          BY <4>1, <4>2, <5>1
      <4>3. CASE Trimmed(j).len # 0
        <5>1. ~(j = Len(input) /\ Trimmed(Len(input)).len = 0)
          BY <4>3
        <5>. QED
          BY <4>1, <4>3, <5>1
      <4>. QED
        BY <4>2, <4>3
    <3>3. /\ \A k \in DOMAIN input : k < j + 1 => paths[k] = Trimmed(k) /\ Harmless(k)
          /\ \A k \in DOMAIN input : k > j => paths[k] = Slice(Paths(k))
      BY <1>1, <1>2, <1>5, <2>4, <3>1 DEF OnCourse
    <3>4. input # << >> /\ (j + 1 > Len(input) <=> j = Len(input))
      BY <1>1, <1>2
    <3>5. OnCourse'
      <4>1. Trimmed(Len(input))' = Trimmed(Len(input))
        BY <1>3 DEF Trimmed, Paths
      <4>2. rules' = IF j + 1 > Len(input) /\ input # << >> /\ Trimmed(Len(input)).len = 0
                     THEN Deleted(AllRules, Len(input)) ELSE AllRules
        BY <3>2, <3>4
      <4>3. \A k \in DOMAIN input : k > j + 1 \/ k = j + 1 => k > j
        BY <1>1, <1>2
      <4>4. \A k \in DOMAIN input' :
              /\ k < j' => paths'[k] = Trimmed(k)' /\ Harmless(k)'
              /\ k > j' \/ (k = j' /\ pc' = "rule") => paths'[k] = Slice(Paths(k)')
        BY <1>3, <2>5, <3>3, <4>3
      <4>. QED
        BY <1>3, <2>5, <4>1, <4>2, <4>4 DEF OnCourse
    <3>. QED
      BY <1>1, <1>2, <1>3, <2>5, <3>5 DEF LoopInv
  <2>. QED
    BY <2>8, <2>9
<1>. QED
  BY <1>2, <1>4, <1>5

\* When the loops are through, what they leave is what Pruned says.
LEMMA ResultPruned ==
  ASSUME NEW Hosts, NEW Path, InputsTyped(Hosts, Path), LoopInv, pc = "done"
  PROVE  ~PrunePanics(input, Proxy) /\ Result = Pruned(input, Proxy)
<1>. DEFINE N == Len(input)
            Rule == [host : Hosts, paths : Seq(Path)]
            trimmed == [k \in DOMAIN input |->
                          IF Last(input[k].paths).backend = Proxy
                          THEN [input[k] EXCEPT !.paths = Front(@)]
                          ELSE input[k]]
            left == InUse(rules)
<1>1. /\ input \in Seq(Rule) /\ N \in Nat /\ DOMAIN input = 1 .. N
      /\ \A k \in DOMAIN input : /\ Paths(k) \in Seq(Path) /\ Paths(k) # << >>
                                 /\ input[k] \in Rule
  <2>1. input \in Inputs
    BY DEF LoopInv
  <2>2. \A k \in DOMAIN input : Paths(k) # << >>
    BY <2>1, InputsAssumption DEF Paths
  <2>3. input \in Seq(Rule) /\ N \in Nat /\ DOMAIN input = 1 .. N
    BY <2>1, InputFacts
  <2>4. \A k \in DOMAIN input : Paths(k) \in Seq(Path) /\ input[k] \in Rule
    BY <2>1, <2>3, InputFacts, ElementOfSeq
  <2>. QED
    BY <2>2, <2>3, <2>4
<1>2. /\ j = N + 1 /\ OnCourse
      /\ \A k \in DOMAIN input : paths[k] = Trimmed(k) /\ Harmless(k)
  BY <1>1 DEF LoopInv, OnCourse
<1>3. ~PrunePanics(input, Proxy)
  BY <1>1, <1>2, HarmlessRules
<1>4. ASSUME NEW k \in DOMAIN input
      PROVE  trimmed[k] = [input[k] EXCEPT !.paths = InUse(paths[k])]
  <2>1. /\ InUse(Slice(Paths(k))) = Paths(k)
        /\ InUse(Deleted(Slice(Paths(k)), Len(Paths(k)))) = Front(Paths(k))
    BY <1>1, SliceInUse
  <2>2. input[k] = [input[k] EXCEPT !.paths = Paths(k)]
    BY <1>1 DEF Paths
  <2>. QED
    BY <1>2, <2>1, <2>2 DEF Trimmed, Paths
<1>5. \A k \in DOMAIN input : /\ InUse(paths[k]) \in Seq(Path)
                              /\ trimmed[k].paths = InUse(paths[k])
                              /\ InUse(paths[k]) = << >> <=> Trimmed(k).len = 0
  <2>1. ASSUME NEW k \in DOMAIN input
        PROVE  /\ InUse(paths[k]) \in Seq(Path)
               /\ InUse(paths[k]) = << >> <=> Trimmed(k).len = 0
    <3>1. /\ InUse(Slice(Paths(k))) = Paths(k)
          /\ InUse(Deleted(Slice(Paths(k)), Len(Paths(k)))) = Front(Paths(k))
      BY <1>1, SliceInUse
    <3>2. /\ Slice(Paths(k)).len = Len(Paths(k))
          /\ Deleted(Slice(Paths(k)), Len(Paths(k))).len = Len(Paths(k)) - 1
      BY DEF Slice, Deleted
    <3>3. /\ Front(Paths(k)) \in Seq(Path) /\ Len(Front(Paths(k))) = Len(Paths(k)) - 1
          /\ Len(Paths(k)) \in Nat \ {0}
      BY <1>1, FrontProperties, EmptySeq
    <3>4. Front(Paths(k)) = << >> <=> Len(Front(Paths(k))) = 0
      BY <3>3, EmptySeq
    <3>. QED
      BY <1>1, <1>2, <3>1, <3>2, <3>3, <3>4 DEF Trimmed
  <2>. QED
    BY <1>1, <1>4, <2>1
<1>6. trimmed \in Seq(Rule) /\ Len(trimmed) = N /\ DOMAIN trimmed = 1 .. N
  <2>1. \A k \in DOMAIN input : trimmed[k] \in Rule
    BY <1>1, <1>4, <1>5
  <2>. QED
    BY <1>1, <2>1
<1>7. Result = [k \in DOMAIN left |-> [input[left[k]] EXCEPT !.paths = InUse(paths[left[k]])]]
  BY DEF Result
<1>8. /\ [k \in DOMAIN input |-> k] \in Seq(Nat)
      /\ Len([k \in DOMAIN input |-> k]) = N
  BY <1>1
<1>. HIDE DEF trimmed
<1>9. CASE N # 0 /\ Trimmed(N).len = 0
  <2>1. trimmed # << >> /\ Last(trimmed).paths = << >>
    <3>1. N \in DOMAIN input
      BY <1>1, <1>9
    <3>2. trimmed[N].paths = << >>
      BY <1>5, <1>9, <3>1
    <3>. QED
      BY <1>6, <1>9, <3>2, EmptySeq DEF Last
  <2>2. Pruned(input, Proxy) = Front(trimmed)
    BY <2>1 DEF Pruned, trimmed
  <2>3. /\ Front(trimmed) \in Seq(Rule) /\ Len(Front(trimmed)) = N - 1
        /\ \A k \in 1 .. N - 1 : Front(trimmed)[k] = trimmed[k]
    BY <1>6, <2>1, FrontProperties
  <2>4. rules = Deleted(AllRules, N)
    BY <1>1, <1>2, <1>9, EmptySeq DEF OnCourse
  <2>5. left = Front([k \in DOMAIN input |-> k])
    <3>1. [k \in DOMAIN input |-> k] # << >>
      BY <1>8, <1>9, EmptySeq
    <3>. QED
      BY <1>8, <2>4, <3>1, SliceInUse DEF AllRules
  <2>6. left \in Seq(Nat) /\ Len(left) = N - 1 /\ \A k \in 1 .. N - 1 : left[k] = k
    <3>1. [k \in DOMAIN input |-> k] # << >>
      BY <1>8, <1>9, EmptySeq
    <3>2. \A k \in 1 .. N - 1 : k \in DOMAIN input
      BY <1>1
    <3>. QED
      BY <1>8, <2>5, <3>1, <3>2, FrontProperties
  <2>7. DOMAIN left = 1 .. N - 1 /\ DOMAIN Front(trimmed) = 1 .. N - 1
    BY <2>3, <2>6, LenProperties
  <2>. HIDE DEF left
  <2>8. \A k \in 1 .. N - 1 :
          [input[left[k]] EXCEPT !.paths = InUse(paths[left[k]])] = Front(trimmed)[k]
    <3>1. \A k \in 1 .. N - 1 : k \in DOMAIN input
      BY <1>1
    <3>. QED
      BY <1>4, <2>3, <2>6, <3>1
  <2>9. Front(trimmed) = [k \in 1 .. N - 1 |-> Front(trimmed)[k]]
    BY <2>3, LenProperties
  <2>. QED
    BY <1>3, <1>7, <2>2, <2>7, <2>8, <2>9
<1>10. CASE ~(N # 0 /\ Trimmed(N).len = 0)
  <2>1. ~(trimmed # << >> /\ Last(trimmed).paths = << >>)
    <3>1. CASE N = 0
      BY <1>6, <3>1, EmptySeq
    <3>2. CASE N # 0
      <4>1. N \in DOMAIN input
        BY <1>1, <3>2
      <4>2. trimmed[N].paths # << >>
        BY <1>5, <1>10, <3>2, <4>1
      <4>. QED
        BY <1>6, <4>2 DEF Last
    <3>. QED
      BY <3>1, <3>2
  <2>2. Pruned(input, Proxy) = trimmed
    BY <2>1 DEF Pruned, trimmed
  <2>3. rules = AllRules
    BY <1>1, <1>2, <1>10, EmptySeq DEF OnCourse
  <2>4. left = [k \in DOMAIN input |-> k]
    BY <1>8, <2>3, SliceInUse DEF AllRules
  <2>5. trimmed = [k \in DOMAIN input |-> trimmed[k]]
    BY <1>6, <1>1, LenProperties
  <2>. QED
    BY <1>3, <1>4, <1>7, <2>2, <2>4, <2>5
<1>. QED
  BY <1>9, <1>10

-----------------------------------------------------------------------------
\* The elements at the first positions, in their order, are the beginning.
LEMMA FirstElements ==
  ASSUME NEW s, NEW length \in Nat
  PROVE  ElementsAt(s, 1 .. length) = [m \in 1 .. length |-> s[m]]
<1>1. \A k \in 0 .. length : Cardinality(1 .. k) = k
  BY FS_Interval
<1>. DEFINE Rank(k) == Cardinality({l \in 1 .. length : l <= k})
<1>2. ASSUME NEW k \in 1 .. length
      PROVE  Rank(k) = k
  <2>1. {l \in 1 .. length : l <= k} = 1 .. k
    OBVIOUS
  <2>2. Rank(k) = Cardinality(1 .. k)
    BY <2>1
  <2>. QED
    BY <1>1, <2>2
<1>3. ElementsAt(s, 1 .. length)
        = [m \in 1 .. length |-> s[CHOOSE k \in 1 .. length : Rank(k) = m]]
  <2>1. Cardinality(1 .. length) = length
    BY <1>1
  <2>. QED
    BY <2>1 DEF ElementsAt
<1>. HIDE DEF Rank
<1>4. ASSUME NEW m \in 1 .. length
      PROVE  (CHOOSE k \in 1 .. length : Rank(k) = m) = m
  BY <1>2
<1>. QED
  BY <1>3, <1>4

\* All elements of a sequence, and all but the last.
LEMMA ElementsOfSeq ==
  ASSUME NEW S, NEW s \in Seq(S)
  PROVE  /\ ElementsAt(s, 1 .. Len(s)) = s
         /\ s # << >> => ElementsAt(s, 1 .. Len(s) - 1) = Front(s)
<1>1. Len(s) \in Nat /\ DOMAIN s = 1 .. Len(s) /\ s = [m \in 1 .. Len(s) |-> s[m]]
  BY LenProperties
<1>2. ElementsAt(s, 1 .. Len(s)) = s
  BY <1>1, FirstElements
<1>3. ASSUME s # << >>
      PROVE  ElementsAt(s, 1 .. Len(s) - 1) = Front(s)
  <2>1. Len(s) - 1 \in Nat
    BY <1>1, <1>3, EmptySeq
  <2>2. ElementsAt(s, 1 .. Len(s) - 1) = [m \in 1 .. Len(s) - 1 |-> s[m]]
    BY <2>1, FirstElements
  <2>3. /\ Front(s) \in Seq(S) /\ Len(Front(s)) = Len(s) - 1
        /\ \A m \in 1 .. Len(s) - 1 : Front(s)[m] = s[m]
    BY <1>3, FrontProperties
  <2>4. Front(s) = [m \in 1 .. Len(s) - 1 |-> Front(s)[m]]
    BY <2>3, LenProperties
  <2>. QED
    BY <2>2, <2>3, <2>4
<1>. QED
  BY <1>2, <1>3

\* Where the loops do not panic, a rule has lost its last path or none, and only the
\* last rule has lost all of them: what Pruned says is then what was meant.
LEMMA PrunedWanted ==
  ASSUME NEW Hosts, NEW Path, InputsTyped(Hosts, Path),
         input \in Inputs, ~PrunePanics(input, Proxy)
  PROVE  Pruned(input, Proxy) = Wanted
<1>. DEFINE N == Len(input)
            Rule == [host : Hosts, paths : Seq(Path)]
            trimmed == [k \in DOMAIN input |->
                          IF Last(input[k].paths).backend = Proxy
                          THEN [input[k] EXCEPT !.paths = Front(@)]
                          ELSE input[k]]
            others(k) == {m \in DOMAIN input[k].paths :
                            input[k].paths[m].backend # Proxy}
            kept == {k \in DOMAIN input : others(k) # {}}
<1>1. /\ input \in Seq(Rule) /\ N \in Nat /\ DOMAIN input = 1 .. N
      /\ \A k \in DOMAIN input :
           /\ input[k] \in Rule /\ Paths(k) = input[k].paths
           /\ Paths(k) \in Seq(Path) /\ Len(Paths(k)) \in Nat \ {0}
           /\ DOMAIN Paths(k) = 1 .. Len(Paths(k)) /\ Paths(k) # << >>
  <2>1. /\ input \in Seq(Rule) /\ N \in Nat /\ DOMAIN input = 1 .. N
        /\ \A k \in DOMAIN input :
             /\ Paths(k) \in Seq(Path) /\ Len(Paths(k)) \in Nat \ {0}
             /\ DOMAIN Paths(k) = 1 .. Len(Paths(k))
    BY InputFacts
  <2>2. \A k \in DOMAIN input : input[k] \in Rule
    BY <2>1, ElementOfSeq
  <2>. QED
    BY <2>1, <2>2, EmptySeq DEF Paths
<1>2. ASSUME NEW k \in DOMAIN input
      PROVE  /\ Harmless(k)
             /\ Last(input[k].paths).backend = Proxy
                  => others(k) = 1 .. Len(Paths(k)) - 1
             /\ Last(input[k].paths).backend # Proxy
                  => others(k) = 1 .. Len(Paths(k))
  <2>1. Harmless(k)
    BY <1>1, HarmlessRules
  <2>2. \A m \in 1 .. Len(Paths(k)) - 1 : Paths(k)[m].backend # Proxy
    BY <1>1, <2>1 DEF Harmless
  <2>3. Last(input[k].paths) = Paths(k)[Len(Paths(k))]
    BY <1>1 DEF Last
  <2>. QED
    BY <1>1, <2>1, <2>2, <2>3
<1>3. ASSUME NEW k \in DOMAIN input
      PROVE  [input[k] EXCEPT !.paths = ElementsAt(@, others(k))] = trimmed[k]
  <2>1. /\ ElementsAt(Paths(k), 1 .. Len(Paths(k))) = Paths(k)
        /\ ElementsAt(Paths(k), 1 .. Len(Paths(k)) - 1) = Front(Paths(k))
    BY <1>1, ElementsOfSeq
  <2>2. input[k] = [input[k] EXCEPT !.paths = Paths(k)]
    BY <1>1
  <2>. QED
    BY <1>1, <1>2, <2>1, <2>2
<1>4. ASSUME NEW k \in DOMAIN input
      PROVE  /\ trimmed[k] \in Rule
             /\ trimmed[k].paths = << >> <=> others(k) = {}
             /\ others(k) = {} => k = N
  <2>1. Front(Paths(k)) \in Seq(Path) /\ Len(Front(Paths(k))) = Len(Paths(k)) - 1
    BY <1>1, FrontProperties
  <2>2. Front(Paths(k)) = << >> <=> Len(Paths(k)) = 1
    <3>1. Front(Paths(k)) = << >> <=> Len(Front(Paths(k))) = 0
      BY <2>1, EmptySeq
    <3>. QED
      BY <1>1, <2>1, <3>1
  <2>3. others(k) = {} <=> Len(Paths(k)) = 1 /\ Paths(k)[1].backend = Proxy
    <3>1. Last(input[k].paths) = Paths(k)[Len(Paths(k))] /\ Len(Paths(k)) \in Nat \ {0}
      BY <1>1 DEF Last
    <3>. HIDE DEF others
    <3>2. CASE Last(input[k].paths).backend = Proxy
      <4>1. others(k) = 1 .. Len(Paths(k)) - 1
        BY <1>2, <3>2
      <4>2. ASSUME NEW l \in Nat \ {0}
            PROVE  1 .. l - 1 = {} <=> l = 1
        <5>1. l # 1 => 1 \in 1 .. l - 1
          OBVIOUS
        <5>. QED
          BY <5>1
      <4>3. others(k) = {} <=> Len(Paths(k)) = 1
        BY <3>1, <4>1, <4>2
      <4>. QED
        BY <3>1, <3>2, <4>3
    <3>3. CASE Last(input[k].paths).backend # Proxy
      <4>1. others(k) = 1 .. Len(Paths(k))
        BY <1>2, <3>3
      <4>2. others(k) # {}
        BY <3>1, <4>1
      <4>. QED
        BY <3>1, <3>3, <4>2
    <3>. QED
      BY <3>2, <3>3
  <2>4. trimmed[k] \in Rule
    BY <1>1, <2>1
  <2>5. trimmed[k].paths = << >> <=> others(k) = {}
    BY <1>1, <2>2, <2>3 DEF Last
  <2>6. others(k) = {} => k = N
    BY <1>1, <1>2, <2>3 DEF Harmless
  <2>. QED
    BY <2>4, <2>5, <2>6
<1>5. Wanted = ElementsAt(trimmed, kept)
  <2>1. [k \in DOMAIN input |-> [input[k] EXCEPT !.paths = ElementsAt(@, others(k))]]
          = trimmed
    BY <1>3
  <2>. QED
    BY <2>1 DEF Wanted
<1>6. trimmed \in Seq(Rule) /\ Len(trimmed) = N
  BY <1>1, <1>4
<1>7. /\ kept = IF N # 0 /\ others(N) = {} THEN 1 .. N - 1 ELSE 1 .. N
      /\ (N # 0 /\ others(N) = {}) <=> (trimmed # << >> /\ Last(trimmed).paths = << >>)
  <2>1. \A k \in DOMAIN input : others(k) = {} => k = N
    BY <1>4
  <2>2. N # 0 => (others(N) = {} <=> trimmed[N].paths = << >>)
    <3>1. N # 0 => N \in DOMAIN input
      BY <1>1
    <3>2. \A k \in DOMAIN input : trimmed[k].paths = << >> <=> others(k) = {}
      BY <1>4
    <3>. HIDE DEF others, trimmed
    <3>. QED
      BY <3>1, <3>2
  <2>. HIDE DEF others, trimmed
  <2>3. kept = IF N # 0 /\ others(N) = {} THEN 1 .. N - 1 ELSE 1 .. N
    <3>1. \A k : k \in kept <=> k \in 1 .. N /\ others(k) # {}
      BY <1>1
    <3>2. N \in Nat /\ \A k \in 1 .. N : others(k) = {} => k = N
      BY <1>1, <2>1
    <3>. HIDE DEF kept
    <3>3. CASE N # 0 /\ others(N) = {}
      <4>1. \A k : k \in kept <=> k \in 1 .. N - 1
        BY <3>1, <3>2, <3>3
      <4>. QED
        BY <3>3, <4>1
    <3>4. CASE ~(N # 0 /\ others(N) = {})
      <4>1. \A k : k \in kept <=> k \in 1 .. N
        BY <3>1, <3>2, <3>4
      <4>. QED
        BY <3>4, <4>1
    <3>. QED
      BY <3>3, <3>4
  <2>. QED
    BY <1>1, <1>6, <2>2, <2>3, EmptySeq DEF Last
<1>8. Pruned(input, Proxy) = IF trimmed # << >> /\ Last(trimmed).paths = << >>
                            THEN Front(trimmed) ELSE trimmed
  BY DEF Pruned
<1>. HIDE DEF trimmed, others
<1>. QED
  BY <1>5, <1>6, <1>7, <1>8, ElementsOfSeq

-----------------------------------------------------------------------------
\* Whatever rules the ingress holds, the loops follow their course.
LEMMA LoopsFollow ==
  ASSUME NEW Hosts, NEW Path, InputsTyped(Hosts, Path)
  PROVE  /\ Init => LoopInv
         /\ LoopInv /\ [Next]_vars => LoopInv'
<1>1. Init => LoopInv
  <2>. SUFFICES ASSUME Init PROVE LoopInv
    OBVIOUS
  <2>1. input \in Inputs /\ j = 1 /\ i = 1 /\ pc = "rule" /\ rules = AllRules
    BY DEF Init, AllRules
  <2>2. Len(input) \in Nat /\ DOMAIN input = 1 .. Len(input)
    BY <2>1, InputFacts
  <2>3. \A k \in DOMAIN input : paths[k] = Slice(Paths(k)) /\ ~(k < 1)
    BY <2>2 DEF Init, Paths
  <2>4. 1 > Len(input) => input = << >>
    BY <2>1, <2>2, InputFacts, EmptySeq
  <2>5. OnCourse
    BY <2>1, <2>2, <2>3, <2>4 DEF OnCourse
  <2>. QED
    BY <2>1, <2>2, <2>5 DEF LoopInv, Init
<1>2. LoopInv /\ [Next]_vars => LoopInv'
  <2>1. ASSUME LoopInv, UNCHANGED vars
        PROVE  LoopInv'
    BY <2>1 DEF LoopInv, OnCourse, OffCourse, WithinRule, Trimmed, Harmless,
                Paths, AllRules, vars
  <2>. QED
    BY <2>1, NextRuleKeeps, NextPathKeeps, EndOfRuleKeeps DEF Next
<1>. QED
  BY <1>1, <1>2

\* Whatever rules the ingress holds, finalizeWebapp's loops panic only where
\* PrunePanics says so, get to their end only where it does not, and then leave
\* what Pruned says: module WebappController may have the two closed forms in
\* place of the loops.
THEOREM LoopsPrune ==
  ASSUME NEW Hosts, NEW Path, InputsTyped(Hosts, Path)
  PROVE  Spec => []ClosedFormsHold
<1>1. LoopInv => ClosedFormsHold
  BY ResultPruned DEF LoopInv, ClosedFormsHold
<1>. QED
  BY <1>1, LoopsFollow, PTL DEF Spec

\* And when they get to their end, for rules of any number and length, exactly the
\* paths to the proxy service and the rules left without a path are gone: deleting
\* from the slices they range over (webapp_controller.go:173-185) may make the loops
\* panic, but never keeps a route it should drop or drops one it should keep.
THEOREM LoopsDoRight ==
  ASSUME NEW Hosts, NEW Path, InputsTyped(Hosts, Path)
  PROVE  Spec => []RightUnlessPanic
<1>1. LoopInv => RightUnlessPanic
  BY ResultPruned, PrunedWanted DEF LoopInv, RightUnlessPanic
<1>. QED
  BY <1>1, LoopsFollow, PTL DEF Spec
=============================================================================
