-------------------------- MODULE Knowledge_proofs ---------------------------
(* Theorems about the parts that gather and answer, for every value of the   *)
(* constants: the graph, the downloads and the cache. Those of the cache     *)
(* come from the proofs of its module.                                       *)
EXTENDS Knowledge, FiniteSetTheorems, SequenceTheorems, WellFoundedInduction, TLAPS

------------------------------------------------------------------------------
(* A behaviour of the parts is a behaviour of the part it explores. *)

LEMMA OtherPart ==
    ASSUME NEW p
    PROVE  ~(part = p) /\ [PartsNext]_partsVars => ~(part = p)'
BY DEF PartsNext, partsVars

LEMMA DownloadsPart ==
    /\ PartsInit /\ part = "downloads" => D!Init
    /\ part = "downloads" /\ [PartsNext]_partsVars =>
           [D!Next]_(D!vars) /\ (part = "downloads")'
BY DEF PartsInit, PartsNext, partsVars, downloadsVars, D!vars, D!diskVars, D!boundVars

LEMMA CachePart ==
    /\ PartsInit /\ part = "cache" => C!Init
    /\ part = "cache" /\ [PartsNext]_partsVars => [C!Next]_(C!vars) /\ (part = "cache")'
BY DEF PartsInit, PartsNext, partsVars, cacheVars, C!vars

------------------------------------------------------------------------------
(* Sequences.  What recursion defines is there, and is what the lemmas say,  *)
(* by induction on numbers.                                                  *)

\* Induction, for a set of numbers.
LEMMA LeastOf ==
    ASSUME NEW T \in SUBSET Nat, T # {}
    PROVE  \E n \in T : \A m \in T : n <= m
<1>1. PICK R : R = OpToRel(<, Nat)
  OBVIOUS
<1>2. IsWellFoundedOn(R, Nat)
  BY <1>1, NatLessThanWellFounded
<1>3. R = {p \in Nat \X Nat : p[1] < p[2]}
  BY <1>1 DEF OpToRel
<1>4. PICK n \in T : \A m \in T : <<m, n>> \notin R
  BY <1>2, WFMin
<1>5. ASSUME NEW m \in T PROVE n <= m
  <2>1. ~(m < n)
    BY <1>3, <1>4
  <2> QED  BY <2>1
<1> QED  BY <1>5

LEMMA Counting ==
    ASSUME NEW T \in SUBSET Nat, 0 \in T, \A n \in T : n + 1 \in T
    PROVE  T = Nat
<1> SUFFICES ASSUME Nat \ T # {} PROVE FALSE
  OBVIOUS
<1>1. PICK n \in Nat \ T : \A m \in Nat \ T : n <= m
  BY LeastOf
<1>2. n - 1 \in T
  BY <1>1
<1> QED  BY <1>1, <1>2

\* A sequence and an element at its end.
LEMMA Appended ==
    ASSUME NEW S, NEW s \in Seq(S), NEW e \in S
    PROVE  /\ Append(s, e) \in Seq(S) /\ Append(s, e) # <<>>
           /\ G!Range(Append(s, e)) = G!Range(s) \cup {e}
           /\ G!IsInjective(s) /\ e \notin G!Range(s) => G!IsInjective(Append(s, e))
<1>1. /\ Append(s, e) \in Seq(S) /\ Len(Append(s, e)) = Len(s) + 1
      /\ \A i \in 1..Len(s) : Append(s, e)[i] = s[i]
      /\ Append(s, e)[Len(s) + 1] = e
  BY AppendProperties
<1>2. Len(s) \in Nat /\ DOMAIN s = 1..Len(s) /\ DOMAIN Append(s, e) = 1..(Len(s) + 1)
  BY <1>1, LenProperties
<1>3. G!Range(Append(s, e)) = G!Range(s) \cup {e}
  BY <1>1, <1>2 DEF G!Range
<1>4. ASSUME G!IsInjective(s), e \notin G!Range(s),
             NEW i \in DOMAIN Append(s, e), NEW j \in DOMAIN Append(s, e),
             Append(s, e)[i] = Append(s, e)[j]
      PROVE  i = j
  BY <1>1, <1>2, <1>4 DEF G!IsInjective, G!Range
<1> QED  BY <1>1, <1>2, <1>3, <1>4, EmptySeq DEF G!IsInjective

LEMMA ThoseUpTo ==
    ASSUME NEW s, NEW X, Len(s) \in Nat
    PROVE  \E f : /\ f = [n \in 0..Len(s) |->
                            IF n = 0 THEN <<>>
                            ELSE IF s[n] \in X THEN Append(f[n - 1], s[n]) ELSE f[n - 1]]
                  /\ G!Those(s, X) = f[Len(s)]
<1> DEFINE Upto(k) == \E f : f = [n \in 0..k |->
                            IF n = 0 THEN <<>>
                            ELSE IF s[n] \in X THEN Append(f[n - 1], s[n]) ELSE f[n - 1]]
<1>1. PICK T : T = {k \in Nat : Upto(k)}
  OBVIOUS
<1>2. Upto(0)
  <2>1. PICK f : f = [n \in 0..0 |-> <<>>]
    OBVIOUS
  <2>2. f = [n \in 0..0 |-> IF n = 0 THEN <<>>
                            ELSE IF s[n] \in X THEN Append(f[n - 1], s[n]) ELSE f[n - 1]]
    BY <2>1
  <2> QED  BY <2>2
<1>3. ASSUME NEW k \in Nat, Upto(k) PROVE Upto(k + 1)
  <2>1. PICK f : f = [n \in 0..k |->
                            IF n = 0 THEN <<>>
                            ELSE IF s[n] \in X THEN Append(f[n - 1], s[n]) ELSE f[n - 1]]
    BY <1>3
  <2>2. PICK g : g = [n \in 0..(k + 1) |->
                       IF n <= k THEN f[n] 
                       ELSE IF s[k + 1] \in X THEN Append(f[k], s[k + 1]) ELSE f[k]]
    OBVIOUS
  <2>3. ASSUME NEW n \in 0..(k + 1)
        PROVE  g[n] = IF n = 0 THEN <<>>
                      ELSE IF s[n] \in X THEN Append(g[n - 1], s[n]) ELSE g[n - 1]
    <3>1. CASE n <= k /\ n # 0
      <4>1. g[n] = f[n] /\ g[n - 1] = f[n - 1] /\ n \in 0..k
        BY <2>2, <3>1
      <4> QED  BY <2>1, <3>1, <4>1
    <3>2. CASE n = k + 1
      <4>1. g[n] = (IF s[k + 1] \in X THEN Append(f[k], s[k + 1]) ELSE f[k]) /\ g[n - 1] = f[k]
        BY <2>2, <3>2
      <4> QED  BY <3>2, <4>1
    <3>3. CASE n = 0
      <4>1. g[0] = f[0] /\ f[0] = <<>>
        BY <2>1, <2>2
      <4> QED  BY <3>3, <4>1
    <3> QED  BY <3>1, <3>2, <3>3
  <2>4. g = [n \in 0..(k + 1) |-> g[n]]
    BY <2>2
  <2>5. g = [n \in 0..(k + 1) |-> IF n = 0 THEN <<>>
                      ELSE IF s[n] \in X THEN Append(g[n - 1], s[n]) ELSE g[n - 1]]
    BY <2>3, <2>4
  <2> QED  BY <2>5
<1>4. T = Nat
  <2> HIDE DEF Upto
  <2>1. T \in SUBSET Nat /\ 0 \in T
    BY <1>1, <1>2
  <2>2. \A k \in T : k + 1 \in T
    BY <1>1, <1>3
  <2> QED  BY <2>1, <2>2, Counting
<1>5. Upto(Len(s))
  <2> HIDE DEF Upto
  <2> QED  BY <1>1, <1>4
<1> QED  BY <1>5, Zenon DEF G!Those

LEMMA ThoseAre ==
    ASSUME NEW S, NEW s \in Seq(S), NEW X
    PROVE  /\ G!Those(s, X) \in Seq(S)
           /\ G!Range(G!Those(s, X)) = G!Range(s) \cap X
           /\ G!IsInjective(s) => G!IsInjective(G!Those(s, X))
<1>1. Len(s) \in Nat /\ DOMAIN s = 1..Len(s) /\ \A i \in 1..Len(s) : s[i] \in S
  BY LenProperties, ElementOfSeq
<1>2. PICK f : /\ f = [n \in 0..Len(s) |->
                            IF n = 0 THEN <<>>
                            ELSE IF s[n] \in X THEN Append(f[n - 1], s[n]) ELSE f[n - 1]]
               /\ G!Those(s, X) = f[Len(s)]
  BY <1>1, ThoseUpTo
<1> DEFINE Good(n) ==
      /\ f[n] \in Seq(S)
      /\ G!Range(f[n]) = {s[i] : i \in 1..n} \cap X
      /\ G!IsInjective(s) => G!IsInjective(f[n])
<1>3. PICK T : T = {n \in Nat : n <= Len(s) => Good(n)}
  OBVIOUS
<1>4. 0 \in T
  <2>1. f[0] = <<>>
    BY <1>1, <1>2
  <2>2. {s[i] : i \in 1..0} = {} /\ DOMAIN <<>> = {}
    OBVIOUS
  <2>3. G!Range(<<>>) = {} /\ G!IsInjective(<<>>)
    BY <2>2 DEF G!Range, G!IsInjective
  <2> QED  BY <1>3, <2>1, <2>2, <2>3, EmptySeq
<1>5. ASSUME NEW n \in T PROVE n + 1 \in T
  <2> SUFFICES ASSUME n + 1 <= Len(s) PROVE Good(n + 1)
    BY <1>3, <1>5
  <2>1. n \in Nat /\ n \in 0..Len(s) /\ n + 1 \in 0..Len(s) /\ n + 1 \in 1..Len(s) /\ Good(n)
    BY <1>1, <1>3
  <2>2. f[n + 1] = IF s[n + 1] \in X THEN Append(f[n], s[n + 1]) ELSE f[n]
    <3>1. \A m \in 0..Len(s) :
            f[m] = IF m = 0 THEN <<>>
                   ELSE IF s[m] \in X THEN Append(f[m - 1], s[m]) ELSE f[m - 1]
      BY <1>2
    <3>2. n + 1 # 0 /\ (n + 1) - 1 = n
      BY <2>1
    <3> QED  BY <2>1, <3>1, <3>2
  <2>3. {s[i] : i \in 1..(n + 1)} = {s[i] : i \in 1..n} \cup {s[n + 1]}
    <3>1. 1..(n + 1) = 1..n \cup {n + 1}
      BY <2>1
    <3> QED  BY <3>1
  <2>4. s[n + 1] \in S
    BY <1>1, <2>1
  <2>5. CASE s[n + 1] \in X
    <3>1. f[n + 1] = Append(f[n], s[n + 1])
      BY <2>2, <2>5
    <3>2. f[n + 1] \in Seq(S) /\ G!Range(f[n + 1]) = G!Range(f[n]) \cup {s[n + 1]}
      BY <2>1, <2>4, <3>1, Appended
    <3>3. G!IsInjective(s) => s[n + 1] \notin G!Range(f[n])
      BY <1>1, <2>1 DEF G!IsInjective
    <3>4. G!IsInjective(s) => G!IsInjective(f[n + 1])
      BY <2>1, <2>4, <3>1, <3>3, Appended
    <3>5. G!Range(f[n + 1]) = {s[i] : i \in 1..(n + 1)} \cap X
      BY <2>1, <2>3, <2>5, <3>2
    <3> QED  BY <3>2, <3>4, <3>5
  <2>6. CASE s[n + 1] \notin X
    <3>1. f[n + 1] = f[n]
      BY <2>2, <2>6
    <3>2. G!Range(f[n + 1]) = {s[i] : i \in 1..(n + 1)} \cap X
      BY <2>1, <2>3, <2>6, <3>1
    <3> QED  BY <2>1, <3>1, <3>2
  <2> QED  BY <2>5, <2>6
<1>6. Good(Len(s))
  <2>1. T = Nat
    <3> HIDE DEF Good
    <3> QED  BY <1>3, <1>4, <1>5, Counting
  <2> HIDE DEF Good
  <2> QED  BY <1>1, <1>3, <2>1
<1>7. G!Range(s) = {s[i] : i \in 1..Len(s)}
  BY <1>1 DEF G!Range
<1> QED  BY <1>2, <1>6, <1>7

LEMMA ConcatAre ==
    ASSUME NEW S, NEW s \in Seq(S), NEW t \in Seq(S)
    PROVE  /\ s \o t \in Seq(S)
           /\ G!Range(s \o t) = G!Range(s) \cup G!Range(t)
           /\ G!IsInjective(s) /\ G!IsInjective(t) /\ G!Range(s) \cap G!Range(t) = {} =>
                G!IsInjective(s \o t)
<1>1. /\ s \o t \in Seq(S) /\ Len(s \o t) = Len(s) + Len(t)
      /\ \A i \in 1..(Len(s) + Len(t)) :
           (s \o t)[i] = IF i <= Len(s) THEN s[i] ELSE t[i - Len(s)]
  BY ConcatProperties
<1>2. PICK u : u = s \o t
  OBVIOUS
<1>3. /\ Len(s) \in Nat /\ Len(t) \in Nat /\ DOMAIN s = 1..Len(s) /\ DOMAIN t = 1..Len(t)
      /\ DOMAIN u = 1..(Len(s) + Len(t))
  BY <1>1, <1>2, LenProperties
<1>4. /\ \A i \in 1..Len(s) : i \in DOMAIN u /\ u[i] = s[i]
      /\ \A j \in 1..Len(t) : Len(s) + j \in DOMAIN u /\ u[Len(s) + j] = t[j]
  BY <1>1, <1>2, <1>3
<1>5. \A i \in DOMAIN u : \/ i \in 1..Len(s)
                          \/ \E j \in 1..Len(t) : i = Len(s) + j
  <2>1. ASSUME NEW i \in DOMAIN u, i \notin 1..Len(s) PROVE \E j \in 1..Len(t) : i = Len(s) + j
    <3>1. i - Len(s) \in 1..Len(t) /\ i = Len(s) + (i - Len(s))
      BY <1>3, <2>1
    <3> QED  BY <3>1
  <2> QED  BY <2>1
<1>6. /\ \A x : x \in G!Range(s) <=> \E i \in 1..Len(s) : s[i] = x
      /\ \A x : x \in G!Range(t) <=> \E j \in 1..Len(t) : t[j] = x
      /\ \A x : x \in G!Range(u) <=> \E k \in DOMAIN u : u[k] = x
  BY <1>3 DEF G!Range
<1>7. G!Range(u) = G!Range(s) \cup G!Range(t)
  <2>1. ASSUME NEW x \in G!Range(u) PROVE x \in G!Range(s) \cup G!Range(t)
    <3>1. PICK k \in DOMAIN u : u[k] = x
      BY <1>6, <2>1
    <3>2. CASE k \in 1..Len(s)
      <4>1. s[k] = x
        BY <1>4, <3>1, <3>2
      <4> QED  BY <1>6, <3>2, <4>1
    <3>3. CASE k \notin 1..Len(s)
      <4>1. PICK j \in 1..Len(t) : k = Len(s) + j
        BY <1>5, <3>1, <3>3
      <4>2. t[j] = x
        BY <1>4, <3>1, <4>1
      <4> QED  BY <1>6, <4>1, <4>2
    <3> QED  BY <3>2, <3>3
  <2>2. ASSUME NEW x \in G!Range(s) \cup G!Range(t) PROVE x \in G!Range(u)
    BY <1>4, <1>6, <2>2
  <2> QED  BY <2>1, <2>2
<1>8. ASSUME G!IsInjective(s), G!IsInjective(t), G!Range(s) \cap G!Range(t) = {},
             NEW i \in DOMAIN u, NEW j \in DOMAIN u, u[i] = u[j]
      PROVE  i = j
  <2>1. /\ \A k, l \in 1..Len(s) : s[k] = s[l] => k = l
        /\ \A k, l \in 1..Len(t) : t[k] = t[l] => k = l
    BY <1>3, <1>8 DEF G!IsInjective
  <2>2. \A k \in 1..Len(s), l \in 1..Len(t) : s[k] # t[l]
    BY <1>6, <1>8
  <2>3. CASE i \in 1..Len(s)
    BY <1>4, <1>5, <1>8, <2>1, <2>2, <2>3
  <2>4. CASE i \notin 1..Len(s)
    <3>1. PICK k \in 1..Len(t) : i = Len(s) + k
      BY <1>5, <2>4
    <3>2. u[i] = t[k]
      BY <1>4, <3>1
    <3>3. j \notin 1..Len(s)
      BY <1>4, <1>8, <2>2, <3>2
    <3>4. PICK l \in 1..Len(t) : j = Len(s) + l
      BY <1>5, <3>3
    <3>5. u[j] = t[l]
      BY <1>4, <3>4
    <3> QED  BY <1>8, <2>1, <3>1, <3>2, <3>4, <3>5
  <2> QED  BY <2>3, <2>4
<1>9. G!IsInjective(u) <=> \A i, j \in DOMAIN u : u[i] = u[j] => i = j
  BY DEF G!IsInjective
<1> QED  BY <1>1, <1>2, <1>7, <1>8, <1>9

LEMMA FlattenedUpTo ==
    ASSUME NEW ss, Len(ss) \in Nat, Len(ss) # 0
    PROVE  \E f : /\ f = [i \in 1..Len(ss) |-> IF i = 1 THEN ss[i] ELSE f[i - 1] \o ss[i]]
                  /\ G!FlattenSeq(ss) = f[Len(ss)]
<1> DEFINE Upto(k) == \E f : f = [i \in 1..k |-> IF i = 1 THEN ss[i] ELSE f[i - 1] \o ss[i]]
<1>1. PICK T : T = {k \in Nat : Upto(k)}
  OBVIOUS
<1>2. Upto(0)
  <2>1. PICK f : f = [i \in 1..0 |-> ss[i]]
    OBVIOUS
  <2>2. f = [i \in 1..0 |-> IF i = 1 THEN ss[i] ELSE f[i - 1] \o ss[i]]
    BY <2>1
  <2> QED  BY <2>2
<1>3. ASSUME NEW k \in Nat, Upto(k) PROVE Upto(k + 1)
  <2>1. PICK f : f = [i \in 1..k |-> IF i = 1 THEN ss[i] ELSE f[i - 1] \o ss[i]]
    BY <1>3
  <2>2. PICK g : g = [i \in 1..(k + 1) |->
                       IF i <= k THEN f[i] ELSE IF i = 1 THEN ss[i] ELSE f[k] \o ss[i]]
    OBVIOUS
  <2>3. ASSUME NEW i \in 1..(k + 1)
        PROVE  g[i] = IF i = 1 THEN ss[i] ELSE g[i - 1] \o ss[i]
    <3>1. CASE i <= k
      <4>1. i \in 1..k /\ g[i] = f[i] /\ (i # 1 => g[i - 1] = f[i - 1])
        BY <2>2, <3>1
      <4> QED  BY <2>1, <4>1
    <3>2. CASE i = k + 1
      <4>1. /\ g[i] = IF i = 1 THEN ss[i] ELSE f[k] \o ss[i]
            /\ i # 1 => g[i - 1] = f[k]
        BY <2>2, <3>2
      <4> QED  BY <4>1
    <3> QED  BY <3>1, <3>2
  <2>4. g = [i \in 1..(k + 1) |-> g[i]]
    BY <2>2
  <2>5. g = [i \in 1..(k + 1) |-> IF i = 1 THEN ss[i] ELSE g[i - 1] \o ss[i]]
    BY <2>3, <2>4
  <2> QED  BY <2>5
<1>4. T = Nat
  <2> HIDE DEF Upto
  <2>1. T \in SUBSET Nat /\ 0 \in T
    BY <1>1, <1>2
  <2>2. \A k \in T : k + 1 \in T
    BY <1>1, <1>3
  <2> QED  BY <2>1, <2>2, Counting
<1>5. Upto(Len(ss))
  <2> HIDE DEF Upto
  <2> QED  BY <1>1, <1>4
<1> QED  BY <1>5, Zenon DEF G!FlattenSeq

LEMMA FlattenedAre ==
    ASSUME NEW S, NEW ss \in Seq(Seq(S))
    PROVE  /\ G!FlattenSeq(ss) \in Seq(S)
           /\ G!Range(G!FlattenSeq(ss)) = UNION {G!Range(ss[i]) : i \in 1..Len(ss)}
           /\ /\ \A i \in 1..Len(ss) : G!IsInjective(ss[i])
              /\ \A i, j \in 1..Len(ss) : i # j => G!Range(ss[i]) \cap G!Range(ss[j]) = {}
              => G!IsInjective(G!FlattenSeq(ss))
<1>1. Len(ss) \in Nat /\ DOMAIN ss = 1..Len(ss) /\ \A i \in 1..Len(ss) : ss[i] \in Seq(S)
  BY LenProperties, ElementOfSeq
<1>2. CASE Len(ss) = 0
  <2>1. ss = <<>>
    BY <1>2, EmptySeq
  <2>2. G!FlattenSeq(ss) = <<>>
    BY <1>2, <2>1 DEF G!FlattenSeq
  <2>3. DOMAIN <<>> = {} /\ {G!Range(ss[i]) : i \in 1..0} = {}
    OBVIOUS
  <2>4. G!Range(<<>>) = {} /\ G!IsInjective(<<>>)
    BY <2>3 DEF G!Range, G!IsInjective
  <2> QED  BY <1>2, <2>2, <2>3, <2>4, EmptySeq
<1>3. CASE Len(ss) # 0
  <2>1. PICK f : /\ f = [i \in 1..Len(ss) |-> IF i = 1 THEN ss[i] ELSE f[i - 1] \o ss[i]]
                 /\ G!FlattenSeq(ss) = f[Len(ss)]
    BY <1>1, <1>3, FlattenedUpTo
  <2> DEFINE Apart == /\ \A i \in 1..Len(ss) : G!IsInjective(ss[i])
                      /\ \A i, j \in 1..Len(ss) : i # j => G!Range(ss[i]) \cap G!Range(ss[j]) = {}
             Good(n) == /\ f[n] \in Seq(S)
                        /\ G!Range(f[n]) = UNION {G!Range(ss[i]) : i \in 1..n}
                        /\ Apart => G!IsInjective(f[n])
  <2>2. PICK T : T = {n \in Nat : n + 1 <= Len(ss) => Good(n + 1)}
    OBVIOUS
  <2>3. 0 \in T
    <3>1. f[1] = ss[1]
      BY <1>1, <1>3, <2>1
    <3>2. 1 \in 1..Len(ss)
      BY <1>1, <1>3
    <3>3. {G!Range(ss[i]) : i \in 1..1} = {G!Range(ss[1])}
      <4>1. 1..1 = {1}
        OBVIOUS
      <4> QED  BY <4>1
    <3>4. Good(1)
      BY <1>1, <3>1, <3>2, <3>3
    <3> HIDE DEF Good
    <3> QED  BY <2>2, <3>4
  <2>4. ASSUME NEW m \in T PROVE m + 1 \in T
    <3>1. PICK n : n = m + 1
      OBVIOUS
    <3>2. m \in Nat /\ n \in Nat \ {0}
      BY <2>2, <3>1
    <3> SUFFICES ASSUME n + 1 <= Len(ss) PROVE Good(n + 1)
      BY <2>2, <3>1, <3>2
    <3>3. n \in 1..Len(ss) /\ n + 1 \in 1..Len(ss) /\ n + 1 # 1 /\ (n + 1) - 1 = n
      BY <1>1, <3>2
    <3>4. Good(n)
      <4> HIDE DEF Good
      <4> QED  BY <2>2, <3>1, <3>2, <3>3
    <3>5. f[n + 1] = f[n] \o ss[n + 1]
      <4>1. \A k \in 1..Len(ss) : f[k] = IF k = 1 THEN ss[k] ELSE f[k - 1] \o ss[k]
        BY <2>1
      <4> QED  BY <3>3, <4>1
    <3>6. ss[n + 1] \in Seq(S)
      BY <1>1, <3>3
    <3>7. f[n + 1] \in Seq(S) /\ G!Range(f[n + 1]) = G!Range(f[n]) \cup G!Range(ss[n + 1])
      BY <3>4, <3>5, <3>6, ConcatAre
    <3>8. 1..(n + 1) = 1..n \cup {n + 1}
      BY <3>2
    <3>9. {G!Range(ss[i]) : i \in 1..(n + 1)} = {G!Range(ss[i]) : i \in 1..n} \cup {G!Range(ss[n + 1])}
      BY <3>8
    <3>10. G!Range(f[n + 1]) = UNION {G!Range(ss[i]) : i \in 1..(n + 1)}
      BY <3>4, <3>7, <3>9
    <3>11. ASSUME Apart PROVE G!IsInjective(f[n + 1])
      <4>1. \A i \in 1..n : i \in 1..Len(ss) /\ i # n + 1
        BY <1>1, <3>2, <3>3
      <4>2. \A i \in 1..n : G!Range(ss[i]) \cap G!Range(ss[n + 1]) = {}
        BY <3>3, <3>11, <4>1
      <4>3. G!Range(f[n]) \cap G!Range(ss[n + 1]) = {}
        BY <3>4, <4>2
      <4>4. G!IsInjective(f[n]) /\ G!IsInjective(ss[n + 1])
        BY <3>3, <3>4, <3>11
      <4> QED  BY <3>4, <3>5, <3>6, <4>3, <4>4, ConcatAre
    <3> QED  BY <3>7, <3>10, <3>11
  <2>5. T = Nat
    <3> HIDE DEF Good
    <3>1. T \in SUBSET Nat
      BY <2>2
    <3> QED  BY <2>3, <2>4, <3>1, Counting
  <2>6. Good(Len(ss))
    <3> HIDE DEF Good
    <3>1. Len(ss) - 1 \in T /\ (Len(ss) - 1) + 1 = Len(ss)
      BY <1>1, <1>3, <2>5
    <3> QED  BY <1>1, <2>2, <3>1
  <2> QED  BY <2>1, <2>6
<1> QED  BY <1>2, <1>3

LEMMA Extended ==
    ASSUME NEW S, NEW s \in Seq(S), NEW x \in S
    PROVE  /\ Append(s, x) \in Seq(S) /\ Len(Append(s, x)) = Len(s) + 1
           /\ \A i \in 1..Len(s) : Append(s, x)[i] = s[i]
BY AppendProperties

\* A list without its duplicates.
LEMMA DistinctUpTo ==
    ASSUME NEW s, Len(s) \in Nat
    PROVE  \E f : /\ f = [n \in 0..Len(s) |->
                             IF n = 0 THEN <<>> ELSE G!Added(f[n - 1], s[n])]
                  /\ G!Distinct(s) = f[Len(s)]
<1> DEFINE Upto(k) == \E f : f = [n \in 0..k |->
                             IF n = 0 THEN <<>> ELSE G!Added(f[n - 1], s[n])]
<1>1. PICK T : T = {k \in Nat : Upto(k)}
  OBVIOUS
<1>2. Upto(0)
  <2>1. PICK f : f = [n \in 0..0 |-> <<>>]
    OBVIOUS
  <2>2. f = [n \in 0..0 |-> IF n = 0 THEN <<>> ELSE G!Added(f[n - 1], s[n])]
    BY <2>1
  <2> QED  BY <2>2
<1>3. ASSUME NEW k \in Nat, Upto(k) PROVE Upto(k + 1)
  <2>1. PICK f : f = [n \in 0..k |->
                             IF n = 0 THEN <<>> ELSE G!Added(f[n - 1], s[n])]
    BY <1>3
  <2>2. PICK g : g = [n \in 0..(k + 1) |->
                       IF n <= k THEN f[n] ELSE G!Added(f[k], s[k + 1])]
    OBVIOUS
  <2>3. ASSUME NEW n \in 0..(k + 1)
        PROVE  g[n] = IF n = 0 THEN <<>> ELSE G!Added(g[n - 1], s[n])
    <3>1. CASE n <= k /\ n # 0
      <4>1. g[n] = f[n] /\ g[n - 1] = f[n - 1] /\ n \in 0..k
        BY <2>2, <3>1
      <4> QED  BY <2>1, <3>1, <4>1
    <3>2. CASE n = k + 1
      <4>1. g[n] = G!Added(f[k], s[k + 1]) /\ g[n - 1] = f[k]
        BY <2>2, <3>2
      <4> QED  BY <3>2, <4>1
    <3>3. CASE n = 0
      <4>1. g[0] = f[0] /\ f[0] = <<>>
        BY <2>1, <2>2
      <4> QED  BY <3>3, <4>1
    <3> QED  BY <3>1, <3>2, <3>3
  <2>4. g = [n \in 0..(k + 1) |-> g[n]]
    BY <2>2
  <2>5. g = [n \in 0..(k + 1) |-> IF n = 0 THEN <<>> ELSE G!Added(g[n - 1], s[n])]
    BY <2>3, <2>4
  <2> QED  BY <2>5
<1>4. T = Nat
  <2> HIDE DEF Upto
  <2>1. T \in SUBSET Nat /\ 0 \in T
    BY <1>1, <1>2
  <2>2. \A k \in T : k + 1 \in T
    BY <1>1, <1>3
  <2> QED  BY <2>1, <2>2, Counting
<1>5. Upto(Len(s))
  <2> HIDE DEF Upto
  <2> QED  BY <1>1, <1>4
<1> QED  BY <1>5, Zenon DEF G!Distinct

LEMMA DistinctAre ==
    ASSUME NEW V, NEW s \in Seq(V)
    PROVE  /\ G!Distinct(s) \in Seq(V) /\ G!IsInjective(G!Distinct(s))
           /\ G!Range(G!Distinct(s)) = G!Range(s)
<1>1. Len(s) \in Nat /\ DOMAIN s = 1..Len(s) /\ \A i \in 1..Len(s) : s[i] \in V
  BY LenProperties, ElementOfSeq
<1>2. PICK f : /\ f = [n \in 0..Len(s) |->
                          IF n = 0 THEN <<>> ELSE G!Added(f[n - 1], s[n])]
               /\ G!Distinct(s) = f[Len(s)]
  BY <1>1, DistinctUpTo
<1> DEFINE Good(n) == /\ f[n] \in Seq(V)
                      /\ G!Range(f[n]) = {s[i] : i \in 1..n}
                      /\ G!IsInjective(f[n])
<1>3. PICK T : T = {n \in Nat : n <= Len(s) => Good(n)}
  OBVIOUS
<1>4. 0 \in T
  <2>1. f[0] = <<>>
    BY <1>1, <1>2
  <2>2. {s[i] : i \in 1..0} = {} /\ DOMAIN <<>> = {}
    OBVIOUS
  <2>3. G!Range(<<>>) = {} /\ G!IsInjective(<<>>)
    BY <2>2 DEF G!Range, G!IsInjective
  <2> QED  BY <1>3, <2>1, <2>2, <2>3, EmptySeq
<1>5. ASSUME NEW n \in T PROVE n + 1 \in T
  <2> SUFFICES ASSUME n + 1 <= Len(s) PROVE Good(n + 1)
    BY <1>3, <1>5
  <2>1. n \in Nat /\ n + 1 \in 1..Len(s) /\ n + 1 \in 0..Len(s) /\ Good(n)
    BY <1>1, <1>3
  <2>2. f[n + 1] = G!Added(f[n], s[n + 1])
    <3>1. \A m \in 0..Len(s) : f[m] = IF m = 0 THEN <<>> ELSE G!Added(f[m - 1], s[m])
      BY <1>2
    <3>2. n + 1 # 0 /\ (n + 1) - 1 = n
      BY <2>1
    <3> QED  BY <2>1, <3>1, <3>2
  <2>3. {s[i] : i \in 1..(n + 1)} = {s[i] : i \in 1..n} \cup {s[n + 1]}
    <3>1. 1..(n + 1) = 1..n \cup {n + 1}
      BY <2>1
    <3> QED  BY <3>1
  <2>4. PICK t, e : t = f[n] /\ e = s[n + 1]
    OBVIOUS
  <2>5. t \in Seq(V) /\ e \in V /\ G!IsInjective(t)
    BY <1>1, <2>1, <2>4
  <2>6. CASE e \in G!Range(t)
    <3>1. f[n + 1] = t
      BY <2>2, <2>4, <2>6 DEF G!Added
    <3> QED  BY <2>1, <2>3, <2>4, <2>6, <3>1
  <2>7. CASE e \notin G!Range(t)
    <3>1. f[n + 1] = Append(t, e)
      BY <2>2, <2>4, <2>7 DEF G!Added
    <3> QED  BY <2>1, <2>3, <2>4, <2>5, <2>7, <3>1, Appended
  <2> QED  BY <2>6, <2>7
<1>6. Good(Len(s))
  <2>1. T = Nat
    <3> HIDE DEF Good
    <3> QED  BY <1>3, <1>4, <1>5, Counting
  <2> HIDE DEF Good
  <2> QED  BY <1>1, <1>3, <2>1
<1>7. G!Range(s) = {s[i] : i \in 1..Len(s)}
  BY <1>1 DEF G!Range
<1> QED  BY <1>2, <1>6, <1>7

------------------------------------------------------------------------------
(* The graph *)

LEMMA GraphPart ==
    /\ PartsInit /\ part = "graph" => G!InitQueries
    /\ part = "graph" /\ [PartsNext]_partsVars =>
           [G!NextQueries]_(G!queryVars) /\ (part = "graph")'
BY DEF PartsInit, PartsNext, partsVars, graphVars, G!queryVars, G!vars

LEMMA CardinalityIs == \A S : G!Cardinality(S) = Cardinality(S)
BY DEF G!Cardinality, Cardinality, G!IsFiniteSet, IsFiniteSet

\* A sequence, of whatever is in it.
Listing(s) == s \in Seq(G!Range(s))

LEMMA ListingFacts ==
    ASSUME NEW A, NEW s \in Seq(A)
    PROVE  /\ Listing(s) /\ G!Range(s) \subseteq A
           /\ Len(s) \in Nat /\ DOMAIN s = 1..Len(s)
           /\ \A x : x \in G!Range(s) <=> \E i \in 1..Len(s) : s[i] = x
<1>1. Len(s) \in Nat /\ DOMAIN s = 1..Len(s) /\ s \in [1..Len(s) -> A]
  BY LenProperties
<1>2. \A x : x \in G!Range(s) <=> \E i \in 1..Len(s) : s[i] = x
  BY <1>1 DEF G!Range
<1>3. s \in [1..Len(s) -> G!Range(s)]
  BY <1>1, <1>2
<1>4. s \in Seq(G!Range(s))
  BY <1>1, <1>3
<1> QED  BY <1>1, <1>2, <1>4 DEF Listing

LEMMA WithinFacts ==
    ASSUME NEW A, NEW s, Listing(s), G!Range(s) \subseteq A
    PROVE  s \in Seq(A)
BY SeqMonotonic DEF Listing

LEMMA MadeFacts ==
    ASSUME NEW n \in Nat, NEW f, f = [k \in 1..n |-> f[k]]
    PROVE  /\ Listing(f) /\ Len(f) = n
           /\ \A x : x \in G!Range(f) <=> \E k \in 1..n : f[k] = x
<1>1. DOMAIN f = 1..n
  OBVIOUS
<1>2. \A x : x \in G!Range(f) <=> \E k \in 1..n : f[k] = x
  BY <1>1 DEF G!Range
<1>3. f \in [1..n -> G!Range(f)]
  BY <1>1, <1>2
<1>4. f \in Seq(G!Range(f)) /\ Len(f) = n
  BY <1>3
<1> QED  BY <1>2, <1>4 DEF Listing

LEMMA EmptyFacts == Listing(<<>>) /\ G!Range(<<>>) = {}
<1>1. DOMAIN <<>> = {}
  OBVIOUS
<1> QED  BY <1>1, EmptySeq DEF Listing, G!Range

LEMMA OneFacts ==
    ASSUME NEW r
    PROVE  Listing(<<r>>) /\ \A x : x \in G!Range(<<r>>) <=> x = r
<1>1. <<r>> \in Seq({r})
  OBVIOUS
<1>2. DOMAIN <<r>> = {1} /\ <<r>>[1] = r
  OBVIOUS
<1>3. \A x : x \in G!Range(<<r>>) <=> x = r
  BY <1>2 DEF G!Range
<1> QED  BY <1>1, <1>3, ListingFacts

LEMMA JoinFacts ==
    ASSUME NEW s, NEW t, Listing(s), Listing(t)
    PROVE  Listing(s \o t) /\ G!Range(s \o t) = G!Range(s) \cup G!Range(t)
<1>1. PICK A : A = G!Range(s) \cup G!Range(t)
  OBVIOUS
<1>2. s \in Seq(A) /\ t \in Seq(A)
  BY <1>1, WithinFacts
<1>3. s \o t \in Seq(A) /\ G!Range(s \o t) = G!Range(s) \cup G!Range(t)
  BY <1>2, ConcatAre
<1> QED  BY <1>3, ListingFacts

LEMMA ThoseFacts ==
    ASSUME NEW s, Listing(s), NEW X
    PROVE  /\ Listing(G!Those(s, X)) /\ G!Range(G!Those(s, X)) = G!Range(s) \cap X
           /\ G!IsInjective(s) => G!IsInjective(G!Those(s, X))
<1>1. PICK A : A = G!Range(s) /\ s \in Seq(A)
  BY DEF Listing
<1>2. /\ G!Those(s, X) \in Seq(A) /\ G!Range(G!Those(s, X)) = G!Range(s) \cap X
      /\ G!IsInjective(s) => G!IsInjective(G!Those(s, X))
  BY <1>1, ThoseAre
<1>3. PICK u : u = G!Those(s, X)
  OBVIOUS
<1>4. Listing(u)
  BY <1>2, <1>3, ListingFacts
<1> QED  BY <1>2, <1>3, <1>4

LEMMA FlattenFacts ==
    ASSUME NEW n \in Nat, NEW ss, ss = [k \in 1..n |-> ss[k]],
           \A k \in 1..n : Listing(ss[k])
    PROVE  /\ Listing(G!FlattenSeq(ss))
           /\ \A x : x \in G!Range(G!FlattenSeq(ss)) <=> \E k \in 1..n : x \in G!Range(ss[k])
<1>1. PICK A : A = UNION {G!Range(ss[k]) : k \in 1..n}
  OBVIOUS
<1>2. \A k \in 1..n : ss[k] \in Seq(A)
  BY <1>1, WithinFacts
<1>3. ss \in [1..n -> Seq(A)]
  BY <1>2
<1>4. ss \in Seq(Seq(A)) /\ Len(ss) = n
  BY <1>3
<1>5. PICK u : u = G!FlattenSeq(ss)
  OBVIOUS
<1>6. u \in Seq(A) /\ G!Range(u) = UNION {G!Range(ss[i]) : i \in 1..Len(ss)}
  BY <1>4, <1>5, FlattenedAre
<1>7. Listing(u)
  BY <1>6, ListingFacts
<1>8. \A x : x \in G!Range(u) <=> \E k \in 1..n : x \in G!Range(ss[k])
  BY <1>4, <1>6
<1> QED  BY <1>5, <1>7, <1>8

LEMMA ImageFacts ==
    ASSUME NEW S, IsFiniteSet(S), NEW f, f = [x \in S |-> f[x]]
    PROVE  IsFiniteSet({f[x] : x \in S})
<1>1. PICK T : T = {f[x] : x \in S}
  OBVIOUS
<1>2. f \in Surjection(S, T)
  BY <1>1 DEF Surjection
<1>3. IsFiniteSet(T)
  BY <1>2, FS_Surjection
<1> QED  BY <1>1, <1>3

\* A set as a sequence.
LEMMA SetToSeqFacts ==
    ASSUME NEW S, IsFiniteSet(S)
    PROVE  Listing(G!SetToSeq(S)) /\ G!Range(G!SetToSeq(S)) = S
<1>1. PICK N \in Nat : N = Cardinality(S) /\ ExistsBijection(1..N, S)
  BY FS_CardinalityType
<1>2. PICK g : g \in [1..N -> S] /\ IsInjective(g)
  BY <1>1 DEF ExistsBijection, Bijection, Injection
<1>3. G!Cardinality(S) = N
  BY <1>1, CardinalityIs
<1>4. IsInjective(g) <=> G!IsInjective(g)
  BY DEF IsInjective, G!IsInjective
<1>5. PICK f : f = G!SetToSeq(S)
  OBVIOUS
<1>6. f = CHOOSE h \in [1..N -> S] : G!IsInjective(h)
  BY <1>3, <1>5 DEF G!SetToSeq
<1>7. f \in [1..N -> S] /\ G!IsInjective(f)
  BY <1>2, <1>4, <1>6
<1>8. f \in Injection(1..N, S)
  BY <1>7 DEF Injection, IsInjective, G!IsInjective
<1>9. Cardinality(1..N) = N
  BY FS_Interval
<1>10. f \in Surjection(1..N, S)
  BY <1>1, <1>8, <1>9, FS_Injection
<1>11. \A x \in S : \E n \in 1..N : f[n] = x
  BY <1>10 DEF Surjection
<1>12. Listing(f) /\ \A x : x \in G!Range(f) <=> \E k \in 1..N : f[k] = x
  BY <1>7, MadeFacts
<1> QED  BY <1>5, <1>7, <1>11, <1>12

LEMMA FiniteFacts ==
    ASSUME NEW s, Listing(s)
    PROVE  /\ IsFiniteSet(DOMAIN s) /\ IsFiniteSet(G!Range(s))
           /\ DOMAIN s = 1..Len(s) /\ Len(s) \in Nat
           /\ \A x : x \in G!Range(s) <=> \E i \in 1..Len(s) : s[i] = x
<1>1. /\ DOMAIN s = 1..Len(s) /\ Len(s) \in Nat
      /\ \A x : x \in G!Range(s) <=> \E i \in 1..Len(s) : s[i] = x
  BY ListingFacts DEF Listing
<1>2. IsFiniteSet(DOMAIN s)
  BY <1>1, FS_Interval
<1>3. s = [i \in DOMAIN s |-> s[i]]
  BY DEF Listing
<1>4. IsFiniteSet({s[i] : i \in DOMAIN s})
  BY <1>2, <1>3, ImageFacts
<1>5. G!Range(s) = {s[i] : i \in DOMAIN s}
  BY DEF G!Range
<1> QED  BY <1>1, <1>2, <1>4, <1>5

\* A symbol that uses another is a node of the graph: the edges that impact
\* follows lead to nodes.
Uses == {"calls", "extends"}
GraphTypes ==
    /\ gPhase \in {"extract", "resolve", "overlay", "merge", "stored"}
    /\ gSource \in Programs /\ gAt \in 0..Len(Paths)
    /\ Listing(gNodes) /\ Listing(gRefs) /\ Listing(gEdges)
    /\ \A n \in G!Range(gNodes) : n.kind \in G!NodeKinds /\ n.blocks \in Nat
    /\ \A r \in G!Range(gRefs) : r.kind \in Uses \cup {"imports"}
UsersKnown ==
    /\ \A r \in G!Range(gRefs) : r.kind \in Uses => G!Stored(r.from)
    /\ \A e \in G!Range(gEdges) : e.kind \in Uses => G!Stored(e.source)
AskedLast == gPhase # "stored" => gAnswer = G!NoAnswer

GraphInv == GraphTypes /\ UsersKnown /\ AskedLast

LEMMA GraphInit == G!InitQueries => GraphInv
<1> SUFFICES ASSUME G!InitQueries PROVE GraphInv
  OBVIOUS
<1> USE DEF G!InitQueries, G!Init
<1>1. Len(Paths) \in Nat
  BY GraphParts, LenProperties DEF G!LinkingAssumption
<1> QED  BY <1>1, EmptyFacts DEF GraphInv, GraphTypes, UsersKnown, AskedLast

\* A step that loses no node and adds nodes, edges and references as it should.
LEMMA GraphGrows ==
    ASSUME GraphInv,
           gPhase' \in {"extract", "resolve", "overlay", "merge", "stored"},
           gSource' = gSource, gAt' \in 0..Len(Paths),
           Listing(gNodes'), Listing(gRefs'), Listing(gEdges'),
           \A i : G!Stored(i) => G!Stored(i)',
           \A n \in G!Range(gNodes') :
               n \in G!Range(gNodes) \/ (n.kind \in G!NodeKinds /\ n.blocks \in Nat),
           \A r \in G!Range(gRefs') :
               \/ r \in G!Range(gRefs)
               \/ r.kind \in Uses \cup {"imports"} /\ (r.kind \in Uses => G!Stored(r.from)'),
           \A e \in G!Range(gEdges') :
               e \in G!Range(gEdges) \/ (e.kind \in Uses => G!Stored(e.source)'),
           gPhase # "stored", gAnswer' = gAnswer
    PROVE  GraphInv'
<1>1. GraphTypes'
  BY DEF GraphInv, GraphTypes, G!Range, G!NodeKinds, G!Callables, G!Types, G!Modules, Listing
<1>2. \A r \in G!Range(gRefs') : r.kind \in Uses => G!Stored(r.from)'
  BY DEF GraphInv, UsersKnown
<1>3. \A e \in G!Range(gEdges') : e.kind \in Uses => G!Stored(e.source)'
  BY DEF GraphInv, UsersKnown
<1>4. UsersKnown'
  BY <1>2, <1>3 DEF UsersKnown, G!Range
<1>5. AskedLast'
  BY DEF GraphInv, AskedLast, G!NoAnswer
<1> QED  BY <1>1, <1>4, <1>5 DEF GraphInv

LEMMA StoredMoreFacts ==
    ASSUME G!Range(gNodes) \subseteq G!Range(gNodes')
    PROVE  \A i : G!Stored(i) => G!Stored(i)'
<1>1. \A i : G!Stored(i) <=> \E n \in G!Range(gNodes) : G!Id(n) = i
  BY DEF G!Stored
<1>2. \A i : G!Stored(i)' <=> \E n \in G!Range(gNodes') : G!Id(n) = i
  BY DEF G!Stored, G!Range, G!Id
<1> QED  BY <1>1, <1>2

LEMMA SourceFileFacts ==
    ASSUME GraphInv, NEW f \in G!SourceFiles
    PROVE  /\ Listing(gSource[f])
           /\ \A s \in G!Range(gSource[f]) : G!Written(s)
BY GraphParts DEF GraphInv, GraphTypes, G!LinkingAssumption, Listing

\* What a file declares: nodes of known kinds.
LEMMA DeclaredFacts ==
    ASSUME GraphInv, NEW f \in G!SourceFiles
    PROVE  /\ Listing(G!Declared(f))
           /\ \A n \in G!Range(G!Declared(f)) : n.kind \in G!NodeKinds /\ n.blocks \in Nat
           /\ \A s \in G!Range(gSource[f]) :
                 G!Declares(s) => G!NodeOf(f, s) \in G!Range(G!Declared(f))
<1>1. /\ Listing(gSource[f])
      /\ \A s \in G!Range(gSource[f]) : G!Written(s)
  BY SourceFileFacts
<1>2. PICK s : s = G!Those(gSource[f], {t \in G!Range(gSource[f]) : G!Declares(t)})
  OBVIOUS
<1>3. Listing(s) /\ \A t : t \in G!Range(s) <=> t \in G!Range(gSource[f]) /\ G!Declares(t)
  BY <1>1, <1>2, ThoseFacts
<1>4. DOMAIN s = 1..Len(s) /\ Len(s) \in Nat /\ \A x : x \in G!Range(s) <=> \E i \in 1..Len(s) : s[i] = x
  BY <1>3, FiniteFacts
<1>5. PICK found : found = [n \in 1..Len(s) |-> G!NodeOf(f, s[n])] /\ found = G!Declared(f)
  BY <1>2, <1>4 DEF G!Declared
<1>6. /\ Listing(found)
      /\ \A x : x \in G!Range(found) <=> \E k \in 1..Len(s) : found[k] = x
  BY <1>4, <1>5, MadeFacts
<1>7. \A x : x \in G!Range(found) <=> \E t \in G!Range(s) : x = G!NodeOf(f, t)
  BY <1>4, <1>5, <1>6
<1>8. ASSUME NEW t \in G!Range(s)
      PROVE  G!NodeOf(f, t).kind \in G!NodeKinds /\ G!NodeOf(f, t).blocks \in Nat
  <2>1. t.op \in {"class", "assign", "def"} /\ (t.op = "def" => t.blocks \in Nat)
    BY <1>1, <1>3 DEF G!Declares, G!Written
  <2>2. G!DefKind(f, t) \in G!NodeKinds
    BY DEF G!DefKind, G!NodeKinds, G!Callables
  <2>3. G!KindOf(f, t) \in G!NodeKinds
    BY <2>1, <2>2 DEF G!KindOf, G!NodeKinds, G!Types
  <2> QED  BY <2>1, <2>3 DEF G!NodeOf
<1> QED  BY <1>3, <1>5, <1>6, <1>7, <1>8

\* What a statement refers to, and who does.
LEMMA RefsOfFacts ==
    ASSUME GraphInv, NEW f \in G!SourceFiles, NEW s \in G!Range(gSource[f])
    PROVE  /\ Listing(G!RefsOf(f, s))
           /\ \A r \in G!Range(G!RefsOf(f, s)) :
                 /\ r.kind \in Uses \cup {"imports"}
                 /\ r.kind \in Uses => \E n \in G!Range(G!Declared(f)) : r.from = G!Id(n)
<1>1. G!Written(s)
  BY SourceFileFacts
<1>2. G!Declares(s) => G!NodeOf(f, s) \in G!Range(G!Declared(f))
  BY DeclaredFacts
<1>3. CASE s.op \in {"import", "from"}
  <2>1. PICK r : G!RefsOf(f, s) = <<r>> /\ r.kind = "imports"
    <3>1. CASE s.op = "import"
      <4>1. PICK r : r = G!Ref(f, G!Id(G!ModuleNode(f)), "imports", 0, s.mod)
        OBVIOUS
      <4>2. G!RefsOf(f, s) = <<r>> /\ r.kind = "imports"
        BY <3>1, <4>1 DEF G!RefsOf, G!Ref
      <4> QED  BY <4>2
    <3>2. CASE s.op = "from"
      <4>1. PICK r : r = G!Ref(f, G!Id(G!ModuleNode(f)), "imports", G!FromDots(s),
                               Append(s.mod, s.name))
        OBVIOUS
      <4>2. G!RefsOf(f, s) = <<r>> /\ r.kind = "imports"
        BY <3>2, <4>1 DEF G!RefsOf, G!Ref
      <4> QED  BY <4>2
    <3> QED  BY <1>3, <3>1, <3>2
  <2> QED  BY <2>1, OneFacts DEF Uses
<1>4. CASE s.op = "class"
  <2>1. Listing(s.bases)
    BY <1>1, <1>4 DEF G!Written, Listing
  <2>2. PICK rs : /\ rs = [n \in 1..Len(s.bases) |->
                              G!Ref(f, G!Id(G!NodeOf(f, s)), "extends", 0, s.bases[n])]
                  /\ rs = G!RefsOf(f, s)
    BY <1>4, <2>1, FiniteFacts DEF G!RefsOf
  <2>3. Listing(rs) /\ \A x : x \in G!Range(rs) <=> \E k \in 1..Len(s.bases) : rs[k] = x
    BY <2>1, <2>2, FiniteFacts, MadeFacts
  <2>4. \A k \in 1..Len(s.bases) : rs[k].kind = "extends" /\ rs[k].from = G!Id(G!NodeOf(f, s))
    BY <2>2 DEF G!Ref
  <2>5. \A x \in G!Range(rs) : x.kind = "extends" /\ x.from = G!Id(G!NodeOf(f, s))
    BY <2>3, <2>4
  <2> QED  BY <1>2, <1>4, <2>2, <2>3, <2>5 DEF G!Declares, Uses
<1>5. CASE s.op = "def" /\ ~s.overload
  <2>1. Listing(s.calls)
    BY <1>1, <1>5 DEF G!Written, Listing
  <2>2. PICK rs : /\ rs = [n \in 1..Len(s.calls) |->
                              G!Ref(f, G!Id(G!NodeOf(f, s)), "calls", 0, s.calls[n])]
                  /\ rs = G!RefsOf(f, s)
    BY <1>5, <2>1, FiniteFacts DEF G!RefsOf
  <2>3. Listing(rs) /\ \A x : x \in G!Range(rs) <=> \E k \in 1..Len(s.calls) : rs[k] = x
    BY <2>1, <2>2, FiniteFacts, MadeFacts
  <2>4. \A k \in 1..Len(s.calls) : rs[k].kind = "calls" /\ rs[k].from = G!Id(G!NodeOf(f, s))
    BY <2>2 DEF G!Ref
  <2>5. \A x \in G!Range(rs) : x.kind = "calls" /\ x.from = G!Id(G!NodeOf(f, s))
    BY <2>3, <2>4
  <2> QED  BY <1>2, <1>5, <2>2, <2>3, <2>5 DEF G!Declares, Uses
<1>6. CASE (s.op = "def" /\ s.overload) \/ s.op \notin {"import", "from", "class", "def"}
  <2>1. G!RefsOf(f, s) = <<>>
    BY <1>6 DEF G!RefsOf
  <2> QED  BY <2>1, EmptyFacts
<1> QED  BY <1>3, <1>4, <1>5, <1>6

LEMMA GraphAnalyze ==
    ASSUME GraphInv, G!Analyze, UNCHANGED gAnswer
    PROVE  GraphInv'
<1> USE DEF G!Analyze
<1>1. PICK f : f = Paths[gAt + 1]
  OBVIOUS
<1>2. Len(Paths) \in Nat /\ DOMAIN Paths = 1..Len(Paths) /\ gAt \in Nat
  BY GraphParts, LenProperties DEF G!LinkingAssumption, GraphInv, GraphTypes
<1>3. f \in G!SourceFiles /\ gAt' \in 0..Len(Paths)
  <2>1. gAt < Len(Paths) /\ gAt' = gAt + 1
    OBVIOUS
  <2>2. gAt + 1 \in DOMAIN Paths /\ gAt' \in 0..Len(Paths)
    BY <1>2, <2>1
  <2> QED  BY <1>1, <2>2 DEF G!SourceFiles, G!Range
<1>4. PICK found : found = G!Declared(f)
  OBVIOUS
<1>5. PICK m : m = G!ModuleNode(f)
  OBVIOUS
<1>6. m.kind \in G!NodeKinds /\ m.blocks \in Nat
  BY <1>5 DEF G!ModuleNode, G!NodeKinds, G!Modules
<1>7. Listing(found) /\ \A n \in G!Range(found) : n.kind \in G!NodeKinds /\ n.blocks \in Nat
  BY <1>3, <1>4, DeclaredFacts
<1>8. Listing(gNodes) /\ Listing(gRefs) /\ Listing(gEdges)
  BY DEF GraphInv, GraphTypes
<1>9. Listing(<<m>>) /\ \A x : x \in G!Range(<<m>>) <=> x = m
  BY OneFacts
<1>10. /\ Listing(gNodes')
       /\ \A n : n \in G!Range(gNodes') <=> n \in G!Range(gNodes) \/ n = m \/ n \in G!Range(found)
  <2>1. gNodes' = (gNodes \o <<m>>) \o found
    BY <1>1, <1>4, <1>5
  <2>2. PICK a : a = gNodes \o <<m>>
    OBVIOUS
  <2>3. Listing(a) /\ G!Range(a) = G!Range(gNodes) \cup G!Range(<<m>>)
    BY <1>8, <1>9, <2>2, JoinFacts
  <2>4. Listing(a \o found) /\ G!Range(a \o found) = G!Range(a) \cup G!Range(found)
    BY <1>7, <2>3, JoinFacts
  <2> QED  BY <1>9, <2>1, <2>2, <2>3, <2>4
<1>11. \A i : G!Stored(i) => G!Stored(i)'
  BY <1>10, StoredMoreFacts
<1>12. \A n \in G!Range(found) : G!Stored(G!Id(n))'
  <2>1. \A i : G!Stored(i)' <=> \E n \in G!Range(gNodes') : G!Id(n) = i
    BY DEF G!Stored, G!Range, G!Id
  <2> QED  BY <1>10, <2>1
<1>13. /\ Listing(gEdges')
       /\ \A e \in G!Range(gEdges') : e \in G!Range(gEdges) \/ e.kind = "contains"
  <2>1. PICK es : es = [n \in 1..Len(found) |->
                          G!Edge(G!Parent(f, found[n]), G!Id(found[n]), "contains", "ast", f)]
    OBVIOUS
  <2>2. DOMAIN found = 1..Len(found) /\ Len(found) \in Nat
    BY <1>7, FiniteFacts
  <2>3. Listing(es) /\ \A x : x \in G!Range(es) <=> \E k \in 1..Len(found) : es[k] = x
    <3>1. es = [n \in 1..Len(found) |-> es[n]]
      BY <2>1
    <3> QED  BY <2>2, <3>1, MadeFacts
  <2>4. gEdges' = gEdges \o es
    BY <1>1, <1>4, <2>1, <2>2
  <2>5. \A k \in 1..Len(found) : es[k].kind = "contains"
    BY <2>1, <2>2 DEF G!Edge
  <2>6. Listing(gEdges \o es) /\ G!Range(gEdges \o es) = G!Range(gEdges) \cup G!Range(es)
    BY <1>8, <2>3, JoinFacts
  <2> QED  BY <2>3, <2>4, <2>5, <2>6
<1>14. /\ Listing(gRefs')
       /\ \A r \in G!Range(gRefs') :
             \/ r \in G!Range(gRefs)
             \/ /\ r.kind \in Uses \cup {"imports"}
                /\ r.kind \in Uses => \E n \in G!Range(found) : r.from = G!Id(n)
  <2>1. Listing(gSource[f])
    BY <1>3, SourceFileFacts
  <2>2. DOMAIN gSource[f] = 1..Len(gSource[f]) /\ Len(gSource[f]) \in Nat
        /\ \A i \in 1..Len(gSource[f]) : gSource[f][i] \in G!Range(gSource[f])
    BY <2>1, FiniteFacts
  <2>3. PICK ss : ss = [n \in 1..Len(gSource[f]) |-> G!RefsOf(f, gSource[f][n])]
    OBVIOUS
  <2>4. \A k \in 1..Len(gSource[f]) :
            /\ Listing(ss[k])
            /\ \A r \in G!Range(ss[k]) :
                 /\ r.kind \in Uses \cup {"imports"}
                 /\ r.kind \in Uses => \E n \in G!Range(found) : r.from = G!Id(n)
    BY <1>3, <1>4, <2>2, <2>3, RefsOfFacts
  <2>5. PICK rs : rs = G!FlattenSeq(ss)
    OBVIOUS
  <2>6. Listing(rs) /\ \A r : r \in G!Range(rs) <=> \E k \in 1..Len(gSource[f]) : r \in G!Range(ss[k])
    BY <2>2, <2>3, <2>4, <2>5, FlattenFacts
  <2>7. gRefs' = gRefs \o rs
    BY <1>1, <2>2, <2>3, <2>5
  <2>8. Listing(gRefs \o rs) /\ G!Range(gRefs \o rs) = G!Range(gRefs) \cup G!Range(rs)
    BY <1>8, <2>6, JoinFacts
  <2> QED  BY <2>4, <2>6, <2>7, <2>8
<1>15. \A e \in G!Range(gEdges') : e \in G!Range(gEdges) \/ (e.kind \in Uses => G!Stored(e.source)')
  BY <1>13 DEF Uses
<1>16. \A r \in G!Range(gRefs') :
               \/ r \in G!Range(gRefs)
               \/ r.kind \in Uses \cup {"imports"} /\ (r.kind \in Uses => G!Stored(r.from)')
  BY <1>12, <1>14
<1>17. gSource' = gSource /\ gPhase' = gPhase /\ gPhase = "extract" /\ gAnswer' = gAnswer
  OBVIOUS
<1>18. \A n \in G!Range(gNodes') :
          n \in G!Range(gNodes) \/ (n.kind \in G!NodeKinds /\ n.blocks \in Nat)
  BY <1>6, <1>7, <1>10
<1> HIDE DEF G!Analyze
<1> QED  BY <1>3, <1>10, <1>11, <1>13, <1>14, <1>15, <1>16, <1>17, <1>18, GraphGrows

LEMMA GraphSkips ==
    ASSUME GraphInv, G!AnalyzeFails \/ G!Extracted \/ G!OverlayFails, UNCHANGED gAnswer
    PROVE  GraphInv'
<1>1. /\ gPhase \in {"extract", "overlay"} /\ gPhase' \in {"extract", "resolve", "merge"}
      /\ UNCHANGED <<gSource, gNodes, gRefs, gEdges>>
  BY DEF G!AnalyzeFails, G!Extracted, G!OverlayFails
<1>2. Len(Paths) \in Nat /\ gAt \in 0..Len(Paths)
  BY GraphParts, LenProperties DEF G!LinkingAssumption, GraphInv, GraphTypes
<1>3. gAt' \in 0..Len(Paths)
  BY <1>2 DEF G!AnalyzeFails, G!Extracted, G!OverlayFails
<1>4. \A i : G!Stored(i) => G!Stored(i)'
  BY <1>1, StoredMoreFacts
<1> QED  BY <1>1, <1>3, <1>4, GraphGrows DEF GraphInv, GraphTypes

\* What a reference is resolved to: finitely many edges from who refers.
LEMMA PickFacts ==
    ASSUME NEW s, NEW f, NEW kinds
    PROVE  IsFiniteSet(G!Pick(s, f, kinds))
<1>1. G!Pick(s, f, kinds) = {} \/ \E n : G!Pick(s, f, kinds) = {n}
  BY DEF G!Pick
<1>2. CASE G!Pick(s, f, kinds) = {}
  BY <1>2, FS_EmptySet
<1>3. ASSUME NEW n, G!Pick(s, f, kinds) = {n} PROVE IsFiniteSet(G!Pick(s, f, kinds))
  BY <1>3, FS_Singleton
<1> QED  BY <1>1, <1>2, <1>3

LEMMA LinksFacts ==
    ASSUME NEW S, IsFiniteSet(S), NEW ref, NEW prov
    PROVE  /\ IsFiniteSet({G!Link(ref, n, prov) : n \in S})
           /\ \A e \in {G!Link(ref, n, prov) : n \in S} :
                 e.source = ref.from /\ e.kind = ref.kind
<1>1. PICK f : f = [n \in S |-> G!Link(ref, n, prov)]
  OBVIOUS
<1>2. IsFiniteSet({f[n] : n \in S})
  BY <1>1, ImageFacts
<1>3. PICK T : T = {f[n] : n \in S} /\ T = {G!Link(ref, n, prov) : n \in S}
  BY <1>1
<1>4. \A n \in S : f[n].source = ref.from /\ f[n].kind = ref.kind
  BY <1>1 DEF G!Link, G!Edge
<1>5. \A e \in T : e.source = ref.from /\ e.kind = ref.kind
  BY <1>3, <1>4
<1> QED  BY <1>2, <1>3, <1>5

LEMMA ResolvedFacts ==
    ASSUME GraphInv, NEW ref, ref.kind \in Uses \cup {"imports"}
    PROVE  /\ IsFiniteSet(G!Resolved(ref))
           /\ \A e \in G!Resolved(ref) : e.source = ref.from /\ e.kind = ref.kind
<1> DEFINE Good(S) == /\ IsFiniteSet(S)
                      /\ \A e \in S : e.source = ref.from /\ e.kind = ref.kind
<1>1. ASSUME NEW n, NEW prov PROVE Good({G!Link(ref, n, prov)})
  <2>1. PICK e : e = G!Link(ref, n, prov)
    OBVIOUS
  <2>2. e.source = ref.from /\ e.kind = ref.kind
    BY <2>1 DEF G!Link, G!Edge
  <2>3. IsFiniteSet({e})
    BY FS_Singleton
  <2> QED  BY <2>1, <2>2, <2>3
<1>2. Good({})
  BY FS_EmptySet
<1>3. Good(G!ResolveCall(ref))
  <2>1. Listing(gNodes)
    BY DEF GraphInv, GraphTypes
  <2>2. IsFiniteSet(G!Range(G!Fallback(ref)))
    <3>1. PICK a : a = G!ByName(G!Last(ref.name)) /\ Listing(a)
      BY <2>1, ThoseFacts DEF G!ByName
    <3>2. PICK b : b = G!Among(a, G!Callables, ref) /\ Listing(b)
      BY <3>1, ThoseFacts DEF G!Among, G!OfKind
    <3>3. PICK c : c = G!OfFile(b, ref.file) /\ Listing(c)
      BY <3>2, ThoseFacts DEF G!OfFile
    <3>4. G!Fallback(ref) \in {b, c, <<>>}
      BY <3>1, <3>2, <3>3 DEF G!Fallback
    <3> QED  BY <3>2, <3>3, <3>4, EmptyFacts, FiniteFacts
  <2>3. Good({G!Link(ref, n, "heuristic") : n \in G!Range(G!Fallback(ref))})
    BY <2>2, LinksFacts
  <2> HIDE DEF Good
  <2>4. \/ G!ResolveCall(ref) = {}
        \/ \E n, prov : G!ResolveCall(ref) = {G!Link(ref, n, prov)}
        \/ G!ResolveCall(ref) = {G!Link(ref, n, "heuristic") : n \in G!Range(G!Fallback(ref))}
    BY DEF G!ResolveCall
  <2> QED  BY <1>1, <1>2, <2>3, <2>4
<1>4. Good(G!ResolveType(ref))
  <2>1. PICK S, T : /\ S = G!Pick(G!ByQual(ref.name), ref.file, G!Types)
                    /\ T = G!Pick(G!ByName(G!Last(ref.name)), ref.file, G!Types)
    OBVIOUS
  <2>2. IsFiniteSet(S) /\ IsFiniteSet(T)
    BY <2>1, PickFacts
  <2>3. Good({G!Link(ref, n, "resolved") : n \in S})
    BY <2>2, LinksFacts
  <2>5. Good({G!Link(ref, n, "heuristic") : n \in T})
    BY <2>2, LinksFacts
  <2> HIDE DEF Good
  <2>4. \/ G!ResolveType(ref) = {G!Link(ref, n, "resolved") : n \in S}
        \/ G!ResolveType(ref) = {G!Link(ref, n, "heuristic") : n \in T}
    BY <2>1 DEF G!ResolveType
  <2> QED  BY <2>3, <2>4, <2>5
<1>5. Good(G!ResolveImport(ref))
  <2>1. PICK S : S = G!Pick(G!ByQual(G!Absolute(ref)), ref.file,
                             {m.kind : m \in G!Range(gNodes)})
    OBVIOUS
  <2>2. IsFiniteSet(S)
    BY <2>1, PickFacts
  <2>3. Good({G!Link(ref, n, "resolved") : n \in S})
    BY <2>2, LinksFacts
  <2> HIDE DEF Good
  <2>4. G!ResolveImport(ref) = {G!Link(ref, n, "resolved") : n \in S}
    BY <2>1 DEF G!ResolveImport
  <2> QED  BY <2>3, <2>4
<1>6. G!Resolved(ref) \in {G!ResolveCall(ref), G!ResolveType(ref), G!ResolveImport(ref)}
  BY DEF G!Resolved, Uses
<1> HIDE DEF Good
<1>7. Good(G!Resolved(ref))
  BY <1>3, <1>4, <1>5, <1>6
<1> QED  BY <1>7 DEF Good

LEMMA GraphResolveRef ==
    ASSUME GraphInv, G!ResolveRef, UNCHANGED gAnswer
    PROVE  GraphInv'
<1>1. /\ gPhase = "resolve" /\ gRefs # <<>> /\ gRefs' = Tail(gRefs)
      /\ UNCHANGED <<gPhase, gSource, gAt, gNodes, gAnswer>>
      /\ gEdges' = gEdges \o G!SetToSeq({d \in G!Resolved(Head(gRefs)) : ~G!Linked(d)})
  BY DEF G!ResolveRef
<1>2. Listing(gRefs) /\ Listing(gEdges)
  BY DEF GraphInv, GraphTypes
<1>3. PICK A : A = G!Range(gRefs) /\ gRefs \in Seq(A)
  BY <1>2 DEF Listing
<1>4. PICK ref : ref = Head(gRefs) /\ ref \in G!Range(gRefs)
  BY <1>1, <1>3, HeadTailProperties
<1>5. Listing(gRefs') /\ G!Range(gRefs') \subseteq G!Range(gRefs)
  BY <1>1, <1>3, HeadTailProperties, ListingFacts
<1>6. ref.kind \in Uses \cup {"imports"} /\ (ref.kind \in Uses => G!Stored(ref.from))
  BY <1>4 DEF GraphInv, GraphTypes, UsersKnown
<1>7. PICK found : found = G!Resolved(ref)
  OBVIOUS
<1>8. IsFiniteSet(found) /\ \A e \in found : e.source = ref.from /\ e.kind = ref.kind
  BY <1>6, <1>7, ResolvedFacts
<1>9. PICK new : new = {d \in found : ~G!Linked(d)}
  OBVIOUS
<1>10. IsFiniteSet(new)
  BY <1>8, <1>9, FS_Subset
<1>11. PICK s : s = G!SetToSeq(new) /\ Listing(s) /\ G!Range(s) = new
  BY <1>10, SetToSeqFacts
<1>12. gEdges' = gEdges \o s
  BY <1>1, <1>4, <1>7, <1>9, <1>11
<1>13. Listing(gEdges') /\ G!Range(gEdges') = G!Range(gEdges) \cup new
  BY <1>2, <1>11, <1>12, JoinFacts
<1>14. \A i : G!Stored(i) => G!Stored(i)'
  BY <1>1, StoredMoreFacts
<1>15. \A e \in G!Range(gEdges') : e \in G!Range(gEdges) \/ (e.kind \in Uses => G!Stored(e.source)')
  BY <1>6, <1>8, <1>9, <1>13, <1>14
<1> QED  BY <1>1, <1>5, <1>13, <1>14, <1>15, GraphGrows DEF GraphInv, GraphTypes

\* The nodes and edges of the docstring examples.
LEMMA ExamplesFacts ==
    ASSUME GraphInv
    PROVE  /\ Listing(G!Examples)
           /\ \A n \in G!Range(G!Examples) : n.kind \in G!NodeKinds /\ n.blocks \in Nat
           /\ Listing(G!ExampleEdges)
           /\ \A e \in G!Range(G!ExampleEdges) : e.kind \notin Uses
<1>1. /\ DOMAIN gNodes = 1..Len(gNodes) /\ Len(gNodes) \in Nat
      /\ \A m \in 1..Len(gNodes) : gNodes[m].blocks \in Nat
  BY FiniteFacts DEF GraphInv, GraphTypes
<1>2. PICK ss : ss = [m \in 1..Len(gNodes) |->
                        [b \in 1..gNodes[m].blocks |-> G!Example(gNodes[m], b)]]
  OBVIOUS
<1>3. ASSUME NEW m \in 1..Len(gNodes)
      PROVE  /\ Listing(ss[m])
             /\ \A n \in G!Range(ss[m]) : n.kind = "example" /\ n.blocks = 0
  <2>1. ss[m] = [b \in 1..gNodes[m].blocks |-> G!Example(gNodes[m], b)]
    BY <1>2
  <2>2. PICK k, s : k = gNodes[m].blocks /\ k \in Nat /\ s = ss[m]
    BY <1>1
  <2>3. \A b \in 1..k : s[b].kind = "example" /\ s[b].blocks = 0
    BY <2>1, <2>2 DEF G!Example
  <2>4. s = [b \in 1..k |-> s[b]]
    BY <2>1, <2>2
  <2>5. k \in Nat
    BY <2>2
  <2>6. Listing(s) /\ \A n : n \in G!Range(s) <=> \E b \in 1..k : s[b] = n
    BY <2>4, <2>5, MadeFacts
  <2> QED  BY <2>2, <2>3, <2>6
<1>4. PICK x : x = G!FlattenSeq(ss) /\ x = G!Examples
  BY <1>1, <1>2 DEF G!Examples
<1>5. Listing(x) /\ \A n \in G!Range(x) : n.kind = "example" /\ n.blocks = 0
  <2>1. ss = [m \in 1..Len(gNodes) |-> ss[m]]
    BY <1>2
  <2>2. Listing(x) /\ \A n : n \in G!Range(x) <=> \E m \in 1..Len(gNodes) : n \in G!Range(ss[m])
    BY <1>1, <1>3, <1>4, <2>1, FlattenFacts
  <2> QED  BY <1>3, <2>2
<1>6. PICK es : es = [m \in 1..Len(gNodes) |->
                        [b \in 1..gNodes[m].blocks |->
                           G!Edge(G!Id(G!Example(gNodes[m], b)), G!Id(gNodes[m]),
                                  "exemplifies", "heuristic", gNodes[m].file)]]
  OBVIOUS
<1>7. ASSUME NEW m \in 1..Len(gNodes)
      PROVE  Listing(es[m]) /\ \A e \in G!Range(es[m]) : e.kind = "exemplifies"
  <2>1. es[m] = [b \in 1..gNodes[m].blocks |->
                   G!Edge(G!Id(G!Example(gNodes[m], b)), G!Id(gNodes[m]),
                          "exemplifies", "heuristic", gNodes[m].file)]
    BY <1>6
  <2>2. PICK k, s : k = gNodes[m].blocks /\ k \in Nat /\ s = es[m]
    BY <1>1
  <2>3. \A b \in 1..k : s[b].kind = "exemplifies"
    BY <2>1, <2>2 DEF G!Edge
  <2>4. s = [b \in 1..k |-> s[b]]
    BY <2>1, <2>2
  <2>5. k \in Nat
    BY <2>2
  <2>6. Listing(s) /\ \A n : n \in G!Range(s) <=> \E b \in 1..k : s[b] = n
    BY <2>4, <2>5, MadeFacts
  <2> QED  BY <2>2, <2>3, <2>6
<1>8. PICK y : y = G!FlattenSeq(es) /\ y = G!ExampleEdges
  BY <1>1, <1>6 DEF G!ExampleEdges
<1>9. Listing(y) /\ \A e \in G!Range(y) : e.kind = "exemplifies"
  <2>1. es = [m \in 1..Len(gNodes) |-> es[m]]
    BY <1>6
  <2>2. Listing(y) /\ \A e : e \in G!Range(y) <=> \E m \in 1..Len(gNodes) : e \in G!Range(es[m])
    BY <1>1, <1>7, <1>8, <2>1, FlattenFacts
  <2> QED  BY <1>7, <2>2
<1> QED  BY <1>4, <1>5, <1>8, <1>9 DEF G!NodeKinds, Uses

LEMMA TestEdgesFacts ==
    ASSUME GraphInv
    PROVE  /\ Listing(G!SetToSeq(G!TestEdges))
           /\ \A e \in G!Range(G!SetToSeq(G!TestEdges)) : e.kind \notin Uses
<1>1. IsFiniteSet(G!Range(gNodes))
  BY FiniteFacts DEF GraphInv, GraphTypes
<1>2. PICK tests : tests = {n \in G!Range(gNodes) : n.kind = "test"} /\ IsFiniteSet(tests)
  BY <1>1, FS_Subset
<1>3. IsFiniteSet(tests \X G!Range(gNodes))
  BY <1>1, <1>2, FS_Product
<1>4. PICK pairs : /\ pairs = {p \in tests \X G!Range(gNodes) :
                        /\ p[2] \in G!Pick(G!ByName(Subject[G!Name(p[1])]), p[1].file,
                                          G!Callables \cup G!Types)
                        /\ G!Id(p[2]) # G!Id(p[1])}
                   /\ IsFiniteSet(pairs)
  BY <1>3, FS_Subset
<1>5. PICK f : f = [p \in pairs |-> G!Edge(G!Id(p[1]), G!Id(p[2]), "tests", "heuristic", p[1].file)]
  OBVIOUS
<1>6. PICK made : made = {f[p] : p \in pairs} /\ IsFiniteSet(made)
  <2>1. f = [p \in pairs |-> f[p]]
    BY <1>5
  <2>2. IsFiniteSet(pairs)
    BY <1>4
  <2>3. IsFiniteSet({f[p] : p \in pairs})
    BY <2>1, <2>2, ImageFacts
  <2> QED  BY <2>3
<1>7. G!TestEdges = made
  BY <1>2, <1>4, <1>5, <1>6 DEF G!TestEdges
<1>8. \A e \in made : e.kind = "tests"
  BY <1>5, <1>6 DEF G!Edge
<1> QED  BY <1>6, <1>7, <1>8, SetToSeqFacts DEF Uses

LEMMA GraphAnnotate ==
    ASSUME GraphInv, G!Annotate, UNCHANGED gAnswer
    PROVE  GraphInv'
<1>1. PICK ns, ts, es : ns = G!Examples /\ ts = G!SetToSeq(G!TestEdges) /\ es = G!ExampleEdges
  OBVIOUS
<1>2. /\ gPhase = "resolve" /\ gPhase' = "overlay" /\ UNCHANGED <<gSource, gAt, gRefs, gAnswer>>
      /\ gNodes' = gNodes \o ns /\ gEdges' = (gEdges \o ts) \o es
  BY <1>1 DEF G!Annotate
<1>3. Listing(gNodes) /\ Listing(gEdges)
  BY DEF GraphInv, GraphTypes
<1>4. /\ Listing(ns) /\ \A n \in G!Range(ns) : n.kind \in G!NodeKinds /\ n.blocks \in Nat
      /\ Listing(es) /\ \A e \in G!Range(es) : e.kind \notin Uses
      /\ Listing(ts) /\ \A e \in G!Range(ts) : e.kind \notin Uses
  BY <1>1, ExamplesFacts, TestEdgesFacts
<1>5. Listing(gNodes') /\ G!Range(gNodes') = G!Range(gNodes) \cup G!Range(ns)
  BY <1>2, <1>3, <1>4, JoinFacts
<1>6. PICK a : a = gEdges \o ts
  OBVIOUS
<1>7. Listing(a) /\ G!Range(a) = G!Range(gEdges) \cup G!Range(ts)
  BY <1>3, <1>4, <1>6, JoinFacts
<1>8. Listing(gEdges') /\ G!Range(gEdges') = G!Range(a) \cup G!Range(es)
  BY <1>2, <1>4, <1>6, <1>7, JoinFacts
<1>9. \A i : G!Stored(i) => G!Stored(i)'
  BY <1>5, StoredMoreFacts
<1>10. \A n \in G!Range(gNodes') :
          n \in G!Range(gNodes) \/ (n.kind \in G!NodeKinds /\ n.blocks \in Nat)
  BY <1>4, <1>5
<1>11. \A e \in G!Range(gEdges') : e \in G!Range(gEdges) \/ (e.kind \in Uses => G!Stored(e.source)')
  BY <1>4, <1>7, <1>8
<1> QED  BY <1>2, <1>5, <1>8, <1>9, <1>10, <1>11, GraphGrows DEF GraphInv, GraphTypes

LEMMA EntriesFacts ==
    /\ IsFiniteSet(G!Entries)
    /\ \A e \in G!Entries : /\ e[1] \in {"convention", "capability"}
                            /\ IsFiniteSet(G!Curated[e[1]][e[2]])
<1>1. /\ IsFiniteSet(DOMAIN Scopes) /\ \A x \in DOMAIN Scopes : IsFiniteSet(Scopes[x])
      /\ IsFiniteSet(DOMAIN Provides) /\ \A x \in DOMAIN Provides : IsFiniteSet(Provides[x])
  BY GraphParts DEF G!LinkingAssumption, G!IsFiniteSet, IsFiniteSet
<1>2. /\ DOMAIN G!Curated = {"convention", "capability"}
      /\ G!Curated["convention"] = Scopes /\ G!Curated["capability"] = Provides
  BY DEF G!Curated
<1>3. PICK a, b : /\ a = {"convention"} \X DOMAIN Scopes /\ b = {"capability"} \X DOMAIN Provides
                  /\ IsFiniteSet(a) /\ IsFiniteSet(b)
  <2>1. IsFiniteSet({"convention"}) /\ IsFiniteSet({"capability"})
    BY FS_Singleton
  <2>2. IsFiniteSet({"convention"} \X DOMAIN Scopes)
    BY <1>1, <2>1, FS_Product
  <2>3. IsFiniteSet({"capability"} \X DOMAIN Provides)
    BY <1>1, <2>1, FS_Product
  <2> QED  BY <2>2, <2>3
<1>4. {{k} \X DOMAIN G!Curated[k] : k \in DOMAIN G!Curated} = {a, b}
  BY <1>2, <1>3
<1>5. G!Entries = a \cup b
  BY <1>4 DEF G!Entries
<1>6. IsFiniteSet(a \cup b)
  BY <1>3, FS_Union
<1>7. \A e \in a : e[1] = "convention" /\ e[2] \in DOMAIN Scopes
  BY <1>3
<1>8. \A e \in b : e[1] = "capability" /\ e[2] \in DOMAIN Provides
  BY <1>3
<1> QED  BY <1>1, <1>2, <1>5, <1>6, <1>7, <1>8

\* The names that the entries of the catalogs list.
CuratedNames == UNION {{<<e[1], e[2], q>> : q \in G!Curated[e[1]][e[2]]} : e \in G!Entries}

LEMMA CuratedNamesFinite ==
    /\ IsFiniteSet(CuratedNames)
    /\ \A x \in CuratedNames : x[1] \in {"convention", "capability"}
<1>1. PICK f : f = [e \in G!Entries |-> {<<e[1], e[2], q>> : q \in G!Curated[e[1]][e[2]]}]
  OBVIOUS
<1>2. ASSUME NEW e \in G!Entries
      PROVE  IsFiniteSet(f[e]) /\ \A x \in f[e] : x[1] = e[1]
  <2>1. PICK Q : Q = G!Curated[e[1]][e[2]] /\ IsFiniteSet(Q)
    BY EntriesFacts
  <2>2. PICK g : g = [q \in Q |-> <<e[1], e[2], q>>]
    OBVIOUS
  <2>3. g = [q \in Q |-> g[q]]
    BY <2>2
  <2>4. IsFiniteSet({g[q] : q \in Q})
    BY <2>1, <2>3, ImageFacts
  <2>5. f[e] = {g[q] : q \in Q}
    BY <1>1, <2>1, <2>2
  <2>6. \A x \in f[e] : \E q \in Q : x = <<e[1], e[2], q>>
    BY <2>2, <2>5
  <2> QED  BY <2>4, <2>5, <2>6
<1>3. f = [e \in G!Entries |-> f[e]]
  BY <1>1
<1>4. PICK F : F = {f[e] : e \in G!Entries}
  OBVIOUS
<1>5. IsFiniteSet(F)
  BY <1>3, <1>4, EntriesFacts, ImageFacts
<1>6. \A T \in F : \E e \in G!Entries : T = f[e]
  BY <1>4
<1>7. \A T \in F : IsFiniteSet(T)
  BY <1>2, <1>6
<1>8. IsFiniteSet(UNION F)
  BY <1>5, <1>7, FS_UNION
<1>9. CuratedNames = UNION F
  BY <1>1, <1>4 DEF CuratedNames
<1>10. \A x \in UNION F : \E e \in G!Entries : x \in f[e]
  BY <1>6
<1>11. \A x \in UNION F : x[1] \in {"convention", "capability"}
  BY <1>2, <1>10, EntriesFacts
<1> QED  BY <1>8, <1>9, <1>11

LEMMA GraphApplyOverlay ==
    ASSUME GraphInv, G!ApplyOverlay, UNCHANGED gAnswer
    PROVE  GraphInv'
<1>1. PICK missed : missed = {x \in CuratedNames : G!Named(x[1], x[3]) = <<>>}
  OBVIOUS
<1>2. PICK made, linked :
         /\ made = {G!CatalogNode(e[1], e[2]) : e \in G!Entries}
         /\ linked = {G!Edge(G!Id(G!CatalogNode(x[1], x[2])), G!Id(G!Named(x[1], x[3])[1]),
                             G!Relation[x[1]], "resolved", "") : x \in CuratedNames \ missed}
  OBVIOUS
<1>3. /\ gPhase = "overlay" /\ gPhase' = "merge" /\ UNCHANGED <<gSource, gAt, gRefs, gAnswer>>
      /\ gNodes' = gNodes \o G!SetToSeq(made) /\ gEdges' = gEdges \o G!SetToSeq(linked)
  BY <1>1, <1>2 DEF G!ApplyOverlay, CuratedNames
<1>4. IsFiniteSet(made) /\ \A n \in made : n.kind \in G!NodeKinds /\ n.blocks \in Nat
  <2>1. PICK f : f = [e \in G!Entries |-> G!CatalogNode(e[1], e[2])]
    OBVIOUS
  <2>2. f = [e \in G!Entries |-> f[e]]
    BY <2>1
  <2>3. IsFiniteSet({f[e] : e \in G!Entries})
    BY <2>2, EntriesFacts, ImageFacts
  <2>4. made = {f[e] : e \in G!Entries}
    BY <1>2, <2>1
  <2>5. \A e \in G!Entries : f[e].kind = e[1] /\ f[e].blocks = 0
    BY <2>1 DEF G!CatalogNode
  <2>6. \A e \in G!Entries : f[e].kind \in G!NodeKinds /\ f[e].blocks \in Nat
    BY <2>5, EntriesFacts DEF G!NodeKinds
  <2> QED  BY <2>3, <2>4, <2>6
<1>5. IsFiniteSet(linked) /\ \A e \in linked : e.kind \notin Uses
  <2>1. PICK f : f = [x \in CuratedNames \ missed |->
                        G!Edge(G!Id(G!CatalogNode(x[1], x[2])), G!Id(G!Named(x[1], x[3])[1]),
                               G!Relation[x[1]], "resolved", "")]
    OBVIOUS
  <2>2. f = [x \in CuratedNames \ missed |-> f[x]]
    BY <2>1
  <2>3. IsFiniteSet(CuratedNames \ missed)
    BY CuratedNamesFinite, FS_Subset
  <2>4. IsFiniteSet({f[x] : x \in CuratedNames \ missed})
    BY <2>2, <2>3, ImageFacts
  <2>5. linked = {f[x] : x \in CuratedNames \ missed}
    BY <1>2, <2>1
  <2>6. \A x \in CuratedNames \ missed : f[x].kind = G!Relation[x[1]]
    BY <2>1 DEF G!Edge
  <2>7. \A x \in CuratedNames \ missed : f[x].kind \notin Uses
    BY <2>6, CuratedNamesFinite DEF G!Relation, Uses
  <2> QED  BY <2>4, <2>5, <2>7
<1>6. PICK ns : ns = G!SetToSeq(made) /\ Listing(ns) /\ G!Range(ns) = made
  BY <1>4, SetToSeqFacts
<1>7. PICK es : es = G!SetToSeq(linked) /\ Listing(es) /\ G!Range(es) = linked
  BY <1>5, SetToSeqFacts
<1>8. Listing(gNodes) /\ Listing(gEdges)
  BY DEF GraphInv, GraphTypes
<1>9. Listing(gNodes') /\ G!Range(gNodes') = G!Range(gNodes) \cup made
  BY <1>3, <1>6, <1>8, JoinFacts
<1>10. Listing(gEdges') /\ G!Range(gEdges') = G!Range(gEdges) \cup linked
  BY <1>3, <1>7, <1>8, JoinFacts
<1>11. \A i : G!Stored(i) => G!Stored(i)'
  BY <1>9, StoredMoreFacts
<1> QED  BY <1>3, <1>4, <1>5, <1>9, <1>10, <1>11, GraphGrows DEF GraphInv, GraphTypes

\* A merge keeps a node of each id.
LEMMA GraphMerge ==
    ASSUME GraphInv, G!Merge, UNCHANGED gAnswer
    PROVE  GraphInv'
<1>1. /\ DOMAIN gNodes = 1..Len(gNodes) /\ Len(gNodes) \in Nat
      /\ \A n : n \in G!Range(gNodes) <=> \E m \in 1..Len(gNodes) : gNodes[m] = n
  BY FiniteFacts DEF GraphInv, GraphTypes
<1>2. PICK ks : ks = [k \in 1..Len(gNodes) |-> k]
  OBVIOUS
<1>3. ks = [k \in 1..Len(gNodes) |-> ks[k]]
  BY <1>2
<1>4. Listing(ks) /\ \A k : k \in G!Range(ks) <=> k \in 1..Len(gNodes)
  <2>1. Listing(ks) /\ \A k : k \in G!Range(ks) <=> \E j \in 1..Len(gNodes) : ks[j] = k
    BY <1>1, <1>3, MadeFacts
  <2> QED  BY <1>2, <2>1
<1>5. PICK kept : kept = G!Those(ks, {k \in 1..Len(gNodes) : G!LastOf(k)})
  OBVIOUS
<1>6. Listing(kept) /\ \A k : k \in G!Range(kept) <=> k \in 1..Len(gNodes) /\ G!LastOf(k)
  BY <1>4, <1>5, ThoseFacts
<1>7. /\ DOMAIN kept = 1..Len(kept) /\ Len(kept) \in Nat
      /\ \A k : k \in G!Range(kept) <=> \E j \in 1..Len(kept) : kept[j] = k
  BY <1>6, FiniteFacts
<1>8. gNodes' = [j \in 1..Len(kept) |-> gNodes[kept[j]]]
  BY <1>1, <1>2, <1>5, <1>7 DEF G!Merge
<1>9. PICK ns : ns = gNodes'
  OBVIOUS
<1>10. ns = [j \in 1..Len(kept) |-> ns[j]]
  BY <1>8, <1>9
<1>11. Listing(ns) /\ \A n : n \in G!Range(ns) <=> \E j \in 1..Len(kept) : ns[j] = n
  BY <1>7, <1>10, MadeFacts
<1>12. \A n : n \in G!Range(ns) <=> \E k \in 1..Len(gNodes) : G!LastOf(k) /\ gNodes[k] = n
  BY <1>6, <1>7, <1>8, <1>9, <1>11
<1>13. ASSUME NEW i, G!Stored(i) PROVE \E n \in G!Range(ns) : G!Id(n) = i
  <2>1. PICK m \in 1..Len(gNodes) : G!Id(gNodes[m]) = i
    BY <1>1, <1>13 DEF G!Stored
  <2>2. PICK T : T = {d \in Nat : d < Len(gNodes) /\ G!Id(gNodes[Len(gNodes) - d]) = i}
    OBVIOUS
  <2>3. Len(gNodes) - m \in T
    BY <1>1, <2>1, <2>2
  <2>4. PICK d \in T : \A e \in T : d <= e
    BY <2>2, <2>3, LeastOf
  <2>5. PICK k : k = Len(gNodes) - d
    OBVIOUS
  <2>6. k \in 1..Len(gNodes) /\ G!Id(gNodes[k]) = i
    BY <1>1, <2>2, <2>4, <2>5
  <2>7. ASSUME NEW l \in 1..Len(gNodes), G!Id(gNodes[l]) = i PROVE l <= k
    <3>1. Len(gNodes) - l \in T
      BY <1>1, <2>2, <2>7
    <3> QED  BY <1>1, <2>2, <2>4, <2>5, <3>1
  <2>8. G!LastOf(k)
    BY <1>1, <2>6, <2>7 DEF G!LastOf
  <2> QED  BY <1>12, <2>6, <2>8
<1>14. \A i : G!Stored(i) => G!Stored(i)'
  <2>1. \A i : G!Stored(i)' <=> \E n \in G!Range(gNodes') : G!Id(n) = i
    BY DEF G!Stored, G!Range, G!Id
  <2> QED  BY <1>9, <1>13, <2>1
<1>15. Listing(gNodes') /\ \A n \in G!Range(gNodes') : n \in G!Range(gNodes)
  BY <1>1, <1>9, <1>11, <1>12
<1>16. /\ gPhase = "merge" /\ gPhase' = "stored"
       /\ UNCHANGED <<gSource, gAt, gRefs, gEdges, gAnswer>>
  BY DEF G!Merge
<1> QED  BY <1>14, <1>15, <1>16, GraphGrows DEF GraphInv, GraphTypes

\* A question changes nothing but the answer.
LEMMA GraphSame ==
    ASSUME GraphInv, UNCHANGED G!vars
    PROVE  (GraphTypes /\ UsersKnown)'
<1>1. UNCHANGED <<gPhase, gSource, gAt, gNodes, gRefs, gEdges>>
  BY DEF G!vars
<1>2. GraphTypes'
  BY <1>1 DEF GraphInv, GraphTypes, Listing, G!Range, G!NodeKinds, G!Callables, G!Types, G!Modules
<1>3. \A i : G!Stored(i) => G!Stored(i)'
  BY <1>1, StoredMoreFacts
<1>4. \A x : /\ x \in G!Range(gRefs)' <=> x \in G!Range(gRefs)
             /\ x \in G!Range(gEdges)' <=> x \in G!Range(gEdges)
  BY <1>1 DEF G!Range
<1>5. UsersKnown'
  BY <1>3, <1>4 DEF GraphInv, UsersKnown
<1> QED  BY <1>2, <1>5

\* Each step builds the graph or asks something of it.
GraphMoves ==
    \/ G!Build /\ UNCHANGED gAnswer
    \/ UNCHANGED G!vars /\ UNCHANGED gAnswer
    \/ /\ UNCHANGED G!vars /\ gPhase = "stored"
       /\ \/ \E limit \in Limits : G!Search(limit)
          \/ \E q : \E depth \in Depths, limit \in Limits : G!AskImpact(q, depth, limit)
          \/ gAnswer'.op \notin {"search", "impact"}

LEMMA GraphSteps ==
    ASSUME [G!NextQueries]_(G!queryVars)
    PROVE  GraphMoves
<1>1. CASE G!BuildStep
  BY <1>1 DEF G!BuildStep, GraphMoves
<1>2. CASE UNCHANGED G!queryVars
  BY <1>2 DEF G!queryVars, GraphMoves
<1>3. ASSUME NEW limit \in Limits, G!Search(limit) PROVE GraphMoves
  <2>1. UNCHANGED G!vars /\ gPhase = "stored"
    BY <1>3 DEF G!Search, G!Ready
  <2> QED  BY <1>3, <2>1 DEF GraphMoves
<1>4. ASSUME NEW limit \in Limits, NEW q, NEW depth \in Depths, G!AskImpact(q, depth, limit)
      PROVE  GraphMoves
  <2>1. UNCHANGED G!vars /\ gPhase = "stored"
    BY <1>4 DEF G!AskImpact, G!Ready
  <2> QED  BY <1>4, <2>1 DEF GraphMoves
<1>5. ASSUME NEW limit \in Limits, NEW q, NEW kinds, G!Incoming(q, kinds, limit)
      PROVE  GraphMoves
  BY <1>5 DEF G!Incoming, G!Ready, GraphMoves
<1>6. ASSUME NEW limit \in Limits, NEW q, NEW kind, G!Outgoing(q, kind, limit)
      PROVE  GraphMoves
  BY <1>6 DEF G!Outgoing, G!Ready, GraphMoves
<1>7. ASSUME NEW limit \in Limits, NEW q, G!Conventions(q, limit)
      PROVE  GraphMoves
  BY <1>7 DEF G!Conventions, G!Ready, GraphMoves
<1>8. CASE \E limit \in Limits :
             \/ G!Search(limit)
             \/ \E q \in {n.qual : n \in G!Range(gNodes)} :
                   \/ \E kinds : G!Incoming(q, kinds, limit)
                   \/ \E kind : G!Outgoing(q, kind, limit)
                   \/ G!Conventions(q, limit)
                   \/ \E depth \in Depths : G!AskImpact(q, depth, limit)
  BY <1>3, <1>4, <1>5, <1>6, <1>7, <1>8
<1> QED  BY <1>1, <1>2, <1>8 DEF G!NextQueries

LEMMA GraphStep == GraphInv /\ [G!NextQueries]_(G!queryVars) => GraphInv'
<1> SUFFICES ASSUME GraphInv, [G!NextQueries]_(G!queryVars) PROVE GraphInv'
  OBVIOUS
<1>1. CASE G!Build /\ UNCHANGED gAnswer
  BY <1>1, GraphAnalyze, GraphSkips, GraphResolveRef, GraphAnnotate, GraphApplyOverlay, GraphMerge
     DEF G!Build
<1>2. CASE UNCHANGED G!vars /\ UNCHANGED gAnswer
  <2>1. AskedLast'
    BY <1>2 DEF GraphInv, AskedLast, G!vars, G!NoAnswer
  <2> QED  BY <1>2, <2>1, GraphSame DEF GraphInv
<1>3. CASE UNCHANGED G!vars /\ gPhase = "stored"
  <2>1. AskedLast'
    BY <1>3 DEF AskedLast, G!vars
  <2> QED  BY <1>3, <2>1, GraphSame DEF GraphInv
<1> QED  BY <1>1, <1>2, <1>3, GraphSteps DEF GraphMoves

------------------------------------------------------------------------------
(* What a search answers *)

LEMMA FirstOfFacts ==
    ASSUME NEW A, NEW s \in Seq(A), NEW n \in Nat
    PROVE  /\ G!FirstOf(s, n) \in Seq(A)
           /\ Len(G!FirstOf(s, n)) = (IF n <= Len(s) THEN n ELSE Len(s))
           /\ \A k \in 1..Len(G!FirstOf(s, n)) : G!FirstOf(s, n)[k] = s[k]
           /\ G!IsInjective(s) => G!IsInjective(G!FirstOf(s, n))
<1>1. PICK l \in Nat : l = Len(s) /\ DOMAIN s = 1..l /\ \A i \in 1..l : s[i] \in A
  <2>1. Len(s) \in Nat /\ DOMAIN s = 1..Len(s) /\ \A i \in 1..Len(s) : s[i] \in A
    BY LenProperties, ElementOfSeq
  <2> QED  BY <2>1
<1>2. PICK m \in Nat : m = (IF n <= l THEN n ELSE l) /\ m <= l
  OBVIOUS
<1>3. \A k \in 1..m : k \in 1..l /\ s[k] \in A
  BY <1>1, <1>2
<1>4. PICK t : t = G!FirstOf(s, n) /\ t = SubSeq(s, 1, m)
  BY <1>1, <1>2 DEF G!FirstOf
<1>5. /\ t \in Seq(A) /\ Len(t) = (IF 1 <= m THEN m - 1 + 1 ELSE 0)
      /\ \A k \in 1..(m - 1 + 1) : t[k] = s[1 + k - 1]
  <2>1. 1 \in Int /\ m \in Int
    OBVIOUS
  <2> QED  BY <1>3, <1>4, <2>1, SubSeqProperties
<1>6. Len(t) = m /\ \A k \in 1..m : t[k] = s[k]
  <2>1. m - 1 + 1 = m /\ \A k \in 1..m : 1 + k - 1 = k
    OBVIOUS
  <2> QED  BY <1>5, <2>1
<1>7. DOMAIN t = 1..m
  BY <1>5, <1>6, LenProperties
<1>8. ASSUME G!IsInjective(s), NEW a \in 1..m, NEW b \in 1..m, t[a] = t[b]
      PROVE  a = b
  <2>1. t[a] = s[a] /\ t[b] = s[b] /\ a \in DOMAIN s /\ b \in DOMAIN s
    BY <1>1, <1>3, <1>6
  <2> QED  BY <1>8, <2>1 DEF G!IsInjective
<1>9. G!IsInjective(s) => G!IsInjective(t)
  BY <1>7, <1>8 DEF G!IsInjective
<1> QED  BY <1>1, <1>2, <1>4, <1>5, <1>6, <1>9

\* The part of a later match is no larger.
LEMMA FractionFacts ==
    ASSUME NEW w \in Nat, NEW j \in Nat \ {0}, NEW k \in Nat \ {0}, j <= k
    PROVE  w \div j \in Nat /\ w \div k \in Nat /\ w \div j >= w \div k
<1>1. PICK p \in Nat, q \in Nat : p = w \div j /\ q = w \div k
  OBVIOUS
<1>2. j * p <= w /\ w < j * (p + 1) /\ k * q <= w
  BY <1>1
<1>3. ASSUME p < q PROVE FALSE
  <2>1. j * (p + 1) <= j * q
    BY <1>3
  <2>2. j * q <= k * q
    OBVIOUS
  <2>3. j * (p + 1) \in Int /\ j * q \in Int /\ k * q \in Int
    OBVIOUS
  <2> QED  BY <1>2, <2>1, <2>2, <2>3
<1> QED  BY <1>1, <1>3

\* A weight for every number of callers: the code's is a logarithm of it
\* (ranking.py:92).
CallersWeighed == DOMAIN WCallers = Nat

LEMMA CountsFacts ==
    ASSUME GraphInv, NEW i, NEW kind, NEW provs
    PROVE  G!CountTo(i, kind, provs) \in Nat
<1>1. PICK X : X = {k \in DOMAIN gEdges : /\ gEdges[k].target = i
                                          /\ gEdges[k].kind = kind /\ gEdges[k].prov \in provs}
  OBVIOUS
<1>2. IsFiniteSet(DOMAIN gEdges)
  BY FiniteFacts DEF GraphInv, GraphTypes
<1>3. IsFiniteSet(X)
  BY <1>1, <1>2, FS_Subset
<1>4. G!CountTo(i, kind, provs) = Cardinality(X)
  BY <1>1, CardinalityIs DEF G!CountTo
<1> QED  BY <1>3, <1>4, FS_CardinalityType

\* Of the score of a match, all but the match: what the graph knows.
Merit(i) ==
    KindPrior[G!NodeAt(i).kind] + G!When(G!Asset(i), WExported) + WCallers[G!Callers(i)]
    + G!When(G!Covered(i, "exemplifies"), WCovered) + G!When(G!Covered(i, "tests"), WCovered)

LEMMA MeritsFacts ==
    ASSUME GraphInv, CallersWeighed, NEW i, G!Stored(i)
    PROVE  /\ KindPrior[G!NodeAt(i).kind] \in Nat /\ G!When(G!Asset(i), WExported) \in Nat
           /\ WCallers[G!Callers(i)] \in Nat
           /\ G!When(G!Covered(i, "exemplifies"), WCovered) \in Nat
           /\ G!When(G!Covered(i, "tests"), WCovered) \in Nat
<1>1. KindPrior[G!NodeAt(i).kind] \in Nat
  <2>1. G!NodeAt(i) \in G!Range(gNodes)
    BY DEF G!Stored, G!NodeAt
  <2> QED  BY <2>1, GraphParts DEF GraphInv, GraphTypes, G!QueriesAssumption
<1>2. G!Callers(i) \in Nat
  BY CountsFacts DEF G!Callers
<1>3. WCallers[G!Callers(i)] \in Nat
  BY <1>2, GraphParts DEF G!QueriesAssumption, CallersWeighed
<1>4. WExported \in Nat /\ WCovered \in Nat
  BY GraphParts DEF G!QueriesAssumption
<1> QED  BY <1>1, <1>3, <1>4 DEF G!When

LEMMA MeritFacts ==
    ASSUME GraphInv, CallersWeighed, NEW i, G!Stored(i), NEW j, G!Stored(j)
    PROVE  /\ Merit(i) \in Nat /\ Merit(j) \in Nat
           /\ G!Dominates(i, j) => Merit(i) >= Merit(j)
<1>1. KindPrior[G!NodeAt(i).kind] \in Nat /\ KindPrior[G!NodeAt(j).kind] \in Nat
  BY MeritsFacts
<1>2. G!Callers(i) \in Nat /\ G!Callers(j) \in Nat
  BY CountsFacts DEF G!Callers
<1>3. /\ WCallers[G!Callers(i)] \in Nat /\ WCallers[G!Callers(j)] \in Nat
      /\ G!Callers(i) >= G!Callers(j) => WCallers[G!Callers(i)] >= WCallers[G!Callers(j)]
  BY <1>2, GraphParts DEF G!QueriesAssumption, CallersWeighed
<1>4. WExported \in Nat /\ WCovered \in Nat
  BY GraphParts DEF G!QueriesAssumption
<1>5. PICK a, b : /\ a = G!When(G!Asset(i), WExported) /\ b = G!When(G!Asset(j), WExported)
                  /\ a \in Nat /\ b \in Nat /\ ((G!Asset(j) => G!Asset(i)) => a >= b)
  BY <1>4 DEF G!When
<1>6. PICK c, d : /\ c = G!When(G!Covered(i, "exemplifies"), WCovered)
                  /\ d = G!When(G!Covered(j, "exemplifies"), WCovered)
                  /\ c \in Nat /\ d \in Nat
                  /\ (G!Covered(j, "exemplifies") => G!Covered(i, "exemplifies")) => c >= d
  BY <1>4 DEF G!When
<1>7. PICK e, f : /\ e = G!When(G!Covered(i, "tests"), WCovered)
                  /\ f = G!When(G!Covered(j, "tests"), WCovered)
                  /\ e \in Nat /\ f \in Nat
                  /\ (G!Covered(j, "tests") => G!Covered(i, "tests")) => e >= f
  BY <1>4 DEF G!When
<1>8. PICK p, q : /\ p = KindPrior[G!NodeAt(i).kind] /\ q = KindPrior[G!NodeAt(j).kind]
                  /\ p \in Nat /\ q \in Nat
  BY <1>1
<1>9. PICK m, n : /\ m = WCallers[G!Callers(i)] /\ n = WCallers[G!Callers(j)]
                  /\ m \in Nat /\ n \in Nat
  BY <1>3
<1>10. Merit(i) = p + a + m + c + e /\ Merit(j) = q + b + n + d + f
  BY <1>5, <1>6, <1>7, <1>8, <1>9 DEF Merit
<1>11. ASSUME G!Dominates(i, j) PROVE p >= q /\ a >= b /\ m >= n /\ c >= d /\ e >= f
  BY <1>3, <1>5, <1>6, <1>7, <1>8, <1>9, <1>11 DEF G!Dominates, G!Callers
<1>12. p + a + m + c + e \in Nat /\ q + b + n + d + f \in Nat
  BY <1>5, <1>6, <1>7, <1>8, <1>9
<1>13. ASSUME p >= q, a >= b, m >= n, c >= d, e >= f
       PROVE  p + a + m + c + e >= q + b + n + d + f
  BY <1>5, <1>6, <1>7, <1>8, <1>9, <1>13
<1> QED  BY <1>10, <1>11, <1>12, <1>13

LEMMA BetterFirst ==
    ASSUME GraphInv, CallersWeighed, NEW s, NEW j \in Nat \ {0}, NEW k \in Nat \ {0}, j < k,
           G!Stored(s[j]), G!Stored(s[k]), G!Dominates(s[j], s[k])
    PROVE  G!Better(s, j, k)
<1>1. PICK a, b : a = s[j] /\ b = s[k]
  OBVIOUS
<1>2. Merit(a) \in Nat /\ Merit(b) \in Nat /\ Merit(a) >= Merit(b)
  BY <1>1, MeritFacts
<1>3. WLexical \in Nat
  BY GraphParts DEF G!QueriesAssumption
<1>4. PICK p, q : p = WLexical \div j /\ q = WLexical \div k /\ p \in Nat /\ q \in Nat /\ p >= q
  <2>1. j <= k
    OBVIOUS
  <2>2. WLexical \div j \in Nat /\ WLexical \div k \in Nat /\ WLexical \div j >= WLexical \div k
    BY <1>3, <2>1, FractionFacts
  <2> QED  BY <2>2
<1>5. /\ G!Score(s, j) = p + KindPrior[G!NodeAt(a).kind] + G!When(G!Asset(a), WExported)
             + WCallers[G!Callers(a)] + G!When(G!Covered(a, "exemplifies"), WCovered)
             + G!When(G!Covered(a, "tests"), WCovered)
      /\ G!Score(s, k) = q + KindPrior[G!NodeAt(b).kind] + G!When(G!Asset(b), WExported)
             + WCallers[G!Callers(b)] + G!When(G!Covered(b, "exemplifies"), WCovered)
             + G!When(G!Covered(b, "tests"), WCovered)
  BY <1>1, <1>4 DEF G!Score
<1>6. ASSUME NEW i, G!Stored(i), NEW r \in Nat
      PROVE  r + KindPrior[G!NodeAt(i).kind] + G!When(G!Asset(i), WExported)
             + WCallers[G!Callers(i)] + G!When(G!Covered(i, "exemplifies"), WCovered)
             + G!When(G!Covered(i, "tests"), WCovered) = r + Merit(i)
  <2>1. /\ KindPrior[G!NodeAt(i).kind] \in Nat /\ G!When(G!Asset(i), WExported) \in Nat
        /\ WCallers[G!Callers(i)] \in Nat
        /\ G!When(G!Covered(i, "exemplifies"), WCovered) \in Nat
        /\ G!When(G!Covered(i, "tests"), WCovered) \in Nat
    BY <1>6, MeritsFacts
  <2> QED  BY <2>1 DEF Merit
<1>7. G!Score(s, j) = p + Merit(a) /\ G!Score(s, k) = q + Merit(b)
  BY <1>1, <1>4, <1>5, <1>6
<1> QED  BY <1>2, <1>4, <1>7 DEF G!Better

\* What RankEarned says of one search.
Earned(asked, got) ==
    \A j, k \in DOMAIN asked :
        j < k /\ G!Dominates(asked[j], asked[k]) /\ asked[k] \in G!Range(got) =>
            \E m, n \in DOMAIN got : m < n /\ got[m] = asked[j] /\ got[n] = asked[k]

LEMMA SearchEarns ==
    ASSUME GraphInv, CallersWeighed, NEW there, Listing(there), G!IsInjective(there),
           \A i \in G!Range(there) : G!Stored(i),
           NEW ranked \in G!Ranked(there), NEW limit \in Nat
    PROVE  Earned(there, G!FirstOf(ranked, limit))
<1>1. /\ DOMAIN there = 1..Len(there) /\ Len(there) \in Nat
      /\ \A i \in 1..Len(there) : there[i] \in G!Range(there)
  BY FiniteFacts
<1>2. PICK N \in Nat : N = Len(there)
  BY <1>1
<1>3. PICK o \in G!SetToSeqs(1..N) :
         /\ ranked = [n \in DOMAIN o |-> there[o[n]]]
         /\ \A m, n \in DOMAIN o : m < n => ~G!Better(there, o[n], o[m])
  BY <1>1, <1>2 DEF G!Ranked
<1>4. IsFiniteSet(1..N) /\ Cardinality(1..N) = N /\ G!Cardinality(1..N) = N
  BY FS_Interval, CardinalityIs
<1>5. o \in [1..N -> 1..N] /\ \A m, n \in 1..N : m # n => o[m] # o[n]
  BY <1>4 DEF G!SetToSeqs
<1>6. \A j \in 1..N : \E m \in 1..N : o[m] = j
  <2>1. o \in Injection(1..N, 1..N)
    BY <1>5 DEF Injection, IsInjective
  <2>2. o \in Surjection(1..N, 1..N)
    BY <1>4, <2>1, FS_Injection
  <2> QED  BY <2>2 DEF Surjection
<1>7. ranked = [n \in 1..N |-> there[o[n]]]
  BY <1>3, <1>5
<1>8. ranked = [n \in 1..N |-> ranked[n]]
  BY <1>7
<1>9. Listing(ranked) /\ Len(ranked) = N
  BY <1>8, MadeFacts
<1>10. PICK A, got : /\ A = G!Range(ranked) /\ ranked \in Seq(A)
                     /\ got = G!FirstOf(ranked, limit)
  BY <1>9 DEF Listing
<1>11. /\ got \in Seq(A) /\ Len(got) \in Nat /\ Len(got) <= N
       /\ \A n \in 1..Len(got) : got[n] = ranked[n]
  BY <1>9, <1>10, FirstOfFacts
<1>12. /\ DOMAIN got = 1..Len(got)
       /\ \A x : x \in G!Range(got) <=> \E n \in 1..Len(got) : got[n] = x
  BY <1>11, ListingFacts
<1>13. ASSUME NEW j \in 1..N, NEW k \in 1..N, j < k, G!Dominates(there[j], there[k]),
              there[k] \in G!Range(got)
       PROVE  \E m, n \in 1..Len(got) : m < n /\ got[m] = there[j] /\ got[n] = there[k]
  <2>1. PICK n \in 1..Len(got) : got[n] = there[k]
    BY <1>12, <1>13
  <2>2. n \in 1..N
    BY <1>11
  <2>3. o[n] \in 1..N /\ there[o[n]] = there[k]
    BY <1>5, <1>7, <1>11, <2>1, <2>2
  <2>4. o[n] = k
    BY <1>1, <1>2, <2>3 DEF G!IsInjective
  <2>5. PICK m \in 1..N : o[m] = j
    BY <1>6
  <2>6. G!Better(there, j, k)
    BY <1>1, <1>2, <1>13, BetterFirst
  <2>7. ~(n < m)
    BY <1>3, <1>5, <2>2, <2>4, <2>5, <2>6
  <2>8. m # n
    BY <1>13, <2>4, <2>5
  <2>9. m < n /\ m \in 1..Len(got)
    BY <1>11, <2>2, <2>7, <2>8
  <2>10. got[m] = there[j]
    BY <1>7, <1>11, <2>5, <2>9
  <2> QED  BY <2>1, <2>9, <2>10
<1> QED  BY <1>1, <1>2, <1>10, <1>12, <1>13 DEF Earned

LEMMA EarnedSame ==
    ASSUME UNCHANGED <<gNodes, gEdges>>
    PROVE  \A a, g : Earned(a, g)' <=> Earned(a, g)
BY DEF Earned, G!Dominates, G!CountTo, G!Covered, G!Asset, G!NodeAt, G!Range, G!Id

LEMMA GraphSearch ==
    ASSUME GraphInv, CallersWeighed, NEW limit \in Limits, G!Search(limit)
    PROVE  Earned(gAnswer'.asked, gAnswer'.got)
<1>1. PICK s \in Lexical : \E ranked \in G!Ranked(G!FirstOf(G!There(s), limit * Pool)) :
          gAnswer' = [op |-> "search", asked |-> G!FirstOf(G!There(s), limit * Pool),
                      limit |-> limit, got |-> G!FirstOf(ranked, limit)]
  BY DEF G!Search
<1>2. PICK there : there = G!FirstOf(G!There(s), limit * Pool)
  OBVIOUS
<1>3. PICK ranked \in G!Ranked(there) :
          gAnswer'.asked = there /\ gAnswer'.got = G!FirstOf(ranked, limit)
  BY <1>1, <1>2
<1>4. limit \in Nat /\ Pool \in Nat /\ Listing(s) /\ G!IsInjective(s)
  BY GraphParts DEF G!QueriesAssumption, Listing
<1>5. PICK n : n = limit * Pool /\ n \in Nat
  BY <1>4
<1>6. PICK t : t = G!There(s)
  OBVIOUS
<1>7. /\ Listing(t) /\ G!IsInjective(t)
      /\ G!Range(t) = G!Range(s) \cap {i \in G!Range(s) : G!Stored(i)}
  BY <1>4, <1>6, ThoseFacts DEF G!There
<1>8. PICK A : A = G!Range(t) /\ t \in Seq(A) /\ \A i \in A : G!Stored(i)
  BY <1>7 DEF Listing
<1>9. there \in Seq(A) /\ G!IsInjective(there)
  BY <1>2, <1>5, <1>6, <1>7, <1>8, FirstOfFacts
<1>10. Listing(there) /\ G!Range(there) \subseteq A
  BY <1>9, ListingFacts
<1> QED  BY <1>3, <1>4, <1>8, <1>9, <1>10, SearchEarns

LEMMA RankStep ==
    ASSUME CallersWeighed, GraphInv, G!RankEarned, [G!NextQueries]_(G!queryVars)
    PROVE  G!RankEarned'
<1>1. G!RankEarned <=> (gAnswer.op = "search" => Earned(gAnswer.asked, gAnswer.got))
  BY DEF G!RankEarned, Earned
<1>2. G!RankEarned' <=> (gAnswer'.op = "search" => Earned(gAnswer.asked, gAnswer.got)')
  BY DEF G!RankEarned, Earned
<1>3. CASE G!Build /\ UNCHANGED gAnswer
  <2>1. gPhase # "stored"
    BY <1>3, Zenon DEF G!Build, G!Analyze, G!AnalyzeFails, G!Extracted, G!ResolveRef,
                       G!Annotate, G!ApplyOverlay, G!OverlayFails, G!Merge
  <2>2. gAnswer'.op = "none"
    <3>1. gAnswer = G!NoAnswer
      BY <2>1 DEF GraphInv, AskedLast
    <3> QED  BY <1>3, <3>1 DEF G!NoAnswer
  <2> QED  BY <1>2, <2>2
<1>4. CASE UNCHANGED G!vars /\ UNCHANGED gAnswer
  <2>1. PICK a, g : a = gAnswer.asked /\ g = gAnswer.got
    OBVIOUS
  <2>2. Earned(a, g)' <=> Earned(a, g)
    BY <1>4, EarnedSame DEF G!vars
  <2>3. Earned(gAnswer.asked, gAnswer.got)' <=> Earned(a, g)'
    BY <1>4, <2>1 DEF Earned
  <2> QED  BY <1>1, <1>2, <1>4, <2>1, <2>2, <2>3
<1>5. CASE UNCHANGED G!vars /\ gAnswer'.op # "search"
  BY <1>2, <1>5
<1>6. ASSUME NEW limit \in Limits, G!Search(limit), UNCHANGED G!vars PROVE G!RankEarned'
  <2>1. PICK a, g : a = gAnswer'.asked /\ g = gAnswer'.got
    OBVIOUS
  <2>2. Earned(a, g)
    BY <1>6, <2>1, GraphSearch
  <2>3. Earned(a, g)' <=> Earned(a, g)
    BY <1>6, EarnedSame DEF G!vars
  <2>4. Earned(gAnswer.asked, gAnswer.got)' <=> Earned(a, g)'
    BY <2>1 DEF Earned
  <2> QED  BY <1>2, <2>2, <2>3, <2>4
<1>7. ASSUME NEW q, NEW depth, NEW limit, G!AskImpact(q, depth, limit)
      PROVE  gAnswer'.op # "search"
  BY <1>7 DEF G!AskImpact
<1> QED  BY <1>3, <1>4, <1>5, <1>6, <1>7, GraphSteps DEF GraphMoves

LEMMA GraphInvAlways == PartsSpec => [](part = "graph" => GraphInv)
<1>1. PartsInit => (part = "graph" => GraphInv)
  BY GraphPart, GraphInit
<1>2. (part = "graph" => GraphInv) /\ [PartsNext]_partsVars => (part = "graph" => GraphInv)'
  <2>1. CASE part = "graph"
    BY <2>1, GraphPart, GraphStep
  <2>2. CASE part # "graph"
    BY <2>2, OtherPart
  <2> QED  BY <2>1, <2>2
<1> QED  BY <1>1, <1>2, PTL DEF PartsSpec

\* A re-ranked search never puts a match before a better one that is behind it
\* in nothing the graph is sure of, whatever the weights, where the callers'
\* weight grows with their number (query.py:77, ranking.py:12).
THEOREM RankEarnedAlways ==
    ASSUME CallersWeighed
    PROVE  PartsSpec => []RankEarned
<1>1. PartsInit => RankEarned
  BY GraphPart DEF RankEarned, G!RankEarned, G!InitQueries, G!NoAnswer
<1>2. /\ part = "graph" => GraphInv
      /\ RankEarned /\ [PartsNext]_partsVars
      => RankEarned'
  <2> SUFFICES ASSUME part = "graph" => GraphInv, RankEarned, [PartsNext]_partsVars
               PROVE  RankEarned'
    OBVIOUS
  <2>1. CASE part = "graph"
    BY <2>1, GraphPart, RankStep DEF RankEarned
  <2>2. CASE part # "graph"
    BY <2>2, OtherPart DEF RankEarned
  <2> QED  BY <2>1, <2>2
<1> QED  BY <1>1, <1>2, GraphInvAlways, PTL DEF PartsSpec

------------------------------------------------------------------------------
(* What impact answers *)

\* A sequence that is built one element after the other.
LEMMA CopiedFacts ==
    ASSUME NEW A, NEW s \in Seq(A), NEW f, f[0] = <<>>,
           \A n \in 1..Len(s) :
               (\A x \in G!Range(f[n - 1]) : \E i \in 1..(n - 1) : x = s[i])
                   => f[n] = Append(f[n - 1], s[n])
    PROVE  f[Len(s)] = s
<1>1. Len(s) \in Nat /\ DOMAIN s = 1..Len(s) /\ \A i \in 1..Len(s) : s[i] \in A
  BY LenProperties, ElementOfSeq
<1> DEFINE Good(n) ==
      f[n] \in Seq(A) /\ Len(f[n]) = n /\ \A i \in 1..n : f[n][i] = s[i]
<1>2. PICK T : T = {n \in Nat : n <= Len(s) => Good(n)}
  OBVIOUS
<1>3. 0 \in T
  <2>1. <<>> \in Seq(A) /\ Len(<<>>) = 0 /\ 1..0 = {}
    OBVIOUS
  <2>2. Good(0)
    BY <2>1
  <2> HIDE DEF Good
  <2> QED  BY <1>2, <2>2
<1>4. ASSUME NEW n \in T PROVE n + 1 \in T
  <2> SUFFICES ASSUME n + 1 <= Len(s) PROVE Good(n + 1)
    BY <1>2, <1>4
  <2>1. n \in Nat /\ n + 1 \in 1..Len(s) /\ (n + 1) - 1 = n /\ Good(n)
    BY <1>1, <1>2
  <2>2. PICK t, e : t = f[n] /\ e = s[n + 1] /\ t \in Seq(A) /\ e \in A
    BY <1>1, <2>1
  <2>3. DOMAIN t = 1..n
    BY <2>1, <2>2, LenProperties
  <2>4. \A x \in G!Range(t) : \E i \in 1..n : x = s[i]
    BY <2>1, <2>2, <2>3 DEF G!Range
  <2>5. f[n + 1] = Append(t, e)
    BY <2>1, <2>2, <2>4
  <2>6. /\ Append(t, e) \in Seq(A) /\ Len(Append(t, e)) = Len(t) + 1
        /\ \A i \in 1..Len(t) : Append(t, e)[i] = t[i]
        /\ Append(t, e)[Len(t) + 1] = e
    BY <2>2, AppendProperties
  <2>7. \A i \in 1..(n + 1) : i \in 1..n \/ i = n + 1
    BY <2>1
  <2> QED  BY <2>1, <2>2, <2>5, <2>6, <2>7
<1>5. Good(Len(s))
  <2>1. T = Nat
    <3> HIDE DEF Good
    <3> QED  BY <1>2, <1>3, <1>4, Counting
  <2> HIDE DEF Good
  <2> QED  BY <1>1, <1>2, <2>1
<1> QED  BY <1>5, SeqEqual

LEMMA ThoseAllFacts ==
    ASSUME NEW s, Listing(s), NEW X, G!Range(s) \subseteq X
    PROVE  G!Those(s, X) = s
<1>1. PICK A : A = G!Range(s) /\ s \in Seq(A)
  BY DEF Listing
<1>2. Len(s) \in Nat /\ \A i \in 1..Len(s) : s[i] \in X
  BY <1>1, ElementOfSeq, LenProperties
<1>3. PICK f : /\ f = [n \in 0..Len(s) |->
                            IF n = 0 THEN <<>>
                            ELSE IF s[n] \in X THEN Append(f[n - 1], s[n]) ELSE f[n - 1]]
               /\ G!Those(s, X) = f[Len(s)]
  BY <1>2, ThoseUpTo
<1>4. f[0] = <<>>
  BY <1>2, <1>3
<1>5. ASSUME NEW n \in 1..Len(s) PROVE f[n] = Append(f[n - 1], s[n])
  <2>1. n \in 0..Len(s) /\ n # 0 /\ s[n] \in X
    BY <1>2
  <2> QED  BY <1>3, <2>1
<1>6. f[Len(s)] = s
  BY <1>1, <1>4, <1>5, CopiedFacts
<1> QED  BY <1>3, <1>6

LEMMA DistinctFacts ==
    ASSUME NEW s, Listing(s)
    PROVE  /\ Listing(G!Distinct(s)) /\ G!IsInjective(G!Distinct(s))
           /\ G!Range(G!Distinct(s)) = G!Range(s)
           /\ G!IsInjective(s) => G!Distinct(s) = s
<1>1. PICK A : A = G!Range(s) /\ s \in Seq(A)
  BY DEF Listing
<1>2. PICK t : t = G!Distinct(s)
  OBVIOUS
<1>3. t \in Seq(A) /\ G!IsInjective(t) /\ G!Range(t) = G!Range(s)
  BY <1>1, <1>2, DistinctAre
<1>4. Listing(t) /\ G!IsInjective(t) /\ G!Range(t) = G!Range(s)
  BY <1>3, ListingFacts
<1>5. ASSUME G!IsInjective(s) PROVE t = s
  <2>1. Len(s) \in Nat /\ DOMAIN s = 1..Len(s)
    BY <1>1, LenProperties
  <2>2. PICK f : /\ f = [n \in 0..Len(s) |->
                            IF n = 0 THEN <<>> ELSE G!Added(f[n - 1], s[n])]
                 /\ t = f[Len(s)]
    BY <1>2, <2>1, DistinctUpTo
  <2>3. f[0] = <<>>
    BY <2>1, <2>2
  <2>4. ASSUME NEW n \in 1..Len(s), \A x \in G!Range(f[n - 1]) : \E i \in 1..(n - 1) : x = s[i]
        PROVE  f[n] = Append(f[n - 1], s[n])
    <3>1. n \in 0..Len(s) /\ n # 0
      BY <2>1
    <3>2. f[n] = G!Added(f[n - 1], s[n])
      BY <2>2, <3>1
    <3>3. s[n] \notin G!Range(f[n - 1])
      BY <1>5, <2>1, <2>4 DEF G!IsInjective
    <3> QED  BY <3>2, <3>3 DEF G!Added
  <2> QED  BY <1>1, <2>2, <2>3, <2>4, CopiedFacts
<1> QED  BY <1>2, <1>4, <1>5

LEMMA UsersFacts ==
    /\ \A S, x : x \in G!Users(S) <=>
          \E e \in G!Range(gEdges) : e.target \in S /\ e.kind \in Uses /\ x = e.source
    /\ GraphInv => \A S : \A x \in G!Users(S) : G!Stored(x)
<1>1. \A S, x : x \in G!Users(S) <=>
          \E e \in G!Range(gEdges) : e.target \in S /\ e.kind \in Uses /\ x = e.source
  BY DEF G!Users, Uses
<1> QED  BY <1>1 DEF GraphInv, UsersKnown

\* The sources of the edges to a symbol.
LEMMA SourcesToFacts ==
    ASSUME GraphInv, NEW i, NEW kinds
    PROVE  /\ Listing(G!Sources(G!EdgesTo(i, kinds)))
           /\ \A x : x \in G!Range(G!Sources(G!EdgesTo(i, kinds))) <=>
                 \E e \in G!Range(gEdges) : e.target = i /\ e.kind \in kinds /\ x = e.source
<1>1. PICK es : /\ es = G!EdgesTo(i, kinds) /\ Listing(es)
                /\ \A e : e \in G!Range(es) <=>
                       e \in G!Range(gEdges) /\ e.target = i /\ e.kind \in kinds
  <2>1. Listing(gEdges)
    BY DEF GraphInv, GraphTypes
  <2>2. PICK X : X = {e \in G!Range(gEdges) : e.target = i /\ e.kind \in kinds}
    OBVIOUS
  <2>3. PICK es : es = G!Those(gEdges, X)
    OBVIOUS
  <2>4. es = G!EdgesTo(i, kinds)
    BY <2>2, <2>3 DEF G!EdgesTo
  <2>5. Listing(es) /\ G!Range(es) = G!Range(gEdges) \cap X
    BY <2>1, <2>3, ThoseFacts
  <2>6. \A e : e \in X <=> e \in G!Range(gEdges) /\ e.target = i /\ e.kind \in kinds
    BY <2>2
  <2> QED  BY <2>4, <2>5, <2>6
<1>2. /\ DOMAIN es = 1..Len(es) /\ Len(es) \in Nat
      /\ \A e : e \in G!Range(es) <=> \E k \in 1..Len(es) : es[k] = e
  BY <1>1, FiniteFacts
<1>3. PICK t : t = [k \in 1..Len(es) |-> es[k].source] /\ t = G!Sources(es)
  BY <1>2 DEF G!Sources
<1>4. t = [k \in 1..Len(es) |-> t[k]]
  BY <1>3
<1>5. Listing(t) /\ \A x : x \in G!Range(t) <=> \E k \in 1..Len(es) : t[k] = x
  BY <1>2, <1>4, MadeFacts
<1>6. \A x : x \in G!Range(t) <=> \E e \in G!Range(es) : x = e.source
  BY <1>2, <1>3, <1>5
<1> QED  BY <1>1, <1>3, <1>5, <1>6

LEMMA SpreadFacts ==
    ASSUME GraphInv, NEW A, Listing(A)
    PROVE  Listing(G!SpreadFrom(A)) /\ G!Range(G!SpreadFrom(A)) = G!Users(G!Range(A))
<1>1. /\ DOMAIN A = 1..Len(A) /\ Len(A) \in Nat
      /\ \A i : i \in G!Range(A) <=> \E k \in 1..Len(A) : A[k] = i
  BY FiniteFacts
<1>2. PICK ss : ss = [k \in 1..Len(A) |-> G!Sources(G!EdgesTo(A[k], {"calls"}))
                                          \o G!Sources(G!EdgesTo(A[k], {"extends"}))]
  OBVIOUS
<1>3. ss = [k \in 1..Len(A) |-> ss[k]]
  BY <1>2
<1>4. ASSUME NEW k \in 1..Len(A)
      PROVE  /\ Listing(ss[k])
             /\ \A x : x \in G!Range(ss[k]) <=>
                   \E e \in G!Range(gEdges) : e.target = A[k] /\ e.kind \in Uses /\ x = e.source
  <2>1. PICK c, d : c = G!Sources(G!EdgesTo(A[k], {"calls"}))
                    /\ d = G!Sources(G!EdgesTo(A[k], {"extends"}))
    OBVIOUS
  <2>2. /\ Listing(c)
        /\ \A x : x \in G!Range(c) <=>
              \E e \in G!Range(gEdges) : e.target = A[k] /\ e.kind \in {"calls"} /\ x = e.source
    BY <2>1, SourcesToFacts
  <2>3. /\ Listing(d)
        /\ \A x : x \in G!Range(d) <=>
              \E e \in G!Range(gEdges) : e.target = A[k] /\ e.kind \in {"extends"} /\ x = e.source
    BY <2>1, SourcesToFacts
  <2>4. ss[k] = c \o d
    BY <1>2, <2>1
  <2>5. Listing(ss[k]) /\ G!Range(ss[k]) = G!Range(c) \cup G!Range(d)
    BY <2>2, <2>3, <2>4, JoinFacts
  <2> QED  BY <2>2, <2>3, <2>5 DEF Uses
<1>5. PICK t : t = G!FlattenSeq(ss) /\ t = G!SpreadFrom(A)
  BY <1>1, <1>2 DEF G!SpreadFrom
<1>6. Listing(t) /\ \A x : x \in G!Range(t) <=> \E k \in 1..Len(A) : x \in G!Range(ss[k])
  BY <1>1, <1>3, <1>4, <1>5, FlattenFacts
<1>7. \A x : x \in G!Range(t) <=> x \in G!Users(G!Range(A))
  <2>1. ASSUME NEW x
        PROVE  x \in G!Range(t) <=>
                 \E k \in 1..Len(A) : \E e \in G!Range(gEdges) :
                     e.target = A[k] /\ e.kind \in Uses /\ x = e.source
    <3>1. ASSUME NEW k \in 1..Len(A)
          PROVE  x \in G!Range(ss[k]) <=>
              \E e \in G!Range(gEdges) : e.target = A[k] /\ e.kind \in Uses /\ x = e.source
      <4>1. \A y : y \in G!Range(ss[k]) <=>
              \E e \in G!Range(gEdges) : e.target = A[k] /\ e.kind \in Uses /\ y = e.source
        BY <1>4
      <4> QED  BY <4>1
    <3> QED  BY <1>6, <3>1
  <2>2. \A x : x \in G!Range(t) <=>
           \E e \in G!Range(gEdges) :
               e.target \in G!Range(A) /\ e.kind \in Uses /\ x = e.source
    BY <1>1, <2>1
  <2> QED  BY <2>2, UsersFacts
<1>8. G!Range(t) = G!Users(G!Range(A))
  BY <1>7
<1> QED  BY <1>5, <1>6, <1>8


\* What leads to i in so many steps, and the waves that impact takes.
LEMMA WithinUpTo ==
    ASSUME NEW i, NEW depth \in Nat
    PROVE  \E f : /\ f = [d \in 0..depth |->
                       IF d = 0 THEN {i} ELSE f[d - 1] \cup G!Users(f[d - 1])]
                  /\ G!Within(i, depth) = f
<1> DEFINE Upto(k) == \E f : f = [d \in 0..k |->
                       IF d = 0 THEN {i} ELSE f[d - 1] \cup G!Users(f[d - 1])]
<1>1. PICK T : T = {k \in Nat : Upto(k)}
  OBVIOUS
<1>2. Upto(0)
  <2>1. PICK f : f = [d \in 0..0 |-> {i}]
    OBVIOUS
  <2>2. f = [d \in 0..0 |->
                       IF d = 0 THEN {i} ELSE f[d - 1] \cup G!Users(f[d - 1])]
    BY <2>1
  <2> QED  BY <2>2
<1>3. ASSUME NEW k \in Nat, Upto(k) PROVE Upto(k + 1)
  <2>1. PICK f : f = [d \in 0..k |->
                       IF d = 0 THEN {i} ELSE f[d - 1] \cup G!Users(f[d - 1])]
    BY <1>3
  <2>2. PICK g : g = [d \in 0..(k + 1) |-> IF d <= k THEN f[d] ELSE f[k] \cup G!Users(f[k])]
    OBVIOUS
  <2>3. ASSUME NEW d \in 0..(k + 1)
        PROVE  g[d] = IF d = 0 THEN {i} ELSE g[d - 1] \cup G!Users(g[d - 1])
    <3>1. CASE d <= k /\ d # 0
      <4>1. g[d] = f[d] /\ g[d - 1] = f[d - 1] /\ d \in 0..k
        BY <2>2, <3>1
      <4> QED  BY <2>1, <3>1, <4>1
    <3>2. CASE d = k + 1
      <4>1. g[d] = f[k] \cup G!Users(f[k]) /\ g[d - 1] = f[k]
        BY <2>2, <3>2
      <4> QED  BY <3>2, <4>1
    <3>3. CASE d = 0
      <4>1. g[0] = f[0] /\ f[0] = {i}
        BY <2>1, <2>2
      <4> QED  BY <3>3, <4>1
    <3> QED  BY <3>1, <3>2, <3>3
  <2>4. g = [d \in 0..(k + 1) |-> g[d]]
    BY <2>2
  <2>5. g = [d \in 0..(k + 1) |->
                       IF d = 0 THEN {i} ELSE g[d - 1] \cup G!Users(g[d - 1])]
    BY <2>3, <2>4
  <2> QED  BY <2>5
<1>4. T = Nat
  <2> HIDE DEF Upto
  <2>1. T \in SUBSET Nat /\ 0 \in T
    BY <1>1, <1>2
  <2>2. \A k \in T : k + 1 \in T
    BY <1>1, <1>3
  <2> QED  BY <2>1, <2>2, Counting
<1>5. Upto(depth)
  <2> HIDE DEF Upto
  <2> QED  BY <1>1, <1>4
<1> QED  BY <1>5, Zenon DEF G!Within

LEMMA WavesFacts ==
    ASSUME NEW i, NEW depth \in Nat
    PROVE  \E f : /\ f = [d \in 0..depth |->
                       IF d = 0 THEN <<<<i>>, <<>>>> ELSE G!NextWave(i, f[d - 1])]
                  /\ G!Impact(i, depth) = f[depth][2]
<1> DEFINE Upto(k) == \E f : f = [d \in 0..k |->
                       IF d = 0 THEN <<<<i>>, <<>>>> ELSE G!NextWave(i, f[d - 1])]
<1>1. PICK T : T = {k \in Nat : Upto(k)}
  OBVIOUS
<1>2. Upto(0)
  <2>1. PICK f : f = [d \in 0..0 |-> <<<<i>>, <<>>>>]
    OBVIOUS
  <2>2. f = [d \in 0..0 |->
                       IF d = 0 THEN <<<<i>>, <<>>>> ELSE G!NextWave(i, f[d - 1])]
    BY <2>1
  <2> QED  BY <2>2
<1>3. ASSUME NEW k \in Nat, Upto(k) PROVE Upto(k + 1)
  <2>1. PICK f : f = [d \in 0..k |->
                       IF d = 0 THEN <<<<i>>, <<>>>> ELSE G!NextWave(i, f[d - 1])]
    BY <1>3
  <2>2. PICK g : g = [d \in 0..(k + 1) |-> IF d <= k THEN f[d] ELSE G!NextWave(i, f[k])]
    OBVIOUS
  <2>3. ASSUME NEW d \in 0..(k + 1)
        PROVE  g[d] = IF d = 0 THEN <<<<i>>, <<>>>> ELSE G!NextWave(i, g[d - 1])
    <3>1. CASE d <= k /\ d # 0
      <4>1. g[d] = f[d] /\ g[d - 1] = f[d - 1] /\ d \in 0..k
        BY <2>2, <3>1
      <4> QED  BY <2>1, <3>1, <4>1
    <3>2. CASE d = k + 1
      <4>1. g[d] = G!NextWave(i, f[k]) /\ g[d - 1] = f[k]
        BY <2>2, <3>2
      <4> QED  BY <3>2, <4>1
    <3>3. CASE d = 0
      <4>1. g[0] = f[0] /\ f[0] = <<<<i>>, <<>>>>
        BY <2>1, <2>2
      <4> QED  BY <3>3, <4>1
    <3> QED  BY <3>1, <3>2, <3>3
  <2>4. g = [d \in 0..(k + 1) |-> g[d]]
    BY <2>2
  <2>5. g = [d \in 0..(k + 1) |->
                       IF d = 0 THEN <<<<i>>, <<>>>> ELSE G!NextWave(i, g[d - 1])]
    BY <2>3, <2>4
  <2> QED  BY <2>5
<1>4. T = Nat
  <2> HIDE DEF Upto
  <2>1. T \in SUBSET Nat /\ 0 \in T
    BY <1>1, <1>2
  <2>2. \A k \in T : k + 1 \in T
    BY <1>1, <1>3
  <2> QED  BY <2>1, <2>2, Counting
<1>5. Upto(depth)
  <2> HIDE DEF Upto
  <2> QED  BY <1>1, <1>4
<1> QED  BY <1>5, Zenon DEF G!Impact

\* Of the symbols X that lead to i, A came last, and B lists all but i.
Reached(i, X, A, B) ==
    /\ Listing(A) /\ Listing(B) /\ G!IsInjective(B)
    /\ i \in X /\ \A x \in G!Range(A) : x \in X
    /\ \A x \in X : x = i \/ G!Stored(x)
    /\ \A x : x \in G!Range(B) <=> x \in X /\ x # i
    /\ \A x \in G!Users(X) : x \in X \/ x \in G!Users(G!Range(A))

\* The wave after it: those that lead to one of X and are not in X.
Follows(i, X, A, B, N) ==
    /\ G!NextWave(i, <<A, B>>) = <<N, B \o N>>
    /\ Listing(N) /\ G!IsInjective(N)
    /\ \A x : x \in G!Range(N) <=> x \in G!Users(X) /\ x \notin X

LEMMA WaveNewFacts ==
    ASSUME GraphInv, NEW i, NEW X, NEW A, NEW B, Reached(i, X, A, B)
    PROVE  \E new : Follows(i, X, A, B, new)
<1>1. PICK s : s = G!SpreadFrom(A) /\ Listing(s) /\ G!Range(s) = G!Users(G!Range(A))
  BY SpreadFacts DEF Reached
<1>2. PICK Y : Y = G!Range(s) \ ({i} \cup G!Range(B))
  OBVIOUS
<1>3. PICK t : t = G!Those(s, Y) /\ Listing(t) /\ G!Range(t) = G!Range(s) \cap Y
  BY <1>1, ThoseFacts
<1>4. PICK new : new = G!Distinct(t)
  OBVIOUS
<1>5. Listing(new) /\ G!IsInjective(new) /\ G!Range(new) = G!Range(t)
  BY <1>3, <1>4, DistinctFacts
<1>6. G!NextWave(i, <<A, B>>) = <<new, B \o new>>
  BY <1>1, <1>2, <1>3, <1>4 DEF G!NextWave
<1>7. \A x : x \in G!Range(new) <=> x \in G!Users(G!Range(A)) /\ x \notin X
  <2>1. \A x : x \in {i} \cup G!Range(B) <=> x \in X
    BY DEF Reached
  <2> QED  BY <1>1, <1>2, <1>3, <1>5, <2>1
<1>8. \A x \in G!Users(G!Range(A)) : x \in G!Users(X)
  BY UsersFacts DEF Reached
<1>9. \A x : x \in G!Range(new) <=> x \in G!Users(X) /\ x \notin X
  BY <1>7, <1>8 DEF Reached
<1>10. Follows(i, X, A, B, new)
  BY <1>5, <1>6, <1>9 DEF Follows
<1> QED  BY <1>10

LEMMA WaveStepFacts ==
    ASSUME GraphInv, NEW i, NEW X, NEW A, NEW B, Reached(i, X, A, B),
           NEW N, Follows(i, X, A, B, N)
    PROVE  Reached(i, X \cup G!Users(X), N, B \o N)
<1>1. PICK Y : Y = X \cup G!Users(X)
  OBVIOUS
<1>2. /\ Listing(N) /\ G!IsInjective(N)
      /\ \A x : x \in G!Range(N) <=> x \in G!Users(X) /\ x \notin X
  BY DEF Follows
<1>3. G!Range(B) \cap G!Range(N) = {}
  BY <1>2 DEF Reached
<1>4. PICK S : S = G!Range(B) \cup G!Range(N)
  OBVIOUS
<1>5. PICK t : t = B \o N
  OBVIOUS
<1>6. Listing(t) /\ G!Range(t) = S
  BY <1>2, <1>4, <1>5, JoinFacts DEF Reached
<1>7. G!IsInjective(t)
  <2>1. B \in Seq(S) /\ N \in Seq(S)
    BY <1>2, <1>4, WithinFacts DEF Reached
  <2>2. G!IsInjective(B) /\ G!IsInjective(N) /\ G!Range(B) \cap G!Range(N) = {}
    BY <1>2, <1>3 DEF Reached
  <2>3. G!IsInjective(B \o N)
    BY <2>1, <2>2, ConcatAre
  <2> QED  BY <1>5, <2>3
<1>8. i \in Y /\ \A x \in G!Range(N) : x \in Y
  BY <1>2, <1>1 DEF Reached
<1>9. \A x \in Y : x = i \/ G!Stored(x)
  BY <1>1, UsersFacts DEF Reached
<1>10. \A x : x \in G!Range(t) <=> x \in Y /\ x # i
  BY <1>2, <1>1, <1>4, <1>6 DEF Reached
<1>11. ASSUME NEW x \in G!Users(Y) PROVE x \in Y \/ x \in G!Users(G!Range(N))
  <2>1. PICK e \in G!Range(gEdges) : e.target \in Y /\ e.kind \in Uses /\ x = e.source
    BY UsersFacts
  <2>2. CASE e.target \in X
    BY <1>1, <2>1, <2>2, UsersFacts
  <2>3. CASE e.target \notin X
    <3>1. e.target \in G!Range(N)
      BY <1>2, <1>1, <2>1, <2>3
    <3> QED  BY <2>1, <3>1, UsersFacts
  <2> QED  BY <2>2, <2>3
<1>12. Reached(i, Y, N, t)
  BY <1>2, <1>6, <1>7, <1>8, <1>9, <1>10, <1>11 DEF Reached
<1> QED  BY <1>1, <1>5, <1>12

\* What is reached in fewer steps is listed before.
Nearer(B, w, d) ==
    \A k \in 1..Len(B) : \A j \in 1..(k - 1) : \A e \in 0..d : B[k] \in w[e] => B[j] \in w[e]

LEMMA NearerFacts ==
    ASSUME NEW B, NEW N, Listing(B), Listing(N), NEW w, NEW d \in Nat, Nearer(B, w, d),
           \A x \in G!Range(N) : \A e \in 0..d : x \notin w[e],
           \A x \in G!Range(B) : x \in w[d + 1], \A x \in G!Range(N) : x \in w[d + 1]
    PROVE  Nearer(B \o N, w, d + 1)
<1>1. PICK S : S = G!Range(B) \cup G!Range(N)
  OBVIOUS
<1>2. B \in Seq(S) /\ N \in Seq(S)
  BY <1>1, WithinFacts
<1>3. PICK t : t = B \o N
  OBVIOUS
<1>4. PICK b, n : b = Len(B) /\ n = Len(N) /\ b \in Nat /\ n \in Nat
  BY <1>2, LenProperties
<1>5. /\ Len(t) = b + n
      /\ \A k \in 1..(b + n) : t[k] = IF k <= b THEN B[k] ELSE N[k - b]
  BY <1>2, <1>3, <1>4, ConcatProperties
<1>6. /\ \A k \in 1..b : B[k] \in G!Range(B)
      /\ \A k \in 1..n : N[k] \in G!Range(N)
  BY <1>4, FiniteFacts
<1>7. ASSUME NEW k \in 1..(b + n), NEW j \in 1..(k - 1), NEW e \in 0..(d + 1), t[k] \in w[e]
      PROVE  t[j] \in w[e]
  <2>1. j \in 1..(b + n) /\ j < k
    BY <1>4
  <2>2. CASE e = d + 1
    <3>1. t[j] \in G!Range(B) \/ t[j] \in G!Range(N)
      <4>1. CASE j <= b
        BY <1>4, <1>5, <1>6, <2>1, <4>1
      <4>2. CASE ~(j <= b)
        <5>1. j - b \in 1..n
          BY <1>4, <2>1, <4>2
        <5> QED  BY <1>5, <1>6, <2>1, <4>2, <5>1
      <4> QED  BY <4>1, <4>2
    <3> QED  BY <2>2, <3>1
  <2>3. CASE e # d + 1
    <3>1. e \in 0..d
      BY <2>3
    <3>2. k <= b
      <4>1. SUFFICES ASSUME ~(k <= b) PROVE FALSE
        OBVIOUS
      <4>2. k - b \in 1..n /\ t[k] = N[k - b]
        <5>1. k - b \in 1..n
          BY <1>4, <4>1
        <5> QED  BY <1>5, <4>1, <5>1
      <4>3. t[k] \in G!Range(N)
        BY <1>6, <4>2
      <4> QED  BY <1>7, <3>1, <4>3
    <3>3. k \in 1..b /\ j \in 1..(k - 1) /\ j <= b
      BY <1>4, <2>1, <3>2
    <3>4. t[k] = B[k] /\ t[j] = B[j]
      BY <1>5, <2>1, <3>3
    <3> QED  BY <1>4, <1>7, <3>1, <3>3, <3>4 DEF Nearer
  <2> QED  BY <2>2, <2>3
<1>8. Nearer(t, w, d + 1)
  BY <1>5, <1>7 DEF Nearer
<1> QED  BY <1>3, <1>8

\* What impact lists, before it is cut at the limit.
LEMMA ImpactFacts ==
    ASSUME GraphInv, NEW i, NEW depth \in Nat, NEW w, w = G!Within(i, depth)
    PROVE  /\ Listing(G!Impact(i, depth)) /\ G!IsInjective(G!Impact(i, depth))
           /\ \A x : x \in G!Range(G!Impact(i, depth)) <=> x \in w[depth] /\ x # i
           /\ \A x \in G!Range(G!Impact(i, depth)) : G!Stored(x)
           /\ Nearer(G!Impact(i, depth), w, depth)
<1>1. w = [d \in 0..depth |-> IF d = 0 THEN {i} ELSE w[d - 1] \cup G!Users(w[d - 1])]
  BY WithinUpTo
<1>2. PICK g : /\ g = [d \in 0..depth |->
                          IF d = 0 THEN <<<<i>>, <<>>>> ELSE G!NextWave(i, g[d - 1])]
               /\ G!Impact(i, depth) = g[depth][2]
  BY WavesFacts
<1> DEFINE Good(d) ==
      \E A, B : /\ g[d] = <<A, B>> /\ Reached(i, w[d], A, B) /\ Nearer(B, w, d)
                /\ \A e \in 0..d : \A x \in w[e] : x \in w[d]
<1>3. PICK T : T = {d \in Nat : d <= depth => Good(d)}
  OBVIOUS
<1>4. 0 \in T
  <2>1. w[0] = {i}
    BY <1>1
  <2>2. g[0] = <<<<i>>, <<>>>>
    BY <1>2
  <2>3. PICK A, B : A = <<i>> /\ B = <<>>
    OBVIOUS
  <2>4. Listing(A) /\ \A x : x \in G!Range(A) <=> x = i
    BY <2>3, OneFacts
  <2>5. /\ Listing(B) /\ G!Range(B) = {} /\ Len(B) = 0
        /\ G!IsInjective(B)
    <3>1. Listing(B) /\ G!Range(B) = {}
      BY <2>3, EmptyFacts
    <3>2. Len(B) = 0 /\ DOMAIN B = {}
      BY <2>3
    <3> QED  BY <3>1, <3>2 DEF G!IsInjective
  <2>6. G!Range(A) = {i}
    BY <2>4
  <2>7. Reached(i, {i}, A, B)
    BY <2>4, <2>5, <2>6 DEF Reached
  <2>8. Nearer(B, w, 0)
    BY <2>5 DEF Nearer
  <2>9. \A e \in 0..0 : \A x \in w[e] : x \in w[0]
    OBVIOUS
  <2>10. g[0] = <<A, B>>
    BY <2>2, <2>3
  <2>11. Good(0)
    BY <2>1, <2>7, <2>8, <2>9, <2>10
  <2> HIDE DEF Good
  <2> QED  BY <1>3, <2>11
<1>5. ASSUME NEW d \in T PROVE d + 1 \in T
  <2> SUFFICES ASSUME d + 1 <= depth PROVE Good(d + 1)
    BY <1>3, <1>5
  <2>1. d \in Nat /\ d + 1 \in 0..depth /\ d + 1 # 0 /\ (d + 1) - 1 = d /\ Good(d)
    BY <1>3
  <2>2. PICK A, B : /\ g[d] = <<A, B>> /\ Reached(i, w[d], A, B) /\ Nearer(B, w, d)
                    /\ \A e \in 0..d : \A x \in w[e] : x \in w[d]
    BY <2>1
  <2>3. w[d + 1] = w[d] \cup G!Users(w[d])
    BY <1>1, <2>1
  <2>4. g[d + 1] = G!NextWave(i, g[d])
    BY <1>2, <2>1
  <2>5. PICK N, X : X = w[d] /\ Reached(i, X, A, B) /\ Follows(i, X, A, B, N)
    BY <2>2, WaveNewFacts
  <2>6. g[d + 1] = <<N, B \o N>>
    BY <2>2, <2>4, <2>5 DEF Follows
  <2>7. Reached(i, w[d + 1], N, B \o N)
    <3>1. Reached(i, X \cup G!Users(X), N, B \o N)
      BY <2>5, WaveStepFacts
    <3> QED  BY <2>3, <2>5, <3>1
  <2>8. Nearer(B \o N, w, d + 1)
    <3>1. Listing(B) /\ \A x \in G!Range(B) : x \in w[d + 1]
      BY <2>2, <2>3 DEF Reached
    <3>2. /\ Listing(N)
          /\ \A x \in G!Range(N) : x \in w[d + 1] /\ \A e \in 0..d : x \notin w[e]
      BY <2>2, <2>3, <2>5 DEF Follows
    <3> QED  BY <2>1, <2>2, <3>1, <3>2, NearerFacts
  <2>9. \A e \in 0..(d + 1) : \A x \in w[e] : x \in w[d + 1]
    <3>1. \A e \in 0..(d + 1) : e = d + 1 \/ e \in 0..d
      BY <2>1
    <3> QED  BY <2>2, <2>3, <3>1
  <2> QED  BY <2>6, <2>7, <2>8, <2>9
<1>6. Good(depth)
  <2> HIDE DEF Good
  <2>1. T = Nat
    BY <1>3, <1>4, <1>5, Counting
  <2> QED  BY <1>3, <2>1
<1>7. PICK A, B : g[depth] = <<A, B>> /\ Reached(i, w[depth], A, B) /\ Nearer(B, w, depth)
  BY <1>6
<1>8. G!Impact(i, depth) = B
  BY <1>2, <1>7
<1> QED  BY <1>7, <1>8 DEF Reached

LEMMA LeastFacts ==
    ASSUME NEW T \in SUBSET Nat, T # {}
    PROVE  G!Min(T) \in T /\ \A n \in T : G!Min(T) <= n
<1>1. \E m \in T : \A n \in T : m <= n
  BY LeastOf
<1> QED  BY <1>1 DEF G!Min

ExactIn(within, i, depth, limit, got) ==
    LET Distance(x) == G!Min({d \in 0..depth : x \in within[d]})
        all == within[depth] \ {i} IN
    /\ G!Range(got) \subseteq all /\ G!IsInjective(got)
    /\ Len(got) = G!Min({limit, G!Cardinality(all)})
    /\ \A j, k \in DOMAIN got : j < k => Distance(got[j]) <= Distance(got[k])
ExactFor(i, depth, limit, got) == ExactIn(G!Within(i, depth), i, depth, limit, got)

LEMMA ImpactAnswers ==
    ASSUME GraphInv, NEW i, NEW depth \in Nat, NEW limit \in Nat
    PROVE  ExactFor(i, depth, limit, G!Load(G!Impact(i, depth), limit))
<1>1. PICK w, B : w = G!Within(i, depth) /\ B = G!Impact(i, depth)
  OBVIOUS
<1>2. /\ Listing(B) /\ G!IsInjective(B)
      /\ \A x : x \in G!Range(B) <=> x \in w[depth] /\ x # i
      /\ \A x \in G!Range(B) : G!Stored(x)
      /\ Nearer(B, w, depth)
  BY <1>1, ImpactFacts
<1>3. G!There(G!Distinct(B)) = B
  <2>1. G!Distinct(B) = B
    BY <1>2, DistinctFacts
  <2>2. G!Range(B) \subseteq {x \in G!Range(B) : G!Stored(x)}
    BY <1>2
  <2>3. G!There(B) = B
    BY <1>2, <2>2, ThoseAllFacts DEF G!There
  <2> QED  BY <2>1, <2>3
<1>4. PICK got : got = G!Load(B, limit) /\ got = G!FirstOf(B, limit)
  BY <1>3 DEF G!Load
<1>5. PICK all : all = w[depth] \ {i} /\ all = G!Range(B) /\ B \in Seq(all)
  BY <1>2 DEF Listing
<1>6. PICK b \in Nat :
         /\ b = Len(B) /\ DOMAIN B = 1..b
         /\ \A x : x \in all <=> \E k \in 1..b : B[k] = x
  BY <1>2, <1>5, FiniteFacts
<1>7. G!Cardinality(all) = b
  <2>1. B \in [1..b -> all] /\ \A j, k \in 1..b : B[j] = B[k] => j = k
    BY <1>2, <1>5, <1>6, LenProperties DEF G!IsInjective
  <2>2. B \in Bijection(1..b, all)
    BY <1>6, <2>1 DEF Bijection, Injection, Surjection, IsInjective
  <2>3. ExistsBijection(1..b, all)
    BY <2>2 DEF ExistsBijection
  <2>4. Cardinality(all) = b
    BY <2>3, FS_CountingElements
  <2> QED  BY <2>4, CardinalityIs
<1>8. PICK n \in Nat : n = (IF limit <= b THEN limit ELSE b) /\ n <= b
  OBVIOUS
<1>9. /\ got \in Seq(all) /\ Len(got) = n /\ G!IsInjective(got)
      /\ \A k \in 1..n : got[k] = B[k]
  BY <1>2, <1>4, <1>5, <1>6, <1>8, FirstOfFacts
<1>10. G!Range(got) \subseteq all /\ DOMAIN got = 1..n
  BY <1>9, ListingFacts
<1>11. Len(got) = G!Min({limit, G!Cardinality(all)})
  <2>1. {limit, b} \in SUBSET Nat /\ {limit, b} # {}
    BY <1>6
  <2>2. G!Min({limit, b}) \in {limit, b} /\ \A m \in {limit, b} : G!Min({limit, b}) <= m
    BY <2>1, LeastFacts
  <2>3. G!Min({limit, b}) = n
    BY <1>8, <2>2
  <2> QED  BY <1>7, <1>9, <2>3
<1> DEFINE Distance(x) == G!Min({d \in 0..depth : x \in w[d]})
<1>12. ASSUME NEW j \in 1..n, NEW k \in 1..n, j < k
       PROVE  Distance(got[j]) <= Distance(got[k])
  <2>1. PICK x, y : x = got[j] /\ y = got[k] /\ x = B[j] /\ y = B[k]
    BY <1>9
  <2>2. j \in 1..b /\ k \in 1..b /\ j \in 1..(k - 1)
    BY <1>8, <1>12
  <2>3. x \in w[depth] /\ y \in w[depth]
    BY <1>5, <1>6, <2>1, <2>2
  <2>4. PICK X, Y : X = {d \in 0..depth : x \in w[d]} /\ Y = {d \in 0..depth : y \in w[d]}
    OBVIOUS
  <2>5. X \in SUBSET Nat /\ X # {} /\ Y \in SUBSET Nat /\ Y # {}
    BY <2>3, <2>4
  <2>6. G!Min(Y) \in Y
    BY <2>5, LeastFacts
  <2>7. G!Min(Y) \in X
    BY <1>2, <1>6, <2>1, <2>2, <2>4, <2>6 DEF Nearer
  <2>8. G!Min(X) <= G!Min(Y)
    BY <2>5, <2>7, LeastFacts
  <2> QED  BY <2>1, <2>4, <2>8
<1>13. ExactFor(i, depth, limit, got)
  <2>1. \A j, k \in DOMAIN got : j < k => Distance(got[j]) <= Distance(got[k])
    BY <1>10, <1>12
  <2>2. ExactIn(w, i, depth, limit, got)
    BY <1>5, <1>9, <1>10, <1>11, <2>1, Zenon DEF ExactIn
  <2> QED  BY <1>1, <2>2 DEF ExactFor
<1> QED  BY <1>1, <1>4, <1>13

LEMMA ExactSame ==
    ASSUME UNCHANGED gEdges
    PROVE  \A i, d, l, got : ExactFor(i, d, l, got)' <=> ExactFor(i, d, l, got)
<1>1. \A i, d : G!Within(i, d)' = G!Within(i, d)
  <2>1. G!Range(gEdges)' = G!Range(gEdges)
    BY DEF G!Range
  <2>2. PICK es : es = G!Range(gEdges)
    OBVIOUS
  <2>3. es = G!Range(gEdges)'
    BY <2>1, <2>2
  <2> DEFINE Chains(i, d) ==
        LET within[n \in 0..d] ==
                IF n = 0 THEN {i}
                ELSE within[n - 1] \cup
                     {e.source : e \in {c \in es : /\ c.target \in within[n - 1]
                                                  /\ c.kind \in {"calls", "extends"}}} IN
        within
  <2>4. \A i, d : G!Within(i, d) = Chains(i, d)
    BY <2>2, Zenon DEF G!Within, G!Users
  <2>5. \A i, d : G!Within(i, d)' = Chains(i, d)
    BY <2>3, Zenon DEF G!Within, G!Users
  <2> HIDE DEF Chains
  <2> QED  BY <2>4, <2>5
<1> QED  BY <1>1 DEF ExactFor

LEMMA ImpactStep ==
    ASSUME GraphInv, G!ImpactExact, [G!NextQueries]_(G!queryVars)
    PROVE  G!ImpactExact'
<1> DEFINE Kept(a) == ExactFor(a.asked[1], a.asked[2], a.limit, a.got)
<1>1. G!ImpactExact <=> (gAnswer.op = "impact" => Kept(gAnswer))
  BY DEF G!ImpactExact, ExactFor, ExactIn
<1>2. G!ImpactExact' <=> (gAnswer'.op = "impact" => Kept(gAnswer)')
  BY DEF G!ImpactExact, ExactFor, ExactIn
<1>3. CASE G!Build /\ UNCHANGED gAnswer
  <2>1. gPhase # "stored"
    BY <1>3, Zenon DEF G!Build, G!Analyze, G!AnalyzeFails, G!Extracted, G!ResolveRef,
                       G!Annotate, G!ApplyOverlay, G!OverlayFails, G!Merge
  <2>2. gAnswer'.op = "none"
    <3>1. gAnswer = G!NoAnswer
      BY <2>1 DEF GraphInv, AskedLast
    <3> QED  BY <1>3, <3>1 DEF G!NoAnswer
  <2> QED  BY <1>2, <2>2
<1>4. CASE UNCHANGED G!vars /\ UNCHANGED gAnswer
  <2>1. PICK a : a = gAnswer
    OBVIOUS
  <2>2. Kept(a)' <=> Kept(a)
    BY <1>4, ExactSame DEF G!vars
  <2>3. Kept(gAnswer)' <=> Kept(a)'
    BY <1>4, <2>1
  <2> QED  BY <1>1, <1>2, <1>4, <2>1, <2>2, <2>3
<1>5. CASE gAnswer'.op # "impact"
  BY <1>2, <1>5
<1>6. ASSUME NEW q, NEW depth \in Depths, NEW limit \in Limits,
             G!AskImpact(q, depth, limit), UNCHANGED G!vars
      PROVE  G!ImpactExact'
  <2>1. PICK i : i = G!Id(G!BestNode(q))
    OBVIOUS
  <2>2. PICK a : /\ a = gAnswer' /\ a.asked = <<i, depth>> /\ a.limit = limit
                 /\ a.got = G!Load(G!Impact(i, depth), limit)
    BY <1>6, <2>1 DEF G!AskImpact
  <2>3. depth \in Nat /\ limit \in Nat
    BY GraphParts DEF G!QueriesAssumption
  <2>4. ExactFor(i, depth, limit, a.got)
    BY <2>2, <2>3, ImpactAnswers
  <2>5. Kept(a)
    BY <2>2, <2>4
  <2>6. Kept(a)' <=> Kept(a)
    BY <1>6, ExactSame DEF G!vars
  <2>7. Kept(gAnswer)' <=> Kept(a)'
    BY <2>2
  <2> QED  BY <1>2, <2>5, <2>6, <2>7
<1>7. ASSUME NEW limit, G!Search(limit) PROVE gAnswer'.op # "impact"
  BY <1>7 DEF G!Search
<1> QED  BY <1>3, <1>4, <1>5, <1>6, <1>7, GraphSteps DEF GraphMoves

(* Whatever cycles the calls and the subclass relations have, impact lists   *)
(* each symbol that depends on the asked one in so many steps, and no other, *)
(* once, nearer ones first, up to its limit (query.py:198).                  *)
THEOREM ImpactExactAlways == PartsSpec => []ImpactExact
<1>1. PartsInit => ImpactExact
  BY GraphPart DEF ImpactExact, G!ImpactExact, G!InitQueries, G!NoAnswer
<1>2. /\ part = "graph" => GraphInv
      /\ ImpactExact /\ [PartsNext]_partsVars
      => ImpactExact'
  <2> SUFFICES ASSUME part = "graph" => GraphInv, ImpactExact, [PartsNext]_partsVars
               PROVE  ImpactExact'
    OBVIOUS
  <2>1. CASE part = "graph"
    BY <2>1, GraphPart, ImpactStep DEF ImpactExact
  <2>2. CASE part # "graph"
    BY <2>2, OtherPart DEF ImpactExact
  <2> QED  BY <2>1, <2>2
<1> QED  BY <1>1, <1>2, GraphInvAlways, PTL DEF PartsSpec

------------------------------------------------------------------------------
(* The downloads *)

Downloading(p) == dPc[p] # "idle"
OneDownloads == \A p, q \in Downloaders : Downloading(p) /\ Downloading(q) => p = q

\* What is in the directory, unless its removal has begun.
Collecting == \E p \in Downloaders : dPc[p] = "collect"
CommitDir ==
    /\ dMarker # "empty" /\ (dMarker = "root" \/ dRoot => dRaw)
    /\ dMarker = "root" /\ dRoot /\ ~Collecting => dFile = D!Commit
    /\ \A f \in Tarred : dFile[f] # "absent" => dRoot

\* A process that downloads has unmarked the directory, and what it has
\* extracted is whole.
Extracting ==
    \A p \in Downloaders :
        /\ dPc[p] = "remove" /\ dMarker = "root" => ~dRoot /\ D!Marker \in dTodo[p]
        /\ dPc[p] = "collect" /\ dMarker = "root" => D!Marker \in dTodo[p]
        /\ dPc[p] \in {"mkdir", "fetch", "extract", "write", "mark"} => dMarker = "none"
        /\ dPc[p] \in {"extract", "write"} =>
               \A f \in Tarred \ (dTodo[p] \cup dOpen[p]) : dFile[f] = "whole"
        /\ dPc[p] = "extract" => dOpen[p] = {}
        /\ dPc[p] = "write" => dRoot
        /\ dPc[p] \in {"mark", "walk"} => dFile = D!Commit /\ dRoot
        /\ dPc[p] # "write" => dOpen[p] = {}
        /\ dPc[p] # "walk_cwd"

DownloadsInv == D!TypeOK /\ OneDownloads /\ CommitDir /\ Extracting /\ D!WholeCommit

USE DEF D!Goto, D!Fails, Downloading, Collecting, D!States, D!Names, D!diskVars, D!boundVars

LEMMA DownloadsInit ==
    ASSUME D!Init
    PROVE  DownloadsInv
<1> USE DEF D!Init
<1>1. D!TypeOK
  <2>1. dFile \in [Tarred -> D!States] /\ dGot \in [Downloaders -> [Tarred -> D!States]]
    BY DEF D!Commit
  <2> QED
    BY <2>1 DEF D!TypeOK
<1>2. OneDownloads /\ CommitDir /\ Extracting /\ D!WholeCommit
  BY DEF OneDownloads, CommitDir, Extracting, D!WholeCommit
<1> QED
  BY <1>1, <1>2 DEF DownloadsInv

LEMMA DStart ==
    ASSUME DownloadsInv, NEW p \in Downloaders, D!Start(p)
    PROVE  DownloadsInv'
<1> USE DEF D!Start, D!MayStart
<1>0. D!TypeOK /\ \A q \in Downloaders : dPc[q] = "idle"
  BY DEF DownloadsInv
<1>1. D!TypeOK'
  BY <1>0 DEF D!TypeOK
<1>2. OneDownloads'
  BY <1>0 DEF OneDownloads, D!TypeOK
<1>3. CommitDir' /\ D!WholeCommit'
  BY DEF DownloadsInv, CommitDir, D!WholeCommit
<1>4. Extracting'
  BY <1>0 DEF DownloadsInv, Extracting, D!TypeOK
<1> QED
  BY <1>1, <1>2, <1>3, <1>4 DEF DownloadsInv

LEMMA DRequestFails ==
    ASSUME DownloadsInv, NEW p \in Downloaders, D!RequestFails(p)
    PROVE  DownloadsInv'
<1> USE DEF D!RequestFails
<1>0. D!TypeOK
  BY DEF DownloadsInv
<1>1. D!TypeOK'
  BY <1>0 DEF D!TypeOK
<1>2. OneDownloads'
  BY <1>0 DEF DownloadsInv, OneDownloads, D!TypeOK
<1>3. CommitDir' /\ D!WholeCommit'
  BY DEF DownloadsInv, CommitDir, D!WholeCommit
<1>4. Extracting'
  BY <1>0 DEF DownloadsInv, Extracting, D!TypeOK
<1> QED
  BY <1>1, <1>2, <1>3, <1>4 DEF DownloadsInv

LEMMA DResolve ==
    ASSUME DownloadsInv, NEW p \in Downloaders, D!Resolve(p)
    PROVE  DownloadsInv'
<1> USE DEF D!Resolve, D!Marked, D!OnDisk
<1>0. D!TypeOK /\ CommitDir /\ dPc \in [Downloaders -> {"idle", "resolve", "collect", "remove", "mkdir", "fetch",
             "extract", "write", "mark", "walk", "walk_cwd"}]
  BY DEF DownloadsInv, D!TypeOK
<1>1. /\ dOpen[p] = {} /\ dOpen' = dOpen
      /\ \A q \in Downloaders \ {p} : dPc[q] = "idle"
  BY DEF DownloadsInv, OneDownloads, Extracting
<1>6. ~Collecting
  BY <1>1
<1>2. D!TypeOK'
  <2>1. CASE D!Marked
    BY <1>0, <2>1 DEF D!TypeOK
  <2>2. CASE ~D!Marked
    <3>1. {f \in Tarred : dFile[f] # "absent"} \cup (IF dMarker = "none" THEN {} ELSE {D!Marker})
              \subseteq D!Names
      OBVIOUS
    <3> QED
      BY <1>0, <2>2, <3>1 DEF D!TypeOK
  <2> QED
    BY <2>1, <2>2
<1>3. OneDownloads'
  BY <1>0, <1>1 DEF OneDownloads
<1>4. CommitDir' /\ D!WholeCommit'
  BY <1>6 DEF DownloadsInv, CommitDir, D!WholeCommit
<1>5. Extracting'
  <2>1. CASE D!Marked
    <3>1. dMarker = "root" /\ dRoot /\ dFile = D!Commit
      BY <1>0, <1>6, <2>1 DEF CommitDir
    <3>2. dPc' = [dPc EXCEPT ![p] = "walk"]
      BY <2>1, <3>1
    <3> QED
      BY <1>0, <1>1, <3>1, <3>2 DEF DownloadsInv, Extracting
  <2>2. CASE ~D!Marked
    <3>1. dMarker = "root" => ~dRoot /\ dRaw
      BY <1>0, <2>2 DEF CommitDir
    <3>2. dMarker \in {"none", "root"}
      BY <1>0 DEF CommitDir, D!TypeOK
    <3>3. CASE dRaw
      <4>1. dPc' = [dPc EXCEPT ![p] = "remove"]
        BY <2>2, <3>3
      <4>2. dMarker = "root" => D!Marker \in dTodo'[p]
        BY <1>0, <2>2 DEF D!TypeOK
      <4> QED
        BY <1>0, <1>1, <3>1, <4>1, <4>2 DEF DownloadsInv, Extracting
    <3>4. CASE ~dRaw
      <4>1. dPc' = [dPc EXCEPT ![p] = "mkdir"] /\ dMarker = "none"
        BY <2>2, <3>1, <3>2, <3>4
      <4> QED
        BY <1>0, <1>1, <4>1 DEF DownloadsInv, Extracting
    <3> QED
      BY <3>3, <3>4
  <2> QED
    BY <2>1, <2>2
<1> QED
  BY <1>2, <1>3, <1>4, <1>5 DEF DownloadsInv

LEMMA DCollect ==
    ASSUME DownloadsInv, NEW p \in Downloaders, D!Collect(p)
    PROVE  DownloadsInv'
<1> USE DEF D!Collect, D!MayStart, D!OnDisk
<1>1. /\ D!TypeOK /\ CommitDir /\ Extracting
      /\ \A q \in Downloaders : dPc[q] = "idle" /\ dOpen[q] = {}
  BY DEF DownloadsInv, OneDownloads, Extracting
<1>2. dPc'[p] = "collect" /\ \A q \in Downloaders \ {p} : dPc'[q] = "idle"
  BY <1>1 DEF D!TypeOK
<1>3. D!TypeOK'
  <2>1. {f \in Tarred : dFile[f] # "absent"} \cup (IF dMarker = "none" THEN {} ELSE {D!Marker})
            \subseteq D!Names
    OBVIOUS
  <2> QED
    BY <1>1, <2>1 DEF D!TypeOK
<1>4. OneDownloads'
  BY <1>2 DEF OneDownloads
<1>5. CommitDir'
  BY <1>1, <1>2 DEF CommitDir
<1>6. Extracting'
  BY <1>1, <1>2 DEF Extracting, D!TypeOK
<1>7. D!WholeCommit'
  BY DEF DownloadsInv, D!WholeCommit
<1> QED
  BY <1>3, <1>4, <1>5, <1>6, <1>7 DEF DownloadsInv

LEMMA DRemove ==
    ASSUME DownloadsInv, NEW p \in Downloaders, NEW x \in D!Names, D!Remove(p, x)
    PROVE  DownloadsInv'
<1> USE DownloadsParts DEF D!Remove, D!Removing, D!DownloadsAssumption
<1>1. /\ D!TypeOK /\ CommitDir /\ Extracting
      /\ \A q \in Downloaders \ {p} : dPc[q] = "idle" /\ dOpen[q] = {}
  BY DEF DownloadsInv, OneDownloads, Extracting
<1>2. D!TypeOK'
  BY <1>1 DEF D!TypeOK
<1>3. OneDownloads'
  BY <1>1 DEF OneDownloads, D!TypeOK
<1>4. CommitDir'
  BY <1>1 DEF CommitDir, Extracting, D!TypeOK
<1>5. Extracting'
  BY <1>1 DEF Extracting, D!TypeOK
<1>6. D!WholeCommit'
  BY <1>1 DEF DownloadsInv, D!WholeCommit, Extracting, D!TypeOK
<1> QED
  BY <1>2, <1>3, <1>4, <1>5, <1>6 DEF DownloadsInv

LEMMA DRemoveRoot ==
    ASSUME DownloadsInv, NEW p \in Downloaders, D!RemoveRoot(p)
    PROVE  DownloadsInv'
<1> USE DEF D!RemoveRoot, D!Removing
<1>1. /\ D!TypeOK /\ CommitDir /\ Extracting
      /\ \A q \in Downloaders \ {p} : dPc[q] = "idle" /\ dOpen[q] = {}
  BY DEF DownloadsInv, OneDownloads, Extracting
<1>2. D!TypeOK'
  BY <1>1 DEF D!TypeOK
<1>3. OneDownloads'
  BY <1>1 DEF DownloadsInv, OneDownloads
<1>4. CommitDir'
  BY <1>1 DEF CommitDir, D!TypeOK
<1>5. Extracting'
  BY <1>1 DEF Extracting, D!TypeOK
<1>6. D!WholeCommit'
  BY DEF DownloadsInv, D!WholeCommit
<1> QED
  BY <1>2, <1>3, <1>4, <1>5, <1>6 DEF DownloadsInv

LEMMA DRemoveDirs ==
    ASSUME DownloadsInv, NEW p \in Downloaders, D!RemoveDirs(p)
    PROVE  DownloadsInv'
<1> USE DEF D!RemoveDirs, D!Removing
<1>1. /\ D!TypeOK /\ CommitDir /\ Extracting
      /\ \A q \in Downloaders \ {p} : dPc[q] = "idle" /\ dOpen[q] = {}
  BY DEF DownloadsInv, OneDownloads, Extracting
<1>2. D!TypeOK'
  BY <1>1 DEF D!TypeOK
<1>3. OneDownloads'
  BY <1>1 DEF OneDownloads, D!TypeOK
<1>4. CommitDir'
  BY <1>1 DEF CommitDir, Extracting, D!TypeOK
<1>5. Extracting'
  <2>1. dMarker = "none"
    BY <1>1 DEF Extracting, CommitDir, D!TypeOK
  <2>2. dPc'[p] \in {"mkdir", "idle"} /\ dOpen[p] = {}
    BY <1>1 DEF Extracting, D!TypeOK
  <2>3. \A q \in Downloaders \ {p} : dPc'[q] = "idle"
    BY <1>1
  <2> QED
    BY <1>1, <2>1, <2>2, <2>3 DEF Extracting
<1>6. D!WholeCommit'
  BY <1>1 DEF DownloadsInv, D!WholeCommit, Extracting, D!TypeOK
<1> QED
  BY <1>2, <1>3, <1>4, <1>5, <1>6 DEF DownloadsInv

LEMMA DMakeDir ==
    ASSUME DownloadsInv, NEW p \in Downloaders, D!MakeDir(p)
    PROVE  DownloadsInv'
<1> USE DEF D!MakeDir
<1>1. /\ D!TypeOK /\ CommitDir /\ Extracting
      /\ \A q \in Downloaders \ {p} : dPc[q] = "idle" /\ dOpen[q] = {}
  BY DEF DownloadsInv, OneDownloads, Extracting
<1>2. D!TypeOK'
  BY <1>1 DEF D!TypeOK
<1>3. OneDownloads'
  BY <1>1 DEF OneDownloads, D!TypeOK
<1>4. CommitDir'
  BY <1>1 DEF CommitDir, Extracting, D!TypeOK
<1>5. Extracting'
  BY <1>1 DEF Extracting, D!TypeOK
<1>6. D!WholeCommit'
  BY <1>1 DEF DownloadsInv, D!WholeCommit, Extracting, D!TypeOK
<1> QED
  BY <1>2, <1>3, <1>4, <1>5, <1>6 DEF DownloadsInv

LEMMA DFetch ==
    ASSUME DownloadsInv, NEW p \in Downloaders, D!Fetch(p)
    PROVE  DownloadsInv'
<1> USE DEF D!Fetch
<1>1. /\ D!TypeOK /\ CommitDir /\ Extracting
      /\ \A q \in Downloaders \ {p} : dPc[q] = "idle" /\ dOpen[q] = {}
  BY DEF DownloadsInv, OneDownloads, Extracting
<1>2. D!TypeOK'
  BY <1>1 DEF D!TypeOK
<1>3. OneDownloads'
  BY <1>1 DEF OneDownloads, D!TypeOK
<1>4. CommitDir'
  BY <1>1 DEF CommitDir, Extracting, D!TypeOK
<1>5. Extracting'
  BY <1>1 DEF Extracting, D!TypeOK
<1>6. D!WholeCommit'
  BY <1>1 DEF DownloadsInv, D!WholeCommit, Extracting, D!TypeOK
<1> QED
  BY <1>2, <1>3, <1>4, <1>5, <1>6 DEF DownloadsInv

LEMMA DOpen ==
    ASSUME DownloadsInv, NEW p \in Downloaders, NEW f \in Tarred, D!Open(p, f)
    PROVE  DownloadsInv'
<1> USE DownloadsParts DEF D!Open, D!DownloadsAssumption
<1>1. /\ D!TypeOK /\ CommitDir /\ Extracting
      /\ \A q \in Downloaders \ {p} : dPc[q] = "idle" /\ dOpen[q] = {}
  BY DEF DownloadsInv, OneDownloads, Extracting
<1>2. D!TypeOK'
  BY <1>1 DEF D!TypeOK
<1>3. OneDownloads'
  BY <1>1 DEF OneDownloads, D!TypeOK
<1>4. CommitDir'
  BY <1>1 DEF CommitDir, Extracting, D!TypeOK
<1>5. Extracting'
  BY <1>1 DEF Extracting, D!TypeOK
<1>6. D!WholeCommit'
  BY <1>1 DEF DownloadsInv, D!WholeCommit, Extracting, D!TypeOK
<1> QED
  BY <1>2, <1>3, <1>4, <1>5, <1>6 DEF DownloadsInv

LEMMA DWrite ==
    ASSUME DownloadsInv, NEW p \in Downloaders, D!Write(p)
    PROVE  DownloadsInv'
<1> USE DEF D!Write
<1>1. /\ D!TypeOK /\ CommitDir /\ Extracting
      /\ \A q \in Downloaders \ {p} : dPc[q] = "idle" /\ dOpen[q] = {}
  BY DEF DownloadsInv, OneDownloads, Extracting
<1>2. D!TypeOK'
  BY <1>1 DEF D!TypeOK
<1>3. OneDownloads'
  BY <1>1 DEF OneDownloads, D!TypeOK
<1>4. CommitDir'
  <2>1. dMarker = "none" /\ dRoot /\ dRaw
    BY <1>1 DEF Extracting, CommitDir
  <2> QED
    BY <2>1 DEF CommitDir
<1>5. Extracting'
  <2>1. dMarker = "none" /\ \A f \in Tarred \ (dTodo[p] \cup dOpen[p]) : dFile[f] = "whole"
    BY <1>1 DEF Extracting
  <2>2. ASSUME NEW f \in Tarred \ dTodo[p]
        PROVE  dFile'[f] = "whole"
    <3>1. CASE f \in dOpen[p]
      BY <1>1, <3>1
    <3>2. CASE f \notin dOpen[p]
      BY <2>1, <3>2
    <3> QED
      BY <3>1, <3>2
  <2>3. dOpen'[p] = {} /\ \A q \in Downloaders \ {p} : dOpen'[q] = {} /\ dPc'[q] = "idle"
    BY <1>1 DEF D!TypeOK
  <2>4. dPc'[p] = "extract"
    BY <1>1 DEF D!TypeOK
  <2> QED
    BY <2>1, <2>2, <2>3, <2>4 DEF Extracting
<1>6. D!WholeCommit'
  BY <1>1 DEF DownloadsInv, D!WholeCommit, Extracting, D!TypeOK
<1> QED
  BY <1>2, <1>3, <1>4, <1>5, <1>6 DEF DownloadsInv

LEMMA DFindRoot ==
    ASSUME DownloadsInv, NEW p \in Downloaders, D!FindRoot(p)
    PROVE  DownloadsInv'
<1> USE DEF D!FindRoot, D!Commit
<1>1. /\ D!TypeOK /\ CommitDir /\ Extracting
      /\ \A q \in Downloaders \ {p} : dPc[q] = "idle" /\ dOpen[q] = {}
  BY DEF DownloadsInv, OneDownloads, Extracting
<1>2. D!TypeOK'
  BY <1>1 DEF D!TypeOK
<1>3. OneDownloads'
  BY <1>1 DEF OneDownloads, D!TypeOK
<1>4. CommitDir'
  BY <1>1 DEF CommitDir, Extracting, D!TypeOK
<1>5. Extracting'
  BY <1>1 DEF Extracting, D!TypeOK
<1>6. D!WholeCommit'
  BY <1>1 DEF DownloadsInv, D!WholeCommit, Extracting, D!TypeOK
<1> QED
  BY <1>2, <1>3, <1>4, <1>5, <1>6 DEF DownloadsInv

LEMMA DMark ==
    ASSUME DownloadsInv, NEW p \in Downloaders, D!Mark(p)
    PROVE  DownloadsInv'
<1> USE DEF D!Mark
<1>1. /\ D!TypeOK /\ CommitDir /\ Extracting
      /\ \A q \in Downloaders \ {p} : dPc[q] = "idle" /\ dOpen[q] = {}
  BY DEF DownloadsInv, OneDownloads, Extracting
<1>2. D!TypeOK'
  BY <1>1 DEF D!TypeOK
<1>3. OneDownloads'
  BY <1>1 DEF OneDownloads, D!TypeOK
<1>4. CommitDir'
  BY <1>1 DEF CommitDir, Extracting, D!TypeOK
<1>5. Extracting'
  BY <1>1 DEF Extracting, D!TypeOK
<1>6. D!WholeCommit'
  BY <1>1 DEF DownloadsInv, D!WholeCommit, Extracting, D!TypeOK
<1> QED
  BY <1>2, <1>3, <1>4, <1>5, <1>6 DEF DownloadsInv

LEMMA DWalk ==
    ASSUME DownloadsInv, NEW p \in Downloaders, D!Walk(p)
    PROVE  DownloadsInv'
<1> USE DEF D!Walk
<1>1. /\ D!TypeOK /\ CommitDir /\ Extracting
      /\ \A q \in Downloaders \ {p} : dPc[q] = "idle" /\ dOpen[q] = {}
  BY DEF DownloadsInv, OneDownloads, Extracting
<1>2. D!TypeOK'
  BY <1>1 DEF D!TypeOK
<1>3. OneDownloads'
  BY <1>1 DEF OneDownloads, D!TypeOK
<1>4. CommitDir'
  BY <1>1 DEF CommitDir, Extracting, D!TypeOK
<1>5. Extracting'
  BY <1>1 DEF Extracting, D!TypeOK
<1>6. D!WholeCommit'
  BY <1>1 DEF DownloadsInv, D!WholeCommit, Extracting, D!TypeOK
<1> QED
  BY <1>2, <1>3, <1>4, <1>5, <1>6 DEF DownloadsInv

LEMMA DCrash ==
    ASSUME DownloadsInv, ~RemoverDies, NEW p \in Downloaders, D!Crash(p)
    PROVE  DownloadsInv'
<1> USE DEF D!Crash
<1>1. /\ D!TypeOK /\ CommitDir /\ Extracting
      /\ \A q \in Downloaders \ {p} : dPc[q] = "idle" /\ dOpen[q] = {}
  BY DEF DownloadsInv, OneDownloads, Extracting
<1>2. D!TypeOK'
  BY <1>1 DEF D!TypeOK
<1>3. OneDownloads'
  BY <1>1 DEF OneDownloads, D!TypeOK
<1>4. CommitDir'
  BY <1>1 DEF CommitDir, Extracting, D!TypeOK
<1>5. Extracting'
  BY <1>1 DEF Extracting, D!TypeOK
<1>6. D!WholeCommit'
  BY <1>1 DEF DownloadsInv, D!WholeCommit, Extracting, D!TypeOK
<1> QED
  BY <1>2, <1>3, <1>4, <1>5, <1>6 DEF DownloadsInv

LEMMA DStutters ==
    ASSUME DownloadsInv, UNCHANGED D!vars
    PROVE  DownloadsInv'
BY DEF DownloadsInv, D!TypeOK, OneDownloads, CommitDir, Extracting, D!WholeCommit, D!vars

LEMMA DownloadsStep ==
    ASSUME ~RemoverDies
    PROVE  DownloadsInv /\ [D!Next]_(D!vars) => DownloadsInv'
<1> SUFFICES ASSUME DownloadsInv, [D!Next]_(D!vars) PROVE DownloadsInv'
  OBVIOUS
<1>1. CASE UNCHANGED D!vars
  BY <1>1, DStutters
<1>2. CASE D!Next
  BY <1>2, DStart, DRequestFails, DResolve, DCollect, DRemove, DRemoveRoot,
     DRemoveDirs, DMakeDir, DFetch, DOpen, DWrite, DFindRoot, DMark, DWalk, DCrash DEF D!Next
<1> QED  BY <1>1, <1>2

HIDE DEF D!Goto, D!Fails, Downloading, Collecting, D!States, D!Names, D!diskVars, D!boundVars

\* However many processes die in a download, and in removing what one that died
\* has left, what is listed under a commit is all of the commit, where one
\* process at a time resolves or removes it, none dies between opening and
\* writing the marker, and none in an eviction while the marker is there.
THEOREM WholeCommitAlways == ASSUME ~RemoverDies PROVE PartsSpec => []WholeCommit
<1>1. PartsInit => (part = "downloads" => DownloadsInv)
  BY DownloadsPart, DownloadsInit
<1>2. (part = "downloads" => DownloadsInv) /\ [PartsNext]_partsVars
          => (part = "downloads" => DownloadsInv)'
  <2>1. CASE part = "downloads"
    BY <2>1, DownloadsPart, DownloadsStep
  <2>2. CASE part # "downloads"
    BY <2>2, OtherPart
  <2> QED  BY <2>1, <2>2
<1>3. (part = "downloads" => DownloadsInv) => WholeCommit
  BY DEF WholeCommit, DownloadsInv
<1> QED  BY <1>1, <1>2, <1>3, PTL DEF PartsSpec

------------------------------------------------------------------------------
(* The cache *)

CP == INSTANCE IndexCache_proofs WITH
    Procs <- {proc}, Specs <- {source}, MaxGcs <- 0, tree <- cTree,
    extract <- cExtract, graph <- cGraph, manifest <- cManifest, ref <- cRef, clock <- cClock,
    pc <- cPc, spec <- cSpec, kind <- cKind, snap <- cSnap, made <- cMade, stamp <- cStamp,
    puts <- cPuts, before <- cBefore, aged <- cAged, victims <- cVictims, result <- cResult,
    edits <- cEdits, crashes <- cCrashes, faults <- cFaults, gcs <- cGcs

LEMMA CacheCounts == \A S : CP!Cardinality(S) = C!Cardinality(S)
BY DEF CP!Cardinality, C!Cardinality

LEMMA CacheSame ==
    /\ CP!Init <=> C!Init
    /\ [CP!Next]_(CP!vars) <=> [C!Next]_(C!vars)
    /\ CP!NeverFails <=> C!NeverFails
    /\ CP!RefsKept <=> C!RefsKept
<1>1. CP!Init <=> C!Init
  BY DEF CP!Init, C!Init, CP!Snaps, C!Snaps, CP!NoRows, C!NoRows, CP!NoFiles, C!NoFiles
<1>2. [CP!Next]_(CP!vars) <=> [C!Next]_(C!vars)
  <2>1. ASSUME NEW p, NEW s, NEW k PROVE CP!Call(p, s, k) <=> C!Call(p, s, k)
    <3>1. CP!Unstamped = C!Unstamped
      BY DEF CP!Unstamped, C!Unstamped
    <3>2. CP!Previous(s) = C!Previous(s)
      BY DEF CP!Previous, C!Previous
    <3> QED  BY <3>1, <3>2, CacheCounts DEF CP!Call, C!Call, CP!Goto, C!Goto, CP!disk, C!disk, CP!bounds,
             C!bounds
  <2>2. ASSUME NEW p PROVE CP!Walk(p) <=> C!Walk(p)
    BY DEF CP!Walk, C!Walk, CP!Goto, C!Goto, CP!Snaps, C!Snaps, CP!disk, C!disk, CP!bounds,
       C!bounds
  <2>3. ASSUME NEW p PROVE CP!Check(p) <=> C!Check(p)
    BY DEF CP!Check, C!Check, CP!Goto, C!Goto, CP!Valid, C!Valid, CP!Readable, C!Readable,
       CP!disk, C!disk, CP!bounds, C!bounds, CP!work, C!work
  <2>4. ASSUME NEW p PROVE CP!Load(p) <=> C!Load(p)
    BY DEF CP!Load, C!Load, CP!Return, C!Return, CP!Raise, C!Raise, CP!Forget, C!Forget,
       CP!Changes, C!Changes, CP!NoFiles, C!NoFiles, CP!NoRows, C!NoRows, CP!disk,
       C!disk, CP!bounds, C!bounds
  <2>5. ASSUME NEW p, NEW f PROVE CP!Reuse(p, f) <=> C!Reuse(p, f)
    <3>1. CP!Hit(p, f) = C!Hit(p, f)
      BY DEF CP!Hit, C!Hit, CP!Row, C!Row
    <3> QED  BY <3>1 DEF CP!Reuse, C!Reuse, CP!Todo, C!Todo, CP!disk, C!disk, CP!bounds,
             C!bounds
  <2>6. ASSUME NEW p, NEW f PROVE CP!Analyze(p, f) <=> C!Analyze(p, f)
    <3>1. CP!Hit(p, f) = C!Hit(p, f)
      BY DEF CP!Hit, C!Hit, CP!Row, C!Row
    <3>2. ASSUME NEW q PROVE CP!Writing(q) <=> C!Writing(q)
      BY DEF CP!Writing, C!Writing, CP!NoRows, C!NoRows
    <3> QED  BY <3>1, <3>2 DEF CP!Analyze, C!Analyze, CP!Todo, C!Todo, CP!disk, C!disk,
             CP!bounds, C!bounds
  <2>7. ASSUME NEW p, NEW f PROVE CP!Locked(p, f) <=> C!Locked(p, f)
    BY DEF CP!Locked, C!Locked, CP!Todo, C!Todo, CP!Hit, C!Hit, CP!Row, C!Row, CP!Writing,
       C!Writing, CP!Raise, C!Raise, CP!Forget, C!Forget, CP!NoFiles, C!NoFiles,
       CP!NoRows, C!NoRows, CP!disk, C!disk, CP!bounds, C!bounds
  <2>8. ASSUME NEW p, NEW f PROVE CP!CannotRead(p, f) <=> C!CannotRead(p, f)
    BY DEF CP!CannotRead, C!CannotRead, CP!Todo, C!Todo, CP!Hit, C!Hit, CP!Row, C!Row,
       CP!disk, C!disk
  <2>9. ASSUME NEW p PROVE CP!Flush(p) <=> C!Flush(p)
    BY DEF CP!Flush, C!Flush, CP!Goto, C!Goto, CP!Extracted, C!Extracted, CP!Graphs,
       C!Graphs, CP!NoRows, C!NoRows, CP!bounds, C!bounds
  <2>10. ASSUME NEW p PROVE CP!Publish(p) <=> C!Publish(p)
    BY DEF CP!Publish, C!Publish, CP!Goto, C!Goto, CP!bounds, C!bounds
  <2>11. ASSUME NEW p PROVE CP!TruncateManifest(p) <=> C!TruncateManifest(p)
    BY DEF CP!TruncateManifest, C!TruncateManifest, CP!Goto, C!Goto, CP!work, C!work,
       CP!bounds, C!bounds
  <2>12. ASSUME NEW p PROVE CP!WriteManifest(p) <=> C!WriteManifest(p)
    BY DEF CP!WriteManifest, C!WriteManifest, CP!Goto, C!Goto, CP!work, C!work, CP!bounds,
       C!bounds
  <2>13. ASSUME NEW p PROVE CP!TruncateRef(p) <=> C!TruncateRef(p)
    BY DEF CP!TruncateRef, C!TruncateRef, CP!Goto, C!Goto, CP!work, C!work, CP!bounds,
       C!bounds
  <2>14. ASSUME NEW p PROVE CP!WriteRef(p) <=> C!WriteRef(p)
    BY DEF CP!WriteRef, C!WriteRef, CP!Goto, C!Goto, CP!work, C!work, CP!bounds, C!bounds
  <2>15. ASSUME NEW p PROVE CP!Scan(p) <=> C!Scan(p)
    <3>1. CP!Snaps = C!Snaps
      BY DEF CP!Snaps, C!Snaps
    <3>2. ASSUME NEW n PROVE CP!Readable(n) <=> C!Readable(n)
      BY DEF CP!Readable, C!Readable
    <3>3. ASSUME NEW n PROVE CP!Newer(n) = C!Newer(n)
      BY <3>1, <3>2 DEF CP!Newer, C!Newer, CP!OfSpec, C!OfSpec
    <3>4. ASSUME NEW n PROVE (CP!Expired(n) <=> C!Expired(n))
                             /\ (CP!BeyondKeep(n) <=> C!BeyondKeep(n))
      BY <3>3, CacheCounts DEF CP!Expired, C!Expired, CP!BeyondKeep, C!BeyondKeep
    <3> QED  BY <3>1, <3>2, <3>4 DEF CP!Scan, C!Scan, CP!Goto, C!Goto, CP!disk, C!disk,
             CP!bounds, C!bounds
  <2>16. ASSUME NEW p PROVE CP!Remove(p) <=> C!Remove(p)
    BY DEF CP!Remove, C!Remove, CP!bounds, C!bounds
  <2>17. ASSUME NEW p PROVE CP!Persisted(p) <=> C!Persisted(p)
    BY DEF CP!Persisted, C!Persisted, CP!Return, C!Return, CP!Forget, C!Forget, CP!Changes,
       C!Changes, CP!NoFiles, C!NoFiles, CP!NoRows, C!NoRows, CP!disk, C!disk, CP!bounds,
       C!bounds
  <2>18. ASSUME NEW specs PROVE CP!Gc(specs) <=> C!Gc(specs)
    BY DEF CP!Gc, C!Gc, CP!Snaps, C!Snaps, CP!Readable, C!Readable, CP!work, C!work
  <2>19. ASSUME NEW s, NEW f, NEW c PROVE CP!Edit(s, f, c) <=> C!Edit(s, f, c)
    BY DEF CP!Edit, C!Edit, CP!Reading, C!Reading, CP!disk, C!disk, CP!work, C!work
  <2>20. ASSUME NEW p PROVE CP!Crash(p) <=> C!Crash(p)
    BY DEF CP!Crash, C!Crash, CP!Forget, C!Forget, CP!NoFiles, C!NoFiles, CP!NoRows,
       C!NoRows, CP!disk, C!disk
  <2>21. CP!vars = C!vars /\ (CP!vars)' = (C!vars)'
    BY DEF CP!vars, C!vars
  <2>22. CP!Next <=> C!Next
    BY <2>1, <2>2, <2>3, <2>4, <2>5, <2>6, <2>7, <2>8, <2>9, <2>10, <2>11, <2>12, <2>13,
       <2>14, <2>15, <2>16, <2>17, <2>18, <2>19, <2>20 DEF CP!Next, C!Next, CP!Step, C!Step, CP!BuildStep, C!BuildStep
  <2> QED
    BY <2>21, <2>22
<1>3. (CP!NeverFails <=> C!NeverFails) /\ (CP!RefsKept <=> C!RefsKept)
  BY DEF CP!NeverFails, C!NeverFails, CP!RefsKept, C!RefsKept, CP!Quiescent, C!Quiescent
<1> QED
  BY <1>1, <1>2, <1>3

LEMMA CacheAlone == CP!Alone
BY DEF CP!Alone

LEMMA CacheAssumed == CP!IndexCacheAssumption /\ CP!MarksApart
BY CacheParts, CacheMarks
DEF CP!IndexCacheAssumption, CP!MarksApart, CP!Graphs, C!Graphs, CP!Results, C!Results,
    CP!Snaps, C!Snaps

\* One process finds its own cache whole, wherever earlier calls of it died.
THEOREM NeverFailsAlways == PartsSpec => []NeverFails
<1>1. CP!Spec => []CP!NeverFails
  BY CP!NeverFailsAlways, CacheAlone, CacheAssumed
<1>2. ~(part = "cache") /\ [PartsNext]_partsVars => ~(part = "cache")'
  BY OtherPart
<1> QED
  BY <1>1, <1>2, CacheSame, CachePart, PTL DEF PartsSpec, CP!Spec, NeverFails

\* The snapshot that a ref names outlives eviction.
THEOREM RefsKeptAlways == PartsSpec => []RefsKept
<1>1. CP!Spec => []CP!RefsKept
  BY CP!RefsKeptAlways, CacheAlone, CacheAssumed
<1>2. ~(part = "cache") /\ [PartsNext]_partsVars => ~(part = "cache")'
  BY OtherPart
<1> QED
  BY <1>1, <1>2, CacheSame, CachePart, PTL DEF PartsSpec, CP!Spec, RefsKept

=============================================================================
