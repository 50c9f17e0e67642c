--------------------------- MODULE Answers_proofs ---------------------------
(* Theorems about what is answered without an index, for every value of the  *)
(* constants: the parts of a document, the pages of a scope, and the answers *)
(* to tasks.                                                                 *)
EXTENDS Knowledge, FiniteSetTheorems, SequenceTheorems, WellFoundedInduction, TLAPS

------------------------------------------------------------------------------
(* A behaviour of the parts is a behaviour of the part it explores. *)

LEMMA OtherPart ==
    ASSUME NEW p
    PROVE  ~(part = p) /\ [PartsNext]_partsVars => ~(part = p)'
BY DEF PartsNext, partsVars

LEMMA ExplorePart ==
    /\ PartsInit /\ part = "explore" => E!Init
    /\ part = "explore" /\ [PartsNext]_partsVars => [E!Next]_(E!vars) /\ (part = "explore")'
BY DEF PartsInit, PartsNext, partsVars, exploreVars, E!vars, E!answerVars, E!packVars

------------------------------------------------------------------------------
(* Sequences.  What recursion defines is there, and is what the lemmas say,  *)
(* by induction on numbers.                                                  *)

\* Induction, for a set of numbers.
LEMMA LeastOf ==
    ASSUME NEW T \in SUBSET Nat, T # {}
    PROVE  \E n \in T : \A m \in T : n <= m
<1>1. PICK R : R = OpToRel(<, Nat)
  OBVIOUS
<1>2. IsWellFoundedOn(R, Nat)
  BY <1>1, NatLessThanWellFounded
<1>3. R = {p \in Nat \X Nat : p[1] < p[2]}
  BY <1>1 DEF OpToRel
<1>4. PICK n \in T : \A m \in T : <<m, n>> \notin R
  BY <1>2, WFMin
<1>5. ASSUME NEW m \in T PROVE n <= m
  <2>1. ~(m < n)
    BY <1>3, <1>4
  <2> QED  BY <2>1
<1> QED  BY <1>5

LEMMA Counting ==
    ASSUME NEW T \in SUBSET Nat, 0 \in T, \A n \in T : n + 1 \in T
    PROVE  T = Nat
<1> SUFFICES ASSUME Nat \ T # {} PROVE FALSE
  OBVIOUS
<1>1. PICK n \in Nat \ T : \A m \in Nat \ T : n <= m
  BY LeastOf
<1>2. n - 1 \in T
  BY <1>1
<1> QED  BY <1>1, <1>2

\* A sequence and an element at its end.
LEMMA Appended ==
    ASSUME NEW S, NEW s \in Seq(S), NEW e \in S
    PROVE  /\ Append(s, e) \in Seq(S) /\ Append(s, e) # <<>>
           /\ G!Range(Append(s, e)) = G!Range(s) \cup {e}
           /\ G!IsInjective(s) /\ e \notin G!Range(s) => G!IsInjective(Append(s, e))
<1>1. /\ Append(s, e) \in Seq(S) /\ Len(Append(s, e)) = Len(s) + 1
      /\ \A i \in 1..Len(s) : Append(s, e)[i] = s[i]
      /\ Append(s, e)[Len(s) + 1] = e
  BY AppendProperties
<1>2. Len(s) \in Nat /\ DOMAIN s = 1..Len(s) /\ DOMAIN Append(s, e) = 1..(Len(s) + 1)
  BY <1>1, LenProperties
<1>3. G!Range(Append(s, e)) = G!Range(s) \cup {e}
  BY <1>1, <1>2 DEF G!Range
<1>4. ASSUME G!IsInjective(s), e \notin G!Range(s),
             NEW i \in DOMAIN Append(s, e), NEW j \in DOMAIN Append(s, e),
             Append(s, e)[i] = Append(s, e)[j]
      PROVE  i = j
  BY <1>1, <1>2, <1>4 DEF G!IsInjective, G!Range
<1> QED  BY <1>1, <1>2, <1>3, <1>4, EmptySeq DEF G!IsInjective

LEMMA ConcatAre ==
    ASSUME NEW S, NEW s \in Seq(S), NEW t \in Seq(S)
    PROVE  /\ s \o t \in Seq(S)
           /\ G!Range(s \o t) = G!Range(s) \cup G!Range(t)
           /\ G!IsInjective(s) /\ G!IsInjective(t) /\ G!Range(s) \cap G!Range(t) = {} =>
                G!IsInjective(s \o t)
<1>1. /\ s \o t \in Seq(S) /\ Len(s \o t) = Len(s) + Len(t)
      /\ \A i \in 1..(Len(s) + Len(t)) :
           (s \o t)[i] = IF i <= Len(s) THEN s[i] ELSE t[i - Len(s)]
  BY ConcatProperties
<1>2. PICK u : u = s \o t
  OBVIOUS
<1>3. /\ Len(s) \in Nat /\ Len(t) \in Nat /\ DOMAIN s = 1..Len(s) /\ DOMAIN t = 1..Len(t)
      /\ DOMAIN u = 1..(Len(s) + Len(t))
  BY <1>1, <1>2, LenProperties
<1>4. /\ \A i \in 1..Len(s) : i \in DOMAIN u /\ u[i] = s[i]
      /\ \A j \in 1..Len(t) : Len(s) + j \in DOMAIN u /\ u[Len(s) + j] = t[j]
  BY <1>1, <1>2, <1>3
<1>5. \A i \in DOMAIN u : \/ i \in 1..Len(s)
                          \/ \E j \in 1..Len(t) : i = Len(s) + j
  <2>1. ASSUME NEW i \in DOMAIN u, i \notin 1..Len(s) PROVE \E j \in 1..Len(t) : i = Len(s) + j
    <3>1. i - Len(s) \in 1..Len(t) /\ i = Len(s) + (i - Len(s))
      BY <1>3, <2>1
    <3> QED  BY <3>1
  <2> QED  BY <2>1
<1>6. /\ \A x : x \in G!Range(s) <=> \E i \in 1..Len(s) : s[i] = x
      /\ \A x : x \in G!Range(t) <=> \E j \in 1..Len(t) : t[j] = x
      /\ \A x : x \in G!Range(u) <=> \E k \in DOMAIN u : u[k] = x
  BY <1>3 DEF G!Range
<1>7. G!Range(u) = G!Range(s) \cup G!Range(t)
  <2>1. ASSUME NEW x \in G!Range(u) PROVE x \in G!Range(s) \cup G!Range(t)
    <3>1. PICK k \in DOMAIN u : u[k] = x
      BY <1>6, <2>1
    <3>2. CASE k \in 1..Len(s)
      <4>1. s[k] = x
        BY <1>4, <3>1, <3>2
      <4> QED  BY <1>6, <3>2, <4>1
    <3>3. CASE k \notin 1..Len(s)
      <4>1. PICK j \in 1..Len(t) : k = Len(s) + j
        BY <1>5, <3>1, <3>3
      <4>2. t[j] = x
        BY <1>4, <3>1, <4>1
      <4> QED  BY <1>6, <4>1, <4>2
    <3> QED  BY <3>2, <3>3
  <2>2. ASSUME NEW x \in G!Range(s) \cup G!Range(t) PROVE x \in G!Range(u)
    BY <1>4, <1>6, <2>2
  <2> QED  BY <2>1, <2>2
<1>8. ASSUME G!IsInjective(s), G!IsInjective(t), G!Range(s) \cap G!Range(t) = {},
             NEW i \in DOMAIN u, NEW j \in DOMAIN u, u[i] = u[j]
      PROVE  i = j
  <2>1. /\ \A k, l \in 1..Len(s) : s[k] = s[l] => k = l
        /\ \A k, l \in 1..Len(t) : t[k] = t[l] => k = l
    BY <1>3, <1>8 DEF G!IsInjective
  <2>2. \A k \in 1..Len(s), l \in 1..Len(t) : s[k] # t[l]
    BY <1>6, <1>8
  <2>3. CASE i \in 1..Len(s)
    BY <1>4, <1>5, <1>8, <2>1, <2>2, <2>3
  <2>4. CASE i \notin 1..Len(s)
    <3>1. PICK k \in 1..Len(t) : i = Len(s) + k
      BY <1>5, <2>4
    <3>2. u[i] = t[k]
      BY <1>4, <3>1
    <3>3. j \notin 1..Len(s)
      BY <1>4, <1>8, <2>2, <3>2
    <3>4. PICK l \in 1..Len(t) : j = Len(s) + l
      BY <1>5, <3>3
    <3>5. u[j] = t[l]
      BY <1>4, <3>4
    <3> QED  BY <1>8, <2>1, <3>1, <3>2, <3>4, <3>5
  <2> QED  BY <2>3, <2>4
<1>9. G!IsInjective(u) <=> \A i, j \in DOMAIN u : u[i] = u[j] => i = j
  BY DEF G!IsInjective
<1> QED  BY <1>1, <1>2, <1>7, <1>8, <1>9

LEMMA CardinalityIs == \A S : G!Cardinality(S) = Cardinality(S)
BY DEF G!Cardinality, Cardinality, G!IsFiniteSet, IsFiniteSet

\* A sequence, of whatever is in it.
Listing(s) == s \in Seq(G!Range(s))

LEMMA ListingFacts ==
    ASSUME NEW A, NEW s \in Seq(A)
    PROVE  /\ Listing(s) /\ G!Range(s) \subseteq A
           /\ Len(s) \in Nat /\ DOMAIN s = 1..Len(s)
           /\ \A x : x \in G!Range(s) <=> \E i \in 1..Len(s) : s[i] = x
<1>1. Len(s) \in Nat /\ DOMAIN s = 1..Len(s) /\ s \in [1..Len(s) -> A]
  BY LenProperties
<1>2. \A x : x \in G!Range(s) <=> \E i \in 1..Len(s) : s[i] = x
  BY <1>1 DEF G!Range
<1>3. s \in [1..Len(s) -> G!Range(s)]
  BY <1>1, <1>2
<1>4. s \in Seq(G!Range(s))
  BY <1>1, <1>3
<1> QED  BY <1>1, <1>2, <1>4 DEF Listing

LEMMA WithinFacts ==
    ASSUME NEW A, NEW s, Listing(s), G!Range(s) \subseteq A
    PROVE  s \in Seq(A)
BY SeqMonotonic DEF Listing

LEMMA MadeFacts ==
    ASSUME NEW n \in Nat, NEW f, f = [k \in 1..n |-> f[k]]
    PROVE  /\ Listing(f) /\ Len(f) = n
           /\ \A x : x \in G!Range(f) <=> \E k \in 1..n : f[k] = x
<1>1. DOMAIN f = 1..n
  OBVIOUS
<1>2. \A x : x \in G!Range(f) <=> \E k \in 1..n : f[k] = x
  BY <1>1 DEF G!Range
<1>3. f \in [1..n -> G!Range(f)]
  BY <1>1, <1>2
<1>4. f \in Seq(G!Range(f)) /\ Len(f) = n
  BY <1>3
<1> QED  BY <1>2, <1>4 DEF Listing

LEMMA EmptyFacts == Listing(<<>>) /\ G!Range(<<>>) = {}
<1>1. DOMAIN <<>> = {}
  OBVIOUS
<1> QED  BY <1>1, EmptySeq DEF Listing, G!Range

LEMMA OneFacts ==
    ASSUME NEW r
    PROVE  Listing(<<r>>) /\ \A x : x \in G!Range(<<r>>) <=> x = r
<1>1. <<r>> \in Seq({r})
  OBVIOUS
<1>2. DOMAIN <<r>> = {1} /\ <<r>>[1] = r
  OBVIOUS
<1>3. \A x : x \in G!Range(<<r>>) <=> x = r
  BY <1>2 DEF G!Range
<1> QED  BY <1>1, <1>3, ListingFacts

LEMMA JoinFacts ==
    ASSUME NEW s, NEW t, Listing(s), Listing(t)
    PROVE  Listing(s \o t) /\ G!Range(s \o t) = G!Range(s) \cup G!Range(t)
<1>1. PICK A : A = G!Range(s) \cup G!Range(t)
  OBVIOUS
<1>2. s \in Seq(A) /\ t \in Seq(A)
  BY <1>1, WithinFacts
<1>3. s \o t \in Seq(A) /\ G!Range(s \o t) = G!Range(s) \cup G!Range(t)
  BY <1>2, ConcatAre
<1> QED  BY <1>3, ListingFacts

------------------------------------------------------------------------------
(* The lines of a document *)

LEMMA DocumentPart ==
    /\ PartsInit /\ part = "document" => M!Init
    /\ part = "document" /\ [PartsNext]_partsVars => [M!Next]_(M!vars) /\ (part = "document")'
BY DEF PartsInit, PartsNext, partsVars, documentVars, M!vars

LEMMA AppendFacts ==
    ASSUME NEW s, Listing(s), NEW e
    PROVE  /\ Listing(Append(s, e)) /\ Len(Append(s, e)) = Len(s) + 1
           /\ \A n \in 1..Len(s) : Append(s, e)[n] = s[n]
           /\ Append(s, e)[Len(s) + 1] = e
<1>1. PICK A : A = G!Range(s) \cup {e}
  OBVIOUS
<1>2. s \in Seq(A) /\ e \in A
  BY <1>1, WithinFacts
<1>3. Append(s, e) \in Seq(A)
  BY <1>2, AppendProperties
<1>4. /\ Len(Append(s, e)) = Len(s) + 1
      /\ \A n \in 1..Len(s) : Append(s, e)[n] = s[n]
      /\ Append(s, e)[Len(s) + 1] = e
  BY <1>2, AppendProperties
<1> QED  BY <1>3, <1>4, ListingFacts

LEMMA ListingLens ==
    ASSUME NEW s, Listing(s)
    PROVE  Len(s) \in Nat /\ DOMAIN s = 1..Len(s)
BY LenProperties DEF Listing

LEMMA LeastIs ==
    ASSUME NEW T \in SUBSET Nat, T # {}
    PROVE  M!Min(T) \in T /\ \A n \in T : M!Min(T) <= n
<1>1. \E m \in T : \A n \in T : m <= n
  BY LeastOf
<1> QED  BY <1>1 DEF M!Min

LEMMA GreatestIs ==
    ASSUME NEW T \in SUBSET Nat, NEW n \in T, \A m \in T : m <= n
    PROVE  M!Max(T) = n
<1>1. \E x \in T : \A y \in T : x >= y
  OBVIOUS
<1>2. M!Max(T) \in T /\ \A m \in T : M!Max(T) >= m
  BY <1>1 DEF M!Max
<1>3. M!Max(T) \in Nat /\ n \in Nat /\ M!Max(T) <= n /\ M!Max(T) >= n
  BY <1>2
<1> QED  BY <1>3

LEMMA ScannedUpTo ==
    ASSUME NEW lines, Len(lines) \in Nat
    PROVE  \E f : /\ f = [i \in 0..Len(lines) |->
                            IF i = 0 THEN [headings |-> <<>>, fences |-> <<>>, next |-> 1]
                            ELSE M!ScanLine(lines, f[i - 1], i)]
                  /\ M!Scanned(lines) = f[Len(lines)]
<1> DEFINE First == [headings |-> <<>>, fences |-> <<>>, next |-> 1]
           Upto(k) == \E f : f = [i \in 0..k |->
                            IF i = 0 THEN First ELSE M!ScanLine(lines, f[i - 1], i)]
<1>1. PICK T : T = {k \in Nat : Upto(k)}
  OBVIOUS
<1>2. Upto(0)
  <2>1. PICK f : f = [i \in 0..0 |-> First]
    OBVIOUS
  <2>2. f = [i \in 0..0 |-> IF i = 0 THEN First ELSE M!ScanLine(lines, f[i - 1], i)]
    BY <2>1
  <2> QED  BY <2>2
<1>3. ASSUME NEW k \in Nat, Upto(k) PROVE Upto(k + 1)
  <2>1. PICK f : f = [i \in 0..k |-> IF i = 0 THEN First ELSE M!ScanLine(lines, f[i - 1], i)]
    BY <1>3
  <2>2. PICK g : g = [i \in 0..(k + 1) |->
                       IF i <= k THEN f[i] ELSE M!ScanLine(lines, f[k], k + 1)]
    OBVIOUS
  <2>3. ASSUME NEW i \in 0..(k + 1)
        PROVE  g[i] = IF i = 0 THEN First ELSE M!ScanLine(lines, g[i - 1], i)
    <3>1. CASE i <= k /\ i # 0
      <4>1. g[i] = f[i] /\ g[i - 1] = f[i - 1] /\ i \in 0..k
        BY <2>2, <3>1
      <4> QED  BY <2>1, <3>1, <4>1
    <3>2. CASE i = k + 1
      <4>1. g[i] = M!ScanLine(lines, f[k], k + 1) /\ g[i - 1] = f[k]
        BY <2>2, <3>2
      <4> QED  BY <3>2, <4>1
    <3>3. CASE i = 0
      <4>1. g[0] = f[0] /\ f[0] = First
        BY <2>1, <2>2
      <4> QED  BY <3>3, <4>1
    <3> QED  BY <3>1, <3>2, <3>3
  <2>4. g = [i \in 0..(k + 1) |-> g[i]]
    BY <2>2
  <2>5. g = [i \in 0..(k + 1) |-> IF i = 0 THEN First ELSE M!ScanLine(lines, g[i - 1], i)]
    BY <2>3, <2>4
  <2> QED  BY <2>5
<1>4. T = Nat
  <2> HIDE DEF Upto
  <2>1. T \in SUBSET Nat /\ 0 \in T
    BY <1>1, <1>2
  <2>2. \A k \in T : k + 1 \in T
    BY <1>1, <1>3
  <2> QED  BY <2>1, <2>2, Counting
<1>5. Upto(Len(lines))
  <2> HIDE DEF Upto
  <2> QED  BY <1>1, <1>4
<1> QED  BY <1>5, Zenon DEF M!Scanned

\* What the scan has found up to where it goes on: headings and blocks, in
\* their order, apart from each other, and every heading that is marked.
Found(lines, r) ==
    /\ Listing(r.headings) /\ Listing(r.fences)
    /\ \A n \in 1..Len(r.headings) :
         /\ r.headings[n].line \in 1..Len(lines) /\ r.headings[n].line < r.next
         /\ r.headings[n].level \in Nat
    /\ \A m, n \in 1..Len(r.headings) : m < n => r.headings[m].line < r.headings[n].line
    /\ \A n \in 1..Len(r.fences) :
         /\ r.fences[n].start \in 1..Len(lines) /\ r.fences[n].end \in 1..Len(lines)
         /\ r.fences[n].start <= r.fences[n].end /\ r.fences[n].end < r.next
    /\ \A m, n \in 1..Len(r.fences) : m < n => r.fences[m].end < r.fences[n].start
    /\ \A m \in 1..Len(r.headings), n \in 1..Len(r.fences) :
         r.headings[m].line \notin r.fences[n].start..r.fences[n].end
    /\ \A k \in 1..Len(lines) :
         k < r.next /\ lines[k].t = "atx" =>
           \/ \E n \in 1..Len(r.headings) : r.headings[n].line = k
           \/ \E n \in 1..Len(r.fences) : k \in r.fences[n].start..r.fences[n].end
FoundUpTo(lines, r, i) == Found(lines, r) /\ r.next \in Nat /\ r.next > i

LEMMA FoundNothing ==
    ASSUME NEW lines, Len(lines) \in Nat
    PROVE  FoundUpTo(lines, [headings |-> <<>>, fences |-> <<>>, next |-> 1], 0)
<1>1. PICK r : r = [headings |-> <<>>, fences |-> <<>>, next |-> 1]
  OBVIOUS
<1>2. r.headings = <<>> /\ r.fences = <<>> /\ r.next = 1 /\ Len(<<>>) = 0
  BY <1>1
<1>3. \A k \in 1..Len(lines) : ~(k < r.next)
  BY <1>2
<1> QED  BY <1>1, <1>2, <1>3, EmptyFacts DEF FoundUpTo, Found

LEMMA FenceEndFacts ==
    ASSUME NEW lines, Len(lines) \in Nat, NEW i \in 1..Len(lines)
    PROVE  M!FenceEnd(lines, i) \in i..Len(lines)
<1>1. PICK T : T = {Len(lines)} \cup {k \in (i + 1)..Len(lines) : M!Closes(lines[i], lines[k])}
  OBVIOUS
<1>2. T \in SUBSET Nat /\ T # {}
  BY <1>1
<1>3. M!Min(T) \in T
  BY <1>2, LeastIs
<1> QED  BY <1>1, <1>3 DEF M!FenceEnd

\* One more heading.
LEMMA FoundHeading ==
    ASSUME NEW lines, Len(lines) \in Nat, NEW r, NEW i \in 1..Len(lines),
           FoundUpTo(lines, r, i - 1), r.next <= i, NEW level \in Nat, NEW size \in {1, 2},
           \A k \in 1..Len(lines) : i < k /\ k < i + size => lines[k].t # "atx",
           NEW q, q.headings = Append(r.headings, [line |-> i, level |-> level, title |-> lines[i].title]),
           q.fences = r.fences, q.next = i + size
    PROVE  FoundUpTo(lines, q, i)
<1>1. PICK e : e = [line |-> i, level |-> level, title |-> lines[i].title]
  OBVIOUS
<1>2. e.line = i /\ e.level = level
  BY <1>1
<1>3. /\ Listing(r.headings) /\ Listing(r.fences) /\ Len(r.headings) \in Nat /\ Len(r.fences) \in Nat
      /\ r.next \in Nat /\ r.next = i
  BY ListingLens DEF FoundUpTo, Found
<1>4. /\ Listing(q.headings) /\ Len(q.headings) = Len(r.headings) + 1
      /\ \A n \in 1..Len(r.headings) : q.headings[n] = r.headings[n]
      /\ q.headings[Len(r.headings) + 1] = e
  BY <1>1, <1>3, AppendFacts
<1>5. \A n \in 1..Len(r.headings) :
        /\ r.headings[n].line \in 1..Len(lines) /\ r.headings[n].line < i
        /\ r.headings[n].level \in Nat
  BY <1>3 DEF FoundUpTo, Found
<1>6. \A n \in 1..Len(q.headings) :
        n # Len(r.headings) + 1 => n \in 1..Len(r.headings) /\ q.headings[n] = r.headings[n]
  BY <1>3, <1>4
<1>7. ASSUME NEW n \in 1..Len(q.headings)
      PROVE  /\ q.headings[n].line \in 1..Len(lines) /\ q.headings[n].line < q.next
             /\ q.headings[n].level \in Nat
  <2>1. CASE n = Len(r.headings) + 1
    BY <1>2, <1>4, <2>1
  <2>2. CASE n # Len(r.headings) + 1
    BY <1>5, <1>6, <2>2
  <2> QED  BY <2>1, <2>2
<1>8. ASSUME NEW m \in 1..Len(q.headings), NEW n \in 1..Len(q.headings), m < n
      PROVE  q.headings[m].line < q.headings[n].line
  <2>1. m \in 1..Len(r.headings) /\ q.headings[m] = r.headings[m]
    BY <1>3, <1>4, <1>8
  <2>2. CASE n = Len(r.headings) + 1
    BY <1>2, <1>4, <1>5, <2>1, <2>2
  <2>3. CASE n # Len(r.headings) + 1
    <3>1. n \in 1..Len(r.headings) /\ q.headings[n] = r.headings[n]
      BY <1>6, <2>3
    <3>2. \A k, l \in 1..Len(r.headings) : k < l => r.headings[k].line < r.headings[l].line
      BY DEF FoundUpTo, Found
    <3> QED  BY <1>8, <2>1, <3>1, <3>2
  <2> QED  BY <2>2, <2>3
<1>9. \A n \in 1..Len(r.fences) :
        /\ r.fences[n].start \in 1..Len(lines) /\ r.fences[n].end \in 1..Len(lines)
        /\ r.fences[n].start <= r.fences[n].end /\ r.fences[n].end < i
  BY <1>3 DEF FoundUpTo, Found
<1>10. ASSUME NEW m \in 1..Len(q.headings), NEW n \in 1..Len(q.fences)
       PROVE  q.headings[m].line \notin q.fences[n].start..q.fences[n].end
  <2>1. CASE m # Len(r.headings) + 1
    <3>1. m \in 1..Len(r.headings) /\ q.headings[m] = r.headings[m]
      BY <1>6, <2>1
    <3> QED  BY <3>1 DEF FoundUpTo, Found
  <2>2. CASE m = Len(r.headings) + 1
    <3>1. q.headings[m].line = i /\ q.fences[n].end < i /\ q.fences[n].end \in 1..Len(lines)
      BY <1>2, <1>4, <1>9, <2>2
    <3>2. q.fences[n].start \in 1..Len(lines)
      BY <1>9
    <3> QED  BY <3>1, <3>2
  <2> QED  BY <2>1, <2>2
<1>11. ASSUME NEW k \in 1..Len(lines), k < q.next, lines[k].t = "atx"
       PROVE  \/ \E n \in 1..Len(q.headings) : q.headings[n].line = k
              \/ \E n \in 1..Len(q.fences) : k \in q.fences[n].start..q.fences[n].end
  <2>1. CASE k < i
    <3>1. \/ \E n \in 1..Len(r.headings) : r.headings[n].line = k
          \/ \E n \in 1..Len(r.fences) : k \in r.fences[n].start..r.fences[n].end
      BY <1>3, <1>11, <2>1 DEF FoundUpTo, Found
    <3>2. \A n \in 1..Len(r.headings) : n \in 1..Len(q.headings) /\ q.headings[n] = r.headings[n]
      BY <1>3, <1>4
    <3> QED  BY <3>1, <3>2
  <2>2. CASE k = i
    <3>1. Len(r.headings) + 1 \in 1..Len(q.headings)
      BY <1>3, <1>4
    <3> QED  BY <1>2, <1>4, <2>2, <3>1
  <2>3. CASE i < k
    BY <1>11, <2>3
  <2> QED  BY <2>1, <2>2, <2>3
<1>12. \A m, n \in 1..Len(q.fences) : m < n => q.fences[m].end < q.fences[n].start
  BY DEF FoundUpTo, Found
<1>13. ASSUME NEW n \in 1..Len(q.fences)
       PROVE  /\ q.fences[n].start \in 1..Len(lines) /\ q.fences[n].end \in 1..Len(lines)
              /\ q.fences[n].start <= q.fences[n].end /\ q.fences[n].end < q.next
  BY <1>3, <1>9
<1>14. Found(lines, q)
  BY <1>3, <1>4, <1>7, <1>8, <1>10, <1>11, <1>12, <1>13 DEF Found
<1> QED  BY <1>14 DEF FoundUpTo

\* One more block.
LEMMA FoundFence ==
    ASSUME NEW lines, Len(lines) \in Nat, NEW r, NEW i \in 1..Len(lines),
           FoundUpTo(lines, r, i - 1), r.next <= i, NEW to \in i..Len(lines),
           NEW q, q.fences = Append(r.fences, [start |-> i, end |-> to]),
           q.headings = r.headings, q.next = to + 1
    PROVE  FoundUpTo(lines, q, i)
<1>1. PICK e : e = [start |-> i, end |-> to]
  OBVIOUS
<1>2. e.start = i /\ e.end = to
  BY <1>1
<1>3. /\ Listing(r.headings) /\ Listing(r.fences) /\ Len(r.headings) \in Nat /\ Len(r.fences) \in Nat
      /\ r.next \in Nat /\ r.next = i
  BY ListingLens DEF FoundUpTo, Found
<1>4. /\ Listing(q.fences) /\ Len(q.fences) = Len(r.fences) + 1
      /\ \A n \in 1..Len(r.fences) : q.fences[n] = r.fences[n]
      /\ q.fences[Len(r.fences) + 1] = e
  BY <1>1, <1>3, AppendFacts
<1>5. \A n \in 1..Len(r.fences) :
        /\ r.fences[n].start \in 1..Len(lines) /\ r.fences[n].end \in 1..Len(lines)
        /\ r.fences[n].start <= r.fences[n].end /\ r.fences[n].end < i
  BY <1>3 DEF FoundUpTo, Found
<1>6. \A n \in 1..Len(q.fences) :
        n # Len(r.fences) + 1 => n \in 1..Len(r.fences) /\ q.fences[n] = r.fences[n]
  BY <1>3, <1>4
<1>7. ASSUME NEW n \in 1..Len(q.fences)
      PROVE  /\ q.fences[n].start \in 1..Len(lines) /\ q.fences[n].end \in 1..Len(lines)
             /\ q.fences[n].start <= q.fences[n].end /\ q.fences[n].end < q.next
  <2>1. CASE n = Len(r.fences) + 1
    BY <1>2, <1>4, <2>1
  <2>2. CASE n # Len(r.fences) + 1
    BY <1>5, <1>6, <2>2
  <2> QED  BY <2>1, <2>2
<1>8. ASSUME NEW m \in 1..Len(q.fences), NEW n \in 1..Len(q.fences), m < n
      PROVE  q.fences[m].end < q.fences[n].start
  <2>1. m \in 1..Len(r.fences) /\ q.fences[m] = r.fences[m]
    BY <1>3, <1>4, <1>8
  <2>2. CASE n = Len(r.fences) + 1
    BY <1>2, <1>4, <1>5, <2>1, <2>2
  <2>3. CASE n # Len(r.fences) + 1
    <3>1. n \in 1..Len(r.fences) /\ q.fences[n] = r.fences[n]
      BY <1>6, <2>3
    <3>2. \A k, l \in 1..Len(r.fences) : k < l => r.fences[k].end < r.fences[l].start
      BY DEF FoundUpTo, Found
    <3> QED  BY <1>8, <2>1, <3>1, <3>2
  <2> QED  BY <2>2, <2>3
<1>9. \A n \in 1..Len(r.headings) :
        /\ r.headings[n].line \in 1..Len(lines) /\ r.headings[n].line < i
        /\ r.headings[n].level \in Nat
  BY <1>3 DEF FoundUpTo, Found
<1>10. ASSUME NEW m \in 1..Len(q.headings), NEW n \in 1..Len(q.fences)
       PROVE  q.headings[m].line \notin q.fences[n].start..q.fences[n].end
  <2>1. CASE n # Len(r.fences) + 1
    <3>1. n \in 1..Len(r.fences) /\ q.fences[n] = r.fences[n]
      BY <1>6, <2>1
    <3> QED  BY <3>1 DEF FoundUpTo, Found
  <2>2. CASE n = Len(r.fences) + 1
    <3>1. q.fences[n].start = i /\ q.fences[n].end = to
      BY <1>2, <1>4, <2>2
    <3>2. q.headings[m].line < i /\ q.headings[m].line \in 1..Len(lines)
      BY <1>9
    <3>3. q.headings[m].line \notin i..to
      BY <3>2
    <3> QED  BY <3>1, <3>3
  <2> QED  BY <2>1, <2>2
<1>11. ASSUME NEW k \in 1..Len(lines), k < q.next, lines[k].t = "atx"
       PROVE  \/ \E n \in 1..Len(q.headings) : q.headings[n].line = k
              \/ \E n \in 1..Len(q.fences) : k \in q.fences[n].start..q.fences[n].end
  <2>1. CASE k < i
    <3>1. \/ \E n \in 1..Len(r.headings) : r.headings[n].line = k
          \/ \E n \in 1..Len(r.fences) : k \in r.fences[n].start..r.fences[n].end
      BY <1>3, <1>11, <2>1 DEF FoundUpTo, Found
    <3>2. \A n \in 1..Len(r.fences) : n \in 1..Len(q.fences) /\ q.fences[n] = r.fences[n]
      BY <1>3, <1>4
    <3> QED  BY <3>1, <3>2
  <2>2. CASE ~(k < i)
    <3>1. Len(r.fences) + 1 \in 1..Len(q.fences)
      BY <1>3, <1>4
    <3>2. k \in i..to
      BY <1>11, <2>2
    <3> QED  BY <1>2, <1>4, <3>1, <3>2
  <2> QED  BY <2>1, <2>2
<1>12. \A m, n \in 1..Len(q.headings) : m < n => q.headings[m].line < q.headings[n].line
  BY DEF FoundUpTo, Found
<1>13. ASSUME NEW n \in 1..Len(q.headings)
      PROVE  /\ q.headings[n].line \in 1..Len(lines) /\ q.headings[n].line < q.next
             /\ q.headings[n].level \in Nat
  BY <1>9
<1>14. Found(lines, q)
  BY <1>3, <1>4, <1>7, <1>8, <1>10, <1>11, <1>12, <1>13 DEF Found
<1> QED  BY <1>14 DEF FoundUpTo

\* A line that nothing begins at.
LEMMA FoundPlain ==
    ASSUME NEW lines, Len(lines) \in Nat, NEW r, NEW i \in 1..Len(lines),
           FoundUpTo(lines, r, i - 1), r.next <= i, lines[i].t # "atx",
           NEW q, q.headings = r.headings, q.fences = r.fences, q.next = i + 1
    PROVE  FoundUpTo(lines, q, i)
<1>1. r.next = i
  BY DEF FoundUpTo
<1>2. \A n \in 1..Len(r.headings) :
        /\ r.headings[n].line \in 1..Len(lines) /\ r.headings[n].line < i + 1
        /\ r.headings[n].level \in Nat
  BY <1>1 DEF FoundUpTo, Found
<1>3. \A n \in 1..Len(r.fences) :
        /\ r.fences[n].start \in 1..Len(lines) /\ r.fences[n].end \in 1..Len(lines)
        /\ r.fences[n].start <= r.fences[n].end /\ r.fences[n].end < i + 1
  BY <1>1 DEF FoundUpTo, Found
<1>4. ASSUME NEW k \in 1..Len(lines), k < i + 1, lines[k].t = "atx"
      PROVE  \/ \E n \in 1..Len(r.headings) : r.headings[n].line = k
             \/ \E n \in 1..Len(r.fences) : k \in r.fences[n].start..r.fences[n].end
  <2>1. k < i
    BY <1>4
  <2> QED  BY <1>1, <1>4, <2>1 DEF FoundUpTo, Found
<1>5. /\ Listing(r.headings) /\ Listing(r.fences)
      /\ \A m, n \in 1..Len(r.headings) : m < n => r.headings[m].line < r.headings[n].line
      /\ \A m, n \in 1..Len(r.fences) : m < n => r.fences[m].end < r.fences[n].start
      /\ \A m \in 1..Len(r.headings), n \in 1..Len(r.fences) :
           r.headings[m].line \notin r.fences[n].start..r.fences[n].end
  BY DEF FoundUpTo, Found
<1>6. Found(lines, q)
  BY <1>2, <1>3, <1>4, <1>5 DEF Found
<1> QED  BY <1>6 DEF FoundUpTo

LEMMA FoundNext ==
    ASSUME NEW lines \in Documents, NEW r, NEW i \in 1..Len(lines), FoundUpTo(lines, r, i - 1),
           r = [headings |-> r.headings, fences |-> r.fences, next |-> r.next]
    PROVE  /\ FoundUpTo(lines, M!ScanLine(lines, r, i), i)
           /\ M!ScanLine(lines, r, i) = [headings |-> M!ScanLine(lines, r, i).headings,
                                        fences |-> M!ScanLine(lines, r, i).fences,
                                        next |-> M!ScanLine(lines, r, i).next]
<1>1. /\ Len(lines) \in Nat /\ DOMAIN lines = 1..Len(lines)
      /\ \A k \in 1..Len(lines) : lines[k].t \in {"atx", "under"} => lines[k].level \in Nat
  BY DocumentParts, LenProperties DEF M!MarkdownAssumption
<1>2. PICK q : q = M!ScanLine(lines, r, i)
  OBVIOUS
<1>3. r.next \in Nat
  BY DEF FoundUpTo
<1>4. CASE i < r.next
  <2>1. q = r
    BY <1>2, <1>4, Zenon DEF M!ScanLine
  <2> QED  BY <1>2, <1>4, <2>1 DEF FoundUpTo
<1>5. CASE ~(i < r.next) /\ lines[i].t = "fence"
  <2>1. PICK to : to = M!FenceEnd(lines, i)
    OBVIOUS
  <2>2. q = [r EXCEPT !.fences = Append(@, [start |-> i, end |-> to]), !.next = to + 1]
    BY <1>2, <1>5, <2>1, Zenon DEF M!ScanLine
  <2>3. /\ q.fences = Append(r.fences, [start |-> i, end |-> to])
        /\ q.headings = r.headings /\ q.next = to + 1
        /\ q = [headings |-> q.headings, fences |-> q.fences, next |-> q.next]
    BY <2>2
  <2>4. FoundUpTo(lines, q, i)
    <3>1. to \in i..Len(lines)
      BY <1>1, <2>1, FenceEndFacts
    <3>2. r.next <= i
      BY <1>1, <1>3, <1>5
    <3> QED  BY <1>1, <2>3, <3>1, <3>2, FoundFence
  <2> QED  BY <1>2, <2>3, <2>4
<1>6. ASSUME NEW level \in Nat, NEW size \in {1, 2}, ~(i < r.next), q = M!Headed(lines, r, i, level, size),
             \A k \in 1..Len(lines) : i < k /\ k < i + size => lines[k].t # "atx"
      PROVE  /\ FoundUpTo(lines, q, i)
             /\ q = [headings |-> q.headings, fences |-> q.fences, next |-> q.next]
  <2>1. PICK e : e = [line |-> i, level |-> level, title |-> lines[i].title]
    OBVIOUS
  <2>2. q = [r EXCEPT !.headings = Append(@, e), !.next = i + size]
    BY <1>6, <2>1, Zenon DEF M!Headed
  <2>3. /\ q.headings = Append(r.headings, e) /\ q.fences = r.fences /\ q.next = i + size
        /\ q = [headings |-> q.headings, fences |-> q.fences, next |-> q.next]
    BY <2>2
  <2>4. FoundUpTo(lines, q, i)
    <3>1. r.next <= i
      BY <1>1, <1>3, <1>6
    <3>2. q.headings = Append(r.headings, [line |-> i, level |-> level, title |-> lines[i].title])
      BY <2>1, <2>3
    <3> QED  BY <1>1, <1>6, <2>3, <3>1, <3>2, FoundHeading
  <2> QED  BY <2>3, <2>4
<1>7. CASE ~(i < r.next) /\ lines[i].t = "atx"
  <2>1. q = M!Headed(lines, r, i, lines[i].level, 1)
    BY <1>2, <1>7 DEF M!ScanLine
  <2>2. lines[i].level \in Nat
    BY <1>1, <1>7
  <2>3. \A k \in 1..Len(lines) : ~(i < k /\ k < i + 1)
    BY <1>1
  <2> QED  BY <1>2, <1>6, <1>7, <2>1, <2>2, <2>3
<1>8. CASE ~(i < r.next) /\ lines[i].t # "fence" /\ lines[i].t # "atx" /\ M!IsSetext(lines, i)
  <2>1. q = M!Headed(lines, r, i, lines[i + 1].level, 2)
    BY <1>2, <1>8, Zenon DEF M!ScanLine
  <2>2. i + 1 \in 1..Len(lines) /\ lines[i + 1].t = "under"
    BY <1>1, <1>8 DEF M!IsSetext
  <2>3. \A k \in 1..Len(lines) : i < k /\ k < i + 2 => k = i + 1
    BY <1>1
  <2> QED  BY <1>1, <1>2, <1>6, <1>8, <2>1, <2>2, <2>3
<1>9. CASE ~(i < r.next) /\ lines[i].t # "fence" /\ lines[i].t # "atx" /\ ~M!IsSetext(lines, i)
  <2>1. q = [r EXCEPT !.next = i + 1]
    BY <1>2, <1>9, Zenon DEF M!ScanLine
  <2>2. q.headings = r.headings /\ q.fences = r.fences /\ q.next = i + 1
        /\ q = [headings |-> q.headings, fences |-> q.fences, next |-> q.next]
    BY <2>1
  <2>3. FoundUpTo(lines, q, i)
    BY <1>1, <1>3, <1>9, <2>2, FoundPlain
  <2> QED  BY <1>2, <2>2, <2>3
<1> QED  BY <1>4, <1>5, <1>7, <1>8, <1>9

\* The scan has been at every line when it is over.
LEMMA ScannedFacts ==
    ASSUME NEW lines \in Documents
    PROVE  FoundUpTo(lines, M!Scanned(lines), Len(lines))
<1>1. Len(lines) \in Nat
  BY DocumentParts, LenProperties DEF M!MarkdownAssumption
<1>2. PICK f : /\ f = [i \in 0..Len(lines) |->
                            IF i = 0 THEN [headings |-> <<>>, fences |-> <<>>, next |-> 1]
                            ELSE M!ScanLine(lines, f[i - 1], i)]
               /\ M!Scanned(lines) = f[Len(lines)]
  BY <1>1, ScannedUpTo
<1> DEFINE Good(i) == /\ FoundUpTo(lines, f[i], i)
                      /\ f[i] = [headings |-> f[i].headings, fences |-> f[i].fences, next |-> f[i].next]
<1>3. PICK T : T = {i \in Nat : i <= Len(lines) => Good(i)}
  OBVIOUS
<1>4. 0 \in T
  <2>1. f[0] = [headings |-> <<>>, fences |-> <<>>, next |-> 1]
    BY <1>1, <1>2
  <2>2. FoundUpTo(lines, f[0], 0)
    BY <1>1, <2>1, FoundNothing
  <2>3. f[0] = [headings |-> f[0].headings, fences |-> f[0].fences, next |-> f[0].next]
    BY <2>1
  <2> QED  BY <1>3, <2>2, <2>3
<1>5. ASSUME NEW n \in T PROVE n + 1 \in T
  <2>1. n \in Nat
    BY <1>3
  <2> SUFFICES ASSUME n + 1 <= Len(lines) PROVE Good(n + 1)
    BY <1>3, <2>1
  <2>2. PICK i : i = n + 1
    OBVIOUS
  <2>3. i \in 1..Len(lines) /\ i - 1 = n /\ i # 0 /\ i \in 0..Len(lines)
    BY <1>1, <2>1, <2>2
  <2>4. Good(n)
    <3> HIDE DEF Good
    <3> QED  BY <1>1, <1>3, <2>1
  <2>5. f[i] = M!ScanLine(lines, f[n], i)
    BY <1>2, <2>3
  <2>6. PICK r : r = f[n]
    OBVIOUS
  <2>7. /\ FoundUpTo(lines, r, i - 1)
        /\ r = [headings |-> r.headings, fences |-> r.fences, next |-> r.next]
    BY <2>3, <2>4, <2>6
  <2>8. /\ FoundUpTo(lines, f[i], i)
        /\ f[i] = [headings |-> f[i].headings, fences |-> f[i].fences, next |-> f[i].next]
    BY <2>3, <2>5, <2>6, <2>7, FoundNext
  <2> QED  BY <2>2, <2>8
<1>6. T = Nat
  <2> HIDE DEF Good
  <2> QED  BY <1>3, <1>4, <1>5, Counting
<1>7. Good(Len(lines))
  <2> HIDE DEF Good
  <2> QED  BY <1>1, <1>3, <1>6
<1> QED  BY <1>2, <1>7

------------------------------------------------------------------------------
(* The parts of a document *)

\* Where no line is in it twice, one that is in it is in it once.
LEMMA OneOf ==
    ASSUME NEW S, NEW x, S = {x}
    PROVE  Cardinality(S) = 1
BY FS_Singleton

LEMMA NoneOf == Cardinality({}) = 0
BY FS_EmptySet

LEMMA DocumentCounts == \A S : M!Cardinality(S) = Cardinality(S)
BY DEF M!Cardinality, Cardinality, M!IsFiniteSet, IsFiniteSet

\* Where lines end with newlines only, there is a newline for each but the last.
LEMMA LineCountFacts ==
    ASSUME NEW lines \in Documents, M!NewlinesOnly(lines)
    PROVE  M!LineCount(lines) \in Nat /\ Len(lines) <= M!LineCount(lines)
<1>1. Len(lines) \in Nat /\ DOMAIN lines = 1..Len(lines)
  BY DocumentParts, LenProperties DEF M!MarkdownAssumption
<1>2. PICK T : T = {k \in 1..Len(lines) : lines[k].newline}
  OBVIOUS
<1>3. M!LineCount(lines) = Cardinality(T) + 1
  BY <1>1, <1>2, DocumentCounts DEF M!LineCount
<1>4. IsFiniteSet(T) /\ Cardinality(T) \in Nat
  <2>1. IsFiniteSet(1..Len(lines)) /\ T \subseteq 1..Len(lines)
    BY <1>1, <1>2, FS_Interval
  <2> QED  BY <2>1, FS_Subset, FS_CardinalityType
<1>5. CASE Len(lines) = 0
  BY <1>3, <1>4, <1>5
<1>6. CASE Len(lines) # 0
  <2>1. PICK S : S = 1..(Len(lines) - 1)
    OBVIOUS
  <2>2. S \subseteq T
    BY <1>1, <1>2, <1>6, <2>1 DEF M!NewlinesOnly
  <2>3. Cardinality(S) = Len(lines) - 1
    <3>1. Len(lines) - 1 \in Nat
      BY <1>1, <1>6
    <3> QED  BY <2>1, <3>1, FS_Interval
  <2>4. Cardinality(S) <= Cardinality(T)
    BY <1>4, <2>2, FS_Subset
  <2> QED  BY <1>1, <1>3, <1>4, <2>3, <2>4
<1> QED  BY <1>5, <1>6

LEMMA FencedFacts ==
    ASSUME NEW lines, NEW r, Found(lines, r), NEW k
    PROVE  k \in M!Fenced(r) <=> \E n \in 1..Len(r.fences) : k \in r.fences[n].start..r.fences[n].end
<1>1. DOMAIN r.fences = 1..Len(r.fences)
  BY ListingLens DEF Found
<1> QED  BY <1>1 DEF M!Fenced, M!Range

\* A line that is marked as a heading is one, or it is in a block.
LEMMA MarkedFacts ==
    ASSUME NEW lines \in Documents, NEW r, FoundUpTo(lines, r, Len(lines)),
           NEW k \in 1..Len(lines), k \notin M!Fenced(r),
           \A n \in 1..Len(r.headings) : r.headings[n].line # k
    PROVE  lines[k].t # "atx"
<1>1. Len(lines) \in Nat
  BY DocumentParts, LenProperties DEF M!MarkdownAssumption
<1>2. Found(lines, r) /\ k < r.next
  BY <1>1 DEF FoundUpTo
<1>3. ~\E n \in 1..Len(r.fences) : k \in r.fences[n].start..r.fences[n].end
  BY <1>2, FencedFacts
<1> QED  BY <1>2, <1>3 DEF Found

LEMMA LastBefore ==
    ASSUME NEW N \in Nat, NEW f, NEW k, \E n \in 1..N : f[n].line < k
    PROVE  \E n \in 1..N : f[n].line < k /\ \A m \in 1..N : f[m].line < k => m <= n
<1>1. PICK T : T = {d \in 0..N : N - d \in 1..N /\ f[N - d].line < k}
  OBVIOUS
<1>2. PICK n \in 1..N : f[n].line < k
  OBVIOUS
<1>3. N - n \in 0..N /\ N - (N - n) = n
  BY <1>2
<1>4. N - n \in T /\ T \in SUBSET Nat
  BY <1>1, <1>2, <1>3
<1>5. PICK d \in T : \A e \in T : d <= e
  BY <1>4, LeastOf
<1>6. d \in 0..N /\ N - d \in 1..N /\ f[N - d].line < k
  BY <1>1, <1>5
<1>7. ASSUME NEW m \in 1..N, f[m].line < k PROVE m <= N - d
  <2>1. N - m \in 0..N /\ N - (N - m) = m
    BY <1>7
  <2>2. N - m \in T
    BY <1>1, <1>7, <2>1
  <2> QED  BY <1>5, <1>6, <2>2
<1> QED  BY <1>6, <1>7

\* A line is in the text of the last heading before it, unless it is in a
\* block or is a heading.
LEMMA BodyFacts ==
    ASSUME NEW lines \in Documents, NEW r, FoundUpTo(lines, r, Len(lines)), M!NewlinesOnly(lines),
           NEW k \in 1..Len(lines), NEW n \in 1..Len(r.headings)
    PROVE  k \in M!Body(lines, r, n) <=>
             /\ k \notin M!Fenced(r)
             /\ r.headings[n].line < k
             /\ \A m \in 1..Len(r.headings) : n < m => k < r.headings[m].line
<1>1. Len(lines) \in Nat /\ Len(r.headings) \in Nat
  BY DocumentParts, LenProperties, ListingLens DEF M!MarkdownAssumption, FoundUpTo, Found
<1>2. /\ \A m \in 1..Len(r.headings) : r.headings[m].line \in 1..Len(lines)
      /\ \A l, m \in 1..Len(r.headings) : l < m => r.headings[l].line < r.headings[m].line
  BY DEF FoundUpTo, Found
<1>3. PICK to : to = M!ContentEnd(lines, r.headings, n)
  OBVIOUS
<1>9. k \in DOMAIN lines
  BY DocumentParts, LenProperties DEF M!MarkdownAssumption
<1>4. k <= to <=> \A m \in 1..Len(r.headings) : n < m => k < r.headings[m].line
  <2>1. CASE n < Len(r.headings)
    <3>1. to = r.headings[n + 1].line - 1 /\ n + 1 \in 1..Len(r.headings)
      BY <1>1, <1>3, <2>1 DEF M!ContentEnd
    <3>2. \A m \in 1..Len(r.headings) : n < m => m = n + 1 \/ n + 1 < m
      BY <1>1
    <3>3. \A m \in 1..Len(r.headings) : n < m => r.headings[n + 1].line <= r.headings[m].line
      BY <1>2, <3>1, <3>2
    <3>4. k < r.headings[n + 1].line => \A m \in 1..Len(r.headings) : n < m => k < r.headings[m].line
      BY <1>1, <1>2, <3>1, <3>3
    <3>5. k <= to <=> k < r.headings[n + 1].line
      BY <1>1, <1>2, <3>1
    <3> QED  BY <3>1, <3>4, <3>5
  <2>2. CASE ~(n < Len(r.headings))
    <3>1. to \in Nat /\ Len(lines) <= to
      BY <1>3, <2>2, LineCountFacts DEF M!ContentEnd
    <3>2. \A m \in 1..Len(r.headings) : ~(n < m)
      BY <1>1, <2>2
    <3> QED  BY <1>1, <3>1, <3>2
  <2> QED  BY <2>1, <2>2
<1>5. k \in M!Body(lines, r, n) <=>
        k \in (r.headings[n].line + 1)..to /\ k \notin M!Fenced(r) /\ lines[k].t # "atx"
  BY <1>3, <1>9 DEF M!Body, M!Prose
<1>6. to \in Int
  <2>1. CASE n < Len(r.headings)
    BY <1>1, <1>2, <1>3, <2>1 DEF M!ContentEnd
  <2>2. CASE ~(n < Len(r.headings))
    BY <1>1, <1>3, <2>2, LineCountFacts DEF M!ContentEnd
  <2> QED  BY <2>1, <2>2
<1>7. k \in (r.headings[n].line + 1)..to <=> r.headings[n].line < k /\ k <= to
  BY <1>1, <1>2, <1>6
<1>8. ASSUME k \notin M!Fenced(r), r.headings[n].line < k,
             \A m \in 1..Len(r.headings) : n < m => k < r.headings[m].line
      PROVE  lines[k].t # "atx"
  <2>1. \A m \in 1..Len(r.headings) : r.headings[m].line # k
    <3> SUFFICES ASSUME NEW m \in 1..Len(r.headings), r.headings[m].line = k PROVE FALSE
      OBVIOUS
    <3>1. m = n \/ n < m \/ m < n
      BY <1>1
    <3>2. m < n => r.headings[m].line < r.headings[n].line
      BY <1>2
    <3> QED  BY <1>1, <1>2, <1>8, <3>1, <3>2
  <2> QED  BY <1>8, <2>1, MarkedFacts
<1> QED  BY <1>4, <1>5, <1>7, <1>8

LEMMA PreambleFacts ==
    ASSUME NEW lines \in Documents, NEW r, FoundUpTo(lines, r, Len(lines)), M!NewlinesOnly(lines),
           NEW k \in 1..Len(lines)
    PROVE  k \in M!Preamble(lines, r) <=>
             k \notin M!Fenced(r) /\ \A m \in 1..Len(r.headings) : k < r.headings[m].line
<1>1. /\ Len(lines) \in Nat /\ Len(r.headings) \in Nat
      /\ r.headings = <<>> <=> Len(r.headings) = 0
  BY DocumentParts, LenProperties, ListingLens, EmptySeq
     DEF M!MarkdownAssumption, FoundUpTo, Found, Listing
<1>2. /\ \A m \in 1..Len(r.headings) : r.headings[m].line \in 1..Len(lines)
      /\ \A l, m \in 1..Len(r.headings) : l < m => r.headings[l].line < r.headings[m].line
  BY DEF FoundUpTo, Found
<1>3. PICK to : to = IF r.headings = <<>> THEN M!LineCount(lines) ELSE r.headings[1].line - 1
  OBVIOUS
<1>7. k \in DOMAIN lines
  BY DocumentParts, LenProperties DEF M!MarkdownAssumption
<1>4. k \in M!Preamble(lines, r) <=> k \in 1..to /\ k \notin M!Fenced(r) /\ lines[k].t # "atx"
  BY <1>3, <1>7 DEF M!Preamble, M!Prose
<1>5. k \in 1..to <=> \A m \in 1..Len(r.headings) : k < r.headings[m].line
  <2>1. CASE r.headings = <<>>
    <3>1. to \in Nat /\ Len(lines) <= to
      BY <1>3, <2>1, LineCountFacts
    <3>2. \A m \in 1..Len(r.headings) : FALSE
      BY <1>1, <2>1
    <3> QED  BY <1>1, <3>1, <3>2
  <2>2. CASE r.headings # <<>>
    <3>1. to = r.headings[1].line - 1 /\ 1 \in 1..Len(r.headings)
      BY <1>1, <1>3, <2>2
    <3>2. \A m \in 1..Len(r.headings) : m = 1 \/ 1 < m
      BY <1>1
    <3>3. \A m \in 1..Len(r.headings) : r.headings[1].line <= r.headings[m].line
      BY <1>1, <1>2, <3>1, <3>2
    <3>4. k < r.headings[1].line => \A m \in 1..Len(r.headings) : k < r.headings[m].line
      BY <1>1, <1>2, <3>1, <3>3
    <3>5. k \in 1..to <=> k < r.headings[1].line
      BY <1>1, <1>2, <3>1
    <3> QED  BY <3>1, <3>4, <3>5
  <2> QED  BY <2>1, <2>2
<1>6. ASSUME k \notin M!Fenced(r), \A m \in 1..Len(r.headings) : k < r.headings[m].line
      PROVE  lines[k].t # "atx"
  <2>1. \A m \in 1..Len(r.headings) : r.headings[m].line # k
    BY <1>1, <1>2, <1>6
  <2> QED  BY <1>6, <2>1, MarkedFacts
<1> QED  BY <1>4, <1>5, <1>6

LEMMA LineInOne ==
    ASSUME NEW lines \in Documents, NEW r, FoundUpTo(lines, r, Len(lines)), M!NewlinesOnly(lines),
           NEW k \in 1..Len(lines)
    PROVE  M!Cardinality({n \in DOMAIN r.headings : k \in M!Body(lines, r, n)})
           + M!Cardinality({n \in DOMAIN r.headings : r.headings[n].line = k})
           + M!Cardinality({f \in M!Range(r.fences) : k \in f.start..f.end})
           + M!Cardinality({0} \cap IF k \in M!Preamble(lines, r) THEN {0} ELSE {}) = 1
<1>1. /\ Len(lines) \in Nat /\ Len(r.headings) \in Nat /\ Len(r.fences) \in Nat
      /\ DOMAIN r.headings = 1..Len(r.headings) /\ DOMAIN r.fences = 1..Len(r.fences)
      /\ Found(lines, r)
  BY DocumentParts, LenProperties, ListingLens DEF M!MarkdownAssumption, FoundUpTo, Found
<1>2. /\ \A m \in 1..Len(r.headings) : r.headings[m].line \in 1..Len(lines)
      /\ \A l, m \in 1..Len(r.headings) : l < m => r.headings[l].line < r.headings[m].line
      /\ \A m \in 1..Len(r.headings), n \in 1..Len(r.fences) :
           r.headings[m].line \notin r.fences[n].start..r.fences[n].end
  BY <1>1 DEF Found
<1>3. \A l, m \in 1..Len(r.headings) : l = m \/ l < m \/ m < l
  BY <1>1
<1>4. PICK texts, heads, blocks, pre :
        /\ texts = {n \in 1..Len(r.headings) : k \in M!Body(lines, r, n)}
        /\ heads = {n \in 1..Len(r.headings) : r.headings[n].line = k}
        /\ blocks = {f \in M!Range(r.fences) : k \in f.start..f.end}
        /\ pre = {0} \cap IF k \in M!Preamble(lines, r) THEN {0} ELSE {}
  OBVIOUS
<1>5. /\ \A n \in texts : k \notin M!Fenced(r) /\ r.headings[n].line < k
      /\ \A n \in texts : \A m \in 1..Len(r.headings) : n < m => k < r.headings[m].line
  BY <1>4, BodyFacts
<1>6. blocks = {} <=> k \notin M!Fenced(r)
  <2>1. k \in M!Fenced(r) <=> \E f \in M!Range(r.fences) : k \in f.start..f.end
    BY DEF M!Fenced
  <2> QED  BY <1>4, <2>1
<1>7. pre = IF k \in M!Preamble(lines, r) THEN {0} ELSE {}
  BY <1>4
<1>8. CASE heads # {}
  <2>1. PICK n \in 1..Len(r.headings) : r.headings[n].line = k
    BY <1>4, <1>8
  <2>2. heads = {n}
    <3>1. \A m \in 1..Len(r.headings) : r.headings[m].line = k => m = n
      BY <1>1, <1>2, <1>3, <2>1
    <3> QED  BY <1>4, <2>1, <3>1
  <2>3. texts = {}
    <3> SUFFICES ASSUME NEW m \in texts PROVE FALSE
      OBVIOUS
    <3>1. m \in 1..Len(r.headings) /\ r.headings[m].line < k
      BY <1>4, <1>5
    <3>2. m < n
      BY <1>1, <1>2, <1>3, <2>1, <3>1
    <3>3. k < r.headings[n].line
      BY <1>5, <2>1, <3>2
    <3> QED  BY <2>1, <3>3
  <2>4. blocks = {}
    BY <1>1, <1>2, <1>6, <2>1, FencedFacts
  <2>5. pre = {}
    <3>1. k \notin M!Preamble(lines, r)
      BY <2>1, PreambleFacts
    <3> QED  BY <1>7, <3>1
  <2>6. /\ M!Cardinality(texts) = 0 /\ M!Cardinality(heads) = 1
        /\ M!Cardinality(blocks) = 0 /\ M!Cardinality(pre) = 0
    BY <2>2, <2>3, <2>4, <2>5, OneOf, NoneOf, DocumentCounts
  <2> QED  BY <1>1, <1>4, <2>6
<1>9. CASE heads = {} /\ blocks # {}
  <2>1. k \in M!Fenced(r)
    BY <1>6, <1>9
  <2>2. PICK n \in 1..Len(r.fences) : k \in r.fences[n].start..r.fences[n].end
    BY <1>1, <2>1, FencedFacts
  <2>3. \A m \in 1..Len(r.fences) : k \in r.fences[m].start..r.fences[m].end => m = n
    <3>1. \A m, l \in 1..Len(r.fences) : m < l => r.fences[m].end < r.fences[l].start
      BY <1>1 DEF Found
    <3>2. \A m \in 1..Len(r.fences) :
            r.fences[m].start \in 1..Len(lines) /\ r.fences[m].end \in 1..Len(lines)
      BY <1>1 DEF Found
    <3> SUFFICES ASSUME NEW m \in 1..Len(r.fences), k \in r.fences[m].start..r.fences[m].end
                 PROVE  m = n
      OBVIOUS
    <3>3. /\ r.fences[m].start <= k /\ k <= r.fences[m].end
          /\ r.fences[n].start <= k /\ k <= r.fences[n].end
      BY <2>2, <3>2
    <3>4. m = n \/ m < n \/ n < m
      BY <1>1
    <3> QED  BY <1>1, <3>1, <3>2, <3>3, <3>4
  <2>4. blocks = {r.fences[n]}
    <3>1. \A f \in blocks : \E m \in 1..Len(r.fences) : f = r.fences[m] /\ k \in r.fences[m].start..r.fences[m].end
      BY <1>1, <1>4 DEF M!Range
    <3>2. \A f \in blocks : f = r.fences[n]
      BY <2>3, <3>1
    <3> QED  BY <1>9, <3>2
  <2>5. texts = {}
    BY <1>5, <2>1
  <2>6. pre = {}
    <3>1. k \notin M!Preamble(lines, r)
      BY <2>1, PreambleFacts
    <3> QED  BY <1>7, <3>1
  <2>7. /\ M!Cardinality(texts) = 0 /\ M!Cardinality(heads) = 0
        /\ M!Cardinality(blocks) = 1 /\ M!Cardinality(pre) = 0
    BY <1>9, <2>4, <2>5, <2>6, OneOf, NoneOf, DocumentCounts
  <2> QED  BY <1>1, <1>4, <2>7
<1>10. CASE heads = {} /\ blocks = {}
  <2>1. k \notin M!Fenced(r)
    BY <1>6, <1>10
  <2>2. \A n \in 1..Len(r.headings) : r.headings[n].line < k \/ k < r.headings[n].line
    BY <1>1, <1>2, <1>4, <1>10
  <2>3. CASE \E n \in 1..Len(r.headings) : r.headings[n].line < k
    <3>1. PICK n \in 1..Len(r.headings) :
            /\ r.headings[n].line < k
            /\ \A m \in 1..Len(r.headings) : r.headings[m].line < k => m <= n
      BY <1>1, <2>3, LastBefore
    <3>2. \A m \in 1..Len(r.headings) : n < m => k < r.headings[m].line
      BY <1>1, <2>2, <3>1
    <3>3. n \in texts
      BY <1>4, <2>1, <3>1, <3>2, BodyFacts
    <3>4. \A m \in texts : m = n
      <4> SUFFICES ASSUME NEW m \in texts PROVE m = n
        OBVIOUS
      <4>1. m \in 1..Len(r.headings) /\ r.headings[m].line < k
        BY <1>4, <1>5
      <4>2. m < n => k < r.headings[n].line
        BY <1>5
      <4> QED  BY <1>1, <1>2, <3>1, <4>1, <4>2
    <3>5. texts = {n}
      BY <3>3, <3>4
    <3>6. pre = {}
      <4>1. ~(k < r.headings[n].line)
        BY <1>1, <1>2, <3>1
      <4>2. k \notin M!Preamble(lines, r)
        BY <4>1, PreambleFacts
      <4> QED  BY <1>7, <4>2
    <3>7. /\ M!Cardinality(texts) = 1 /\ M!Cardinality(heads) = 0
          /\ M!Cardinality(blocks) = 0 /\ M!Cardinality(pre) = 0
      BY <1>10, <3>5, <3>6, OneOf, NoneOf, DocumentCounts
    <3> QED  BY <1>1, <1>4, <3>7
  <2>4. CASE ~\E n \in 1..Len(r.headings) : r.headings[n].line < k
    <3>1. texts = {}
      BY <1>4, <1>5, <2>4
    <3>2. k \in M!Preamble(lines, r)
      BY <2>1, <2>2, <2>4, PreambleFacts
    <3>3. pre = {0}
      BY <1>7, <3>2
    <3>4. /\ M!Cardinality(texts) = 0 /\ M!Cardinality(heads) = 0
          /\ M!Cardinality(blocks) = 0 /\ M!Cardinality(pre) = 1
      BY <1>10, <3>1, <3>3, OneOf, NoneOf, DocumentCounts
    <3> QED  BY <1>1, <1>4, <3>4
  <2> QED  BY <2>3, <2>4
<1> QED  BY <1>8, <1>9, <1>10

\* A section goes on to the line before the next heading that is not deeper.
LEMMA SectionEndFacts ==
    ASSUME NEW lines \in Documents, NEW r, FoundUpTo(lines, r, Len(lines)), M!NewlinesOnly(lines),
           NEW n \in 1..Len(r.headings)
    PROVE  /\ M!SectionEnd(lines, r.headings, n) \in Nat
           /\ \A k \in 1..Len(lines) :
                k <= M!SectionEnd(lines, r.headings, n) <=>
                  \A m \in 1..Len(r.headings) :
                    n < m /\ r.headings[m].level <= r.headings[n].level => k < r.headings[m].line
<1>1. Len(lines) \in Nat /\ Len(r.headings) \in Nat
  BY DocumentParts, LenProperties, ListingLens DEF M!MarkdownAssumption, FoundUpTo, Found
<1>2. /\ \A m \in 1..Len(r.headings) : r.headings[m].line \in 1..Len(lines)
      /\ \A m \in 1..Len(r.headings) : r.headings[m].level \in Nat
  BY DEF FoundUpTo, Found
<1>10. M!LineCount(lines) \in Nat /\ Len(lines) <= M!LineCount(lines)
  BY LineCountFacts
<1>3. PICK T : T = {M!LineCount(lines)} \cup
                   {r.headings[m].line - 1 : m \in {k \in (n + 1)..Len(r.headings) :
                                                      r.headings[k].level <= r.headings[n].level}}
  OBVIOUS
<1>4. M!SectionEnd(lines, r.headings, n) = M!Min(T)
  BY <1>3, Zenon DEF M!SectionEnd
<1>5. \A m \in 1..Len(r.headings) : n < m <=> m \in (n + 1)..Len(r.headings)
  BY <1>1
<1>6. T \subseteq Nat
  <2>1. \A m \in (n + 1)..Len(r.headings) : r.headings[m].line - 1 \in 0..Len(lines)
    <3>1. \A m \in (n + 1)..Len(r.headings) : m \in 1..Len(r.headings)
      BY <1>1
    <3> QED  BY <1>1, <1>2, <3>1
  <2> QED  BY <1>1, <1>3, <1>10, <2>1
<1>7. T \in SUBSET Nat /\ T # {}
  BY <1>1, <1>3, <1>6
<1>8. M!Min(T) \in T /\ \A x \in T : M!Min(T) <= x
  BY <1>7, LeastIs
<1>9. ASSUME NEW k \in 1..Len(lines)
      PROVE  k <= M!Min(T) <=>
               \A m \in 1..Len(r.headings) :
                 n < m /\ r.headings[m].level <= r.headings[n].level => k < r.headings[m].line
  <2>1. ASSUME k <= M!Min(T), NEW m \in 1..Len(r.headings), n < m,
               r.headings[m].level <= r.headings[n].level
        PROVE  k < r.headings[m].line
    <3>1. r.headings[m].line - 1 \in T
      BY <1>3, <1>5, <2>1
    <3>2. M!Min(T) <= r.headings[m].line - 1 /\ M!Min(T) \in Nat
      BY <1>7, <1>8, <3>1
    <3> QED  BY <1>1, <1>2, <2>1, <3>2
  <2>2. ASSUME \A m \in 1..Len(r.headings) :
                 n < m /\ r.headings[m].level <= r.headings[n].level => k < r.headings[m].line
        PROVE  k <= M!Min(T)
    <3>1. CASE M!Min(T) = M!LineCount(lines)
      BY <1>1, <1>10, <3>1
    <3>2. CASE M!Min(T) # M!LineCount(lines)
      <4>1. PICK m \in (n + 1)..Len(r.headings) :
              M!Min(T) = r.headings[m].line - 1 /\ r.headings[m].level <= r.headings[n].level
        BY <1>3, <1>8, <3>2
      <4>2. m \in 1..Len(r.headings) /\ n < m
        BY <1>1
      <4>3. k < r.headings[m].line
        BY <2>2, <4>1, <4>2
      <4> QED  BY <1>1, <1>2, <4>1, <4>2, <4>3
    <3> QED  BY <3>1, <3>2
  <2> QED  BY <2>1, <2>2
<1> QED  BY <1>4, <1>6, <1>8, <1>9

\* The section of a line that is no heading is that of the last one before it.
LEMMA SectionAtFacts ==
    ASSUME NEW lines \in Documents, NEW r, FoundUpTo(lines, r, Len(lines)), M!NewlinesOnly(lines),
           NEW k \in 1..Len(lines), \A n \in 1..Len(r.headings) : r.headings[n].line # k
    PROVE  M!SectionAt(lines, r.headings, k)
             = M!Max({0} \cup {m \in DOMAIN r.headings : r.headings[m].line < k})
<1>1. /\ Len(lines) \in Nat /\ Len(r.headings) \in Nat
      /\ DOMAIN r.headings = 1..Len(r.headings)
  BY DocumentParts, LenProperties, ListingLens DEF M!MarkdownAssumption, FoundUpTo, Found
<1>2. /\ \A m \in 1..Len(r.headings) : r.headings[m].line \in 1..Len(lines)
      /\ \A m \in 1..Len(r.headings) : r.headings[m].level \in Nat
      /\ \A l, m \in 1..Len(r.headings) : l < m => r.headings[l].line < r.headings[m].line
  BY DEF FoundUpTo, Found
<1>3. PICK around : around = {n \in 1..Len(r.headings) :
                                k \in r.headings[n].line..M!SectionEnd(lines, r.headings, n)}
  OBVIOUS
<1>4. \A n \in 1..Len(r.headings) :
        n \in around <=>
          /\ r.headings[n].line < k
          /\ \A m \in 1..Len(r.headings) :
               n < m /\ r.headings[m].level <= r.headings[n].level => k < r.headings[m].line
  <2> SUFFICES ASSUME NEW n \in 1..Len(r.headings)
               PROVE  n \in around <=>
                        /\ r.headings[n].line < k
                        /\ \A m \in 1..Len(r.headings) :
                             n < m /\ r.headings[m].level <= r.headings[n].level => k < r.headings[m].line
    OBVIOUS
  <2>1. PICK to : to = M!SectionEnd(lines, r.headings, n)
    OBVIOUS
  <2>2. /\ to \in Nat
        /\ k <= to <=> \A m \in 1..Len(r.headings) :
                         n < m /\ r.headings[m].level <= r.headings[n].level => k < r.headings[m].line
    BY <2>1, SectionEndFacts
  <2>3. n \in around <=> k \in r.headings[n].line..to
    BY <1>3, <2>1
  <2>4. k \in r.headings[n].line..to <=> r.headings[n].line < k /\ k <= to
    BY <1>1, <1>2, <2>2
  <2> QED  BY <2>2, <2>3, <2>4
<1>5. PICK before : before = {0} \cup {m \in 1..Len(r.headings) : r.headings[m].line < k}
  OBVIOUS
<1>6. M!SectionAt(lines, r.headings, k) =
        IF around = {} THEN 0
        ELSE CHOOSE n \in around : \A m \in around :
               \/ r.headings[m].level < r.headings[n].level
               \/ r.headings[m].level = r.headings[n].level /\ r.headings[m].line <= r.headings[n].line
  <2>1. around = {n \in DOMAIN r.headings :
                    k \in r.headings[n].line..M!SectionEnd(lines, r.headings, n)}
    BY <1>1, <1>3
  <2> QED  BY <2>1 DEF M!SectionAt
<1>7. CASE \E n \in 1..Len(r.headings) : r.headings[n].line < k
  <2>1. PICK n \in 1..Len(r.headings) :
          /\ r.headings[n].line < k
          /\ \A m \in 1..Len(r.headings) : r.headings[m].line < k => m <= n
    BY <1>1, <1>7, LastBefore
  <2>2. \A m \in 1..Len(r.headings) : n < m => k < r.headings[m].line
    BY <1>1, <1>2, <2>1
  <2>3. n \in around
    BY <1>4, <2>1, <2>2
  <2>4. ASSUME NEW m \in around, m # n PROVE r.headings[m].level < r.headings[n].level
    <3>1. m \in 1..Len(r.headings) /\ r.headings[m].line < k
      BY <1>3, <1>4
    <3>2. m < n
      BY <1>1, <2>1, <2>4, <3>1
    <3>3. ~(r.headings[n].level <= r.headings[m].level)
      <4> SUFFICES ASSUME r.headings[n].level <= r.headings[m].level PROVE FALSE
        OBVIOUS
      <4>1. k < r.headings[n].line
        BY <1>4, <3>1, <3>2
      <4> QED  BY <1>1, <1>2, <2>1, <4>1
    <3> QED  BY <1>2, <3>1, <3>3
  <2>5. \A m \in around :
          \/ r.headings[m].level < r.headings[n].level
          \/ r.headings[m].level = r.headings[n].level /\ r.headings[m].line <= r.headings[n].line
    <3>1. r.headings[n].line <= r.headings[n].line
      BY <1>1, <1>2
    <3> QED  BY <2>4, <3>1
  <2>6. PICK x : x = M!SectionAt(lines, r.headings, k)
    OBVIOUS
  <2>7. /\ x \in around
        /\ \A m \in around :
             \/ r.headings[m].level < r.headings[x].level
             \/ r.headings[m].level = r.headings[x].level /\ r.headings[m].line <= r.headings[x].line
    BY <1>6, <2>3, <2>5, <2>6
  <2>8. x = n
    <3> SUFFICES ASSUME x # n PROVE FALSE
      OBVIOUS
    <3>1. r.headings[x].level < r.headings[n].level
      BY <2>4, <2>7
    <3>2. r.headings[n].level <= r.headings[x].level
      BY <1>2, <1>3, <2>3, <2>7
    <3> QED  BY <1>2, <1>3, <2>3, <2>7, <3>1, <3>2
  <2>9. M!Max(before) = n
    <3>1. n \in before /\ before \in SUBSET Nat
      BY <1>1, <1>5, <2>1
    <3>2. \A m \in before : m <= n
      BY <1>1, <1>5, <2>1
    <3> QED  BY <3>1, <3>2, GreatestIs
  <2> QED  BY <1>1, <1>5, <2>6, <2>8, <2>9
<1>8. CASE ~\E n \in 1..Len(r.headings) : r.headings[n].line < k
  <2>1. around = {}
    BY <1>3, <1>4, <1>8
  <2>2. before = {0}
    BY <1>5, <1>8
  <2>3. M!Max(before) = 0
    <3>1. 0 \in before /\ before \in SUBSET Nat /\ \A m \in before : m <= 0
      BY <2>2
    <3> QED  BY <3>1, GreatestIs
  <2> QED  BY <1>1, <1>5, <1>6, <2>1, <2>3
<1> QED  BY <1>7, <1>8

\* Each block is an example of the section that it is in.
LEMMA ExampleFacts ==
    ASSUME NEW lines \in Documents, NEW r, r = M!Scanned(lines),
           FoundUpTo(lines, r, Len(lines)), M!NewlinesOnly(lines), NEW f \in DOMAIN r.fences,
           NEW n, n = M!Max({0} \cup {m \in DOMAIN r.headings : r.headings[m].line < r.fences[f].start}),
           NEW p, p = M!SectionId(r.headings, n)
    PROVE  /\ M!ExampleOf(lines, r, f) = p
           /\ M!ExampleId(lines, r, f) = M!Id(Append(p[1], <<"example", f>>), "example")
<1>1. DOMAIN r.fences = 1..Len(r.fences) /\ Found(lines, r) /\ Len(lines) \in Nat
  BY DocumentParts, LenProperties, ListingLens DEF M!MarkdownAssumption, FoundUpTo, Found
<1>2. /\ r.fences[f].start \in 1..Len(lines) /\ r.fences[f].end \in 1..Len(lines)
      /\ r.fences[f].start <= r.fences[f].end
      /\ \A m \in 1..Len(r.headings) :
           r.headings[m].line \notin r.fences[f].start..r.fences[f].end
  BY <1>1 DEF Found
<1>3. r.fences[f].start \in r.fences[f].start..r.fences[f].end
  BY <1>1, <1>2
<1>4. \A m \in 1..Len(r.headings) : r.headings[m].line # r.fences[f].start
  BY <1>2, <1>3
<1>5. M!SectionAt(lines, r.headings, r.fences[f].start)
        = M!Max({0} \cup {m \in DOMAIN r.headings : r.headings[m].line < r.fences[f].start})
  <2>1. PICK k : k = r.fences[f].start
    OBVIOUS
  <2>2. k \in 1..Len(lines) /\ \A m \in 1..Len(r.headings) : r.headings[m].line # k
    BY <1>2, <1>4, <2>1
  <2>3. M!SectionAt(lines, r.headings, k)
          = M!Max({0} \cup {m \in DOMAIN r.headings : r.headings[m].line < k})
    BY <2>2, SectionAtFacts
  <2> QED  BY <2>1, <2>3
<1> QED  BY <1>5, Zenon DEF M!ExampleOf, M!ExampleId

LEMMA DocumentAnalyzed ==
    ASSUME mFile \in Documents, M!AnalyzeMarkdown, M!NewlinesOnly(mFile)
    PROVE  M!EachOnce'
<1>1. PICK lines, r : lines = mFile /\ r = M!Scanned(lines)
  OBVIOUS
<1>2. FoundUpTo(lines, r, Len(lines))
  BY <1>1, ScannedFacts
<1>3. mFile' = lines
  BY <1>1 DEF M!AnalyzeMarkdown
<1>4. /\ Len(lines) \in Nat /\ DOMAIN lines = 1..Len(lines)
      /\ Len(r.headings) \in Nat /\ DOMAIN r.headings = 1..Len(r.headings)
      /\ Len(r.fences) \in Nat /\ DOMAIN r.fences = 1..Len(r.fences)
  BY <1>1, <1>2, DocumentParts, LenProperties, ListingLens
     DEF M!MarkdownAssumption, FoundUpTo, Found
<1>5. PICK s, t :
        /\ s = [n \in 1..Len(r.headings) |-> <<M!SectionId(r.headings, M!Above(r.headings, n)),
                                               M!SectionId(r.headings, n)>>]
        /\ t = [n \in 1..Len(r.fences) |-> <<M!ExampleOf(lines, r, n), M!ExampleId(lines, r, n)>>]
  OBVIOUS
<1>6. mGraph'.contains = s \o t
  BY <1>1, <1>4, <1>5 DEF M!AnalyzeMarkdown
<1>7. \A f \in 1..Len(r.fences) :
        <<M!ExampleOf(lines, r, f), M!ExampleId(lines, r, f)>> \in M!Range(mGraph'.contains)
  <2>1. Listing(s) /\ Listing(t)
    <3>1. s = [n \in 1..Len(r.headings) |-> s[n]] /\ t = [n \in 1..Len(r.fences) |-> t[n]]
      BY <1>5
    <3> QED  BY <1>4, <3>1, MadeFacts
  <2>2. G!Range(s \o t) = G!Range(s) \cup G!Range(t)
    BY <2>1, JoinFacts
  <2>3. \A f \in 1..Len(r.fences) : t[f] \in G!Range(s \o t)
    BY <1>5, <2>2 DEF G!Range
  <2>4. G!Range(s \o t) = M!Range(s \o t)
    BY DEF G!Range, M!Range
  <2> QED  BY <1>5, <1>6, <2>3, <2>4
<1>8. \A f \in DOMAIN r.fences :
        LET n == M!Max({0} \cup {m \in DOMAIN r.headings : r.headings[m].line < r.fences[f].start})
            p == M!SectionId(r.headings, n) IN
        <<p, M!Id(Append(p[1], <<"example", f>>), "example")>> \in M!Range(mGraph'.contains)
  <2> SUFFICES ASSUME NEW f \in DOMAIN r.fences
               PROVE  LET n == M!Max({0} \cup {m \in DOMAIN r.headings :
                                                 r.headings[m].line < r.fences[f].start})
                          p == M!SectionId(r.headings, n) IN
                      <<p, M!Id(Append(p[1], <<"example", f>>), "example")>>
                        \in M!Range(mGraph'.contains)
    BY Zenon
  <2>1. <<M!ExampleOf(lines, r, f), M!ExampleId(lines, r, f)>> \in M!Range(mGraph'.contains)
    BY <1>4, <1>7
  <2>2. lines \in Documents
    BY <1>1
  <2>3. PICK n, p : /\ n = M!Max({0} \cup {m \in DOMAIN r.headings :
                                           r.headings[m].line < r.fences[f].start})
                    /\ p = M!SectionId(r.headings, n)
    OBVIOUS
  <2>4. /\ M!ExampleOf(lines, r, f) = p
        /\ M!ExampleId(lines, r, f) = M!Id(Append(p[1], <<"example", f>>), "example")
    BY <1>1, <1>2, <2>2, <2>3, ExampleFacts
  <2> QED  BY <2>1, <2>3, <2>4
<1>9. \A k \in DOMAIN lines :
        M!Cardinality({n \in DOMAIN r.headings : k \in M!Body(lines, r, n)})
        + M!Cardinality({n \in DOMAIN r.headings : r.headings[n].line = k})
        + M!Cardinality({f \in M!Range(r.fences) : k \in f.start..f.end})
        + M!Cardinality({0} \cap IF k \in M!Preamble(lines, r) THEN {0} ELSE {}) = 1
  <2> SUFFICES ASSUME NEW k \in DOMAIN lines
               PROVE  M!Cardinality({n \in DOMAIN r.headings : k \in M!Body(lines, r, n)})
                      + M!Cardinality({n \in DOMAIN r.headings : r.headings[n].line = k})
                      + M!Cardinality({f \in M!Range(r.fences) : k \in f.start..f.end})
                      + M!Cardinality({0} \cap IF k \in M!Preamble(lines, r) THEN {0} ELSE {}) = 1
    BY Zenon
  <2>1. lines \in Documents /\ k \in 1..Len(lines) /\ M!NewlinesOnly(lines)
    BY <1>1, <1>4, Zenon
  <2> QED  BY <1>2, <2>1, LineInOne, Zenon
<1>10. mFile' = lines /\ M!Scanned(mFile') = r
  BY <1>1, <1>3
<1> QED  BY <1>8, <1>9, <1>10 DEF M!EachOnce

(* Whatever a document is made of, if its lines end with newlines only, each *)
(* of them is a heading, in one block, or in the text of one section or the  *)
(* preamble, and each block is an example of the section of the last heading *)
(* before it (markdown.py:258, 272, 286).                                    *)
THEOREM LinesOnceAlways == PartsSpec => []LinesOnce
<1> DEFINE Inv == part = "document" => mFile \in Documents /\ M!LinesOnce
<1>1. PartsInit => Inv
  BY DocumentPart DEF M!Init, M!LinesOnce
<1>2. Inv /\ [PartsNext]_partsVars => Inv'
  <2>1. ASSUME mFile \in Documents, M!LinesOnce, [M!Next]_(M!vars)
        PROVE  (mFile \in Documents /\ M!LinesOnce)'
    <3>1. CASE M!AnalyzeMarkdown
      <4>1. mFile' = mFile
        BY <3>1 DEF M!AnalyzeMarkdown
      <4>2. M!NewlinesOnly(mFile) => M!EachOnce'
        BY <2>1, <3>1, DocumentAnalyzed
      <4> QED  BY <2>1, <4>1, <4>2 DEF M!LinesOnce
    <3>2. CASE UNCHANGED M!vars
      BY <2>1, <3>2 DEF M!vars, M!LinesOnce, M!EachOnce
    <3> QED  BY <2>1, <3>1, <3>2 DEF M!Next
  <2>2. CASE part = "document"
    BY <2>1, <2>2, DocumentPart
  <2>3. CASE part # "document"
    BY <2>3, OtherPart
  <2> QED  BY <2>2, <2>3
<1>3. Inv => LinesOnce
  BY DEF LinesOnce
<1> QED  BY <1>1, <1>2, <1>3, PTL DEF PartsSpec

------------------------------------------------------------------------------
(* The pages of a scope *)

LEMMA PagesPart ==
    /\ PartsInit /\ part = "pages" => P!Init
    /\ part = "pages" /\ [PartsNext]_partsVars => [P!Next]_(P!vars) /\ (part = "pages")'
BY DEF PartsInit, PartsNext, partsVars, pagesVars, P!vars

LEMMA OneName ==
    ASSUME NEW S, NEW x \in S
    PROVE  <<x>> \in Seq(S) /\ Len(<<x>>) = 1 /\ <<x>>[1] = x
OBVIOUS

Name(n) ==
    /\ n \in Seq(STRING) /\ n # <<>>
    /\ P!Normal(n) \in Seq(STRING) /\ P!Normal(n) # <<>>
    /\ P!Normal(n) \in P!Named
    /\ n \in P!Aliases(P!Normal(n))

LEMMA NameFacts ==
    ASSUME NEW n \in P!Sources \cup Asked \cup UNION Allowlists
    PROVE  Name(n)
<1>1. n \in Seq(STRING) /\ n # <<>>
  BY PagesParts DEF P!PagesAssumption
<1>2. Len(n) \in Nat /\ Len(n) # 0
  BY <1>1, LenProperties, EmptySeq
<1>3. P!Normal(n) \in P!Named
  BY DEF P!Named
<1>4. CASE Len(n) > 1 /\ Head(n) = P!Dist
  <2>1. P!Normal(n) = Tail(n)
    BY <1>4 DEF P!Normal
  <2>2. Tail(n) \in Seq(STRING) /\ Len(Tail(n)) = Len(n) - 1 /\ n = <<P!Dist>> \o Tail(n)
    BY <1>1, <1>4, HeadTailProperties
  <2>3. Tail(n) # <<>>
    BY <1>2, <1>4, <2>2, EmptySeq
  <2> QED  BY <1>1, <1>3, <2>1, <2>2, <2>3 DEF P!Aliases, Name
<1>5. CASE ~(Len(n) > 1 /\ Head(n) = P!Dist)
  <2>1. P!Normal(n) = n
    BY <1>5, Zenon DEF P!Normal
  <2> QED  BY <1>1, <1>3, <2>1 DEF P!Aliases, Name
<1> QED  BY <1>4, <1>5

LEMMA NamedFacts ==
    ASSUME NEW x \in P!Named
    PROVE  x \in Seq(STRING) /\ x # <<>> /\ Len(x) \in Nat \ {0}
<1>1. PICK n \in P!Sources \cup Asked \cup UNION Allowlists : x = P!Normal(n)
  BY DEF P!Named
<1>2. x \in Seq(STRING) /\ x # <<>>
  BY <1>1, NameFacts DEF Name
<1> QED  BY <1>2, LenProperties, EmptySeq

\* A name is part of another where its pieces are found in it one after another.
LEMMA PartOfFacts ==
    ASSUME NEW a \in Seq(STRING), NEW b \in Seq(STRING)
    PROVE  P!PartOf(a, b) <=>
             \E i \in 1..Len(b) : /\ i - 1 + Len(a) <= Len(b)
                                  /\ \A k \in 1..Len(a) : a[k] = b[i - 1 + k]
<1>1. /\ Len(a) \in Nat /\ Len(b) \in Nat
      /\ \A i \in 1..Len(a) : a[i] \in STRING
      /\ \A i \in 1..Len(b) : b[i] \in STRING
  BY LenProperties, ElementOfSeq
<1>2. ASSUME NEW i \in 1..Len(b)
      PROVE  P!IsPrefix(a, SubSeq(b, i, Len(b))) <=>
               i - 1 + Len(a) <= Len(b) /\ \A k \in 1..Len(a) : a[k] = b[i - 1 + k]
  <2>1. PICK c : c = SubSeq(b, i, Len(b))
    OBVIOUS
  <2>2. /\ c \in Seq(STRING) /\ Len(c) = Len(b) - i + 1
        /\ \A k \in 1..(Len(b) - i + 1) : c[k] = b[i + k - 1]
    <3>1. /\ i \in Int /\ Len(b) \in Int /\ Len(b) - i + 1 \in Nat /\ i <= Len(b)
          /\ \A k \in i..Len(b) : b[k] \in STRING
      BY <1>1
    <3>2. /\ SubSeq(b, i, Len(b)) \in Seq(STRING)
          /\ Len(SubSeq(b, i, Len(b))) = IF i <= Len(b) THEN Len(b) - i + 1 ELSE 0
          /\ \A k \in 1..(Len(b) - i + 1) : SubSeq(b, i, Len(b))[k] = b[i + k - 1]
      BY <1>1, SubSeqProperties
    <3> QED  BY <2>1, <3>1, <3>2
  <2>3. CASE Len(a) <= Len(c)
    <3>1. /\ SubSeq(a, 1, Len(a)) \in Seq(STRING) /\ Len(SubSeq(a, 1, Len(a))) = Len(a)
          /\ \A k \in 1..Len(a) : SubSeq(a, 1, Len(a))[k] = a[k]
      BY <1>1, SubSeqProperties
    <3>2. /\ SubSeq(c, 1, Len(a)) \in Seq(STRING) /\ Len(SubSeq(c, 1, Len(a))) = Len(a)
          /\ \A k \in 1..Len(a) : SubSeq(c, 1, Len(a))[k] = c[k]
      <4>1. Len(c) \in Nat /\ \A k \in 1..Len(c) : c[k] \in STRING
        BY <2>2, LenProperties, ElementOfSeq
      <4> QED  BY <1>1, <2>2, <2>3, <4>1, SubSeqProperties
    <3>3. SubSeq(a, 1, Len(a)) = SubSeq(c, 1, Len(a)) <=> \A k \in 1..Len(a) : a[k] = c[k]
      BY <3>1, <3>2, SeqEqual
    <3>4. \A k \in 1..Len(a) : c[k] = b[i - 1 + k]
      BY <1>1, <2>2, <2>3
    <3>5. i - 1 + Len(a) <= Len(b)
      BY <1>1, <2>2, <2>3
    <3> QED  BY <2>1, <2>3, <3>3, <3>4, <3>5 DEF P!IsPrefix
  <2>4. CASE ~(Len(a) <= Len(c))
    <3>1. ~(i - 1 + Len(a) <= Len(b))
      BY <1>1, <2>2, <2>4
    <3> QED  BY <2>1, <2>4, <3>1 DEF P!IsPrefix
  <2> QED  BY <2>3, <2>4
<1> QED  BY <1>2 DEF P!PartOf

\* A sequence begins another where its elements are the first of the other.
LEMMA BeginsWith ==
    ASSUME NEW S, NEW a \in Seq(S), NEW b \in Seq(S)
    PROVE  P!IsPrefix(a, b) <=> Len(a) <= Len(b) /\ \A i \in 1..Len(a) : a[i] = b[i]
<1>1. /\ Len(a) \in Nat /\ Len(b) \in Nat
      /\ \A i \in 1..Len(a) : a[i] \in S
      /\ \A i \in 1..Len(b) : b[i] \in S
  BY LenProperties, ElementOfSeq
<1>2. CASE Len(a) <= Len(b)
  <2>1. /\ SubSeq(a, 1, Len(a)) \in Seq(S) /\ Len(SubSeq(a, 1, Len(a))) = Len(a)
        /\ \A i \in 1..Len(a) : SubSeq(a, 1, Len(a))[i] = a[i]
        /\ SubSeq(b, 1, Len(a)) \in Seq(S) /\ Len(SubSeq(b, 1, Len(a))) = Len(a)
        /\ \A i \in 1..Len(a) : SubSeq(b, 1, Len(a))[i] = b[i]
    BY <1>1, <1>2, SubSeqProperties
  <2>2. SubSeq(a, 1, Len(a)) = SubSeq(b, 1, Len(a)) <=> \A i \in 1..Len(a) : a[i] = b[i]
    BY <2>1, SeqEqual
  <2> QED  BY <1>2, <2>2 DEF P!IsPrefix
<1>3. CASE ~(Len(a) <= Len(b))
  BY <1>3 DEF P!IsPrefix
<1> QED  BY <1>2, <1>3

LEMMA PrefixTwice ==
    ASSUME NEW S, NEW a \in Seq(S), NEW b \in Seq(S), NEW c \in Seq(S)
    PROVE  /\ P!IsPrefix(a, a)
           /\ P!IsPrefix(a, b) /\ P!IsPrefix(b, c) => P!IsPrefix(a, c)
<1>1. Len(a) \in Nat /\ Len(b) \in Nat /\ Len(c) \in Nat
  BY LenProperties
<1>2. P!IsPrefix(a, a)
  BY <1>1, BeginsWith
<1>3. ASSUME P!IsPrefix(a, b), P!IsPrefix(b, c) PROVE P!IsPrefix(a, c)
  <2>1. /\ Len(a) <= Len(b) /\ \A i \in 1..Len(a) : a[i] = b[i]
        /\ Len(b) <= Len(c) /\ \A i \in 1..Len(b) : b[i] = c[i]
    BY <1>3, BeginsWith
  <2>2. Len(a) <= Len(c) /\ \A i \in 1..Len(a) : a[i] = c[i]
    BY <1>1, <2>1
  <2> QED  BY <2>2, BeginsWith
<1> QED  BY <1>2, <1>3

\* What begins with more than a sequence has the next piece in it.
LEMMA PieceOfLonger ==
    ASSUME NEW S, NEW a \in Seq(S), NEW c \in S, NEW b \in Seq(S),
           P!IsPrefix(Append(a, c), b)
    PROVE  c \in P!Range(b)
<1>1. PICK d : d = Append(a, c)
  OBVIOUS
<1>2. Len(a) \in Nat /\ Len(b) \in Nat /\ DOMAIN b = 1..Len(b)
  BY LenProperties
<1>3. d \in Seq(S) /\ Len(d) = Len(a) + 1 /\ d[Len(a) + 1] = c
  BY <1>1, AppendProperties
<1>4. Len(d) <= Len(b) /\ \A i \in 1..Len(d) : d[i] = b[i]
  <2>1. P!IsPrefix(d, b)
    BY <1>1, Zenon
  <2> QED  BY <1>3, <2>1, BeginsWith
<1>5. b[Len(a) + 1] = c /\ Len(a) + 1 \in DOMAIN b
  BY <1>2, <1>3, <1>4
<1> QED  BY <1>5 DEF P!Range

LEMMA NormalTwice ==
    ASSUME P!WholeNames, NEW x \in P!Named
    PROVE  P!Normal(x) = x /\ Name(x)
<1>1. x \in Seq(STRING) /\ Len(x) \in Nat \ {0}
  BY NamedFacts
<1>2. Head(x) \in P!Range(x)
  <2>1. Head(x) = x[1] /\ 1 \in DOMAIN x
    BY <1>1, LenProperties
  <2> QED  BY <2>1 DEF P!Range
<1>3. Head(x) # P!Dist
  BY <1>2 DEF P!WholeNames
<1>4. P!Normal(x) = x
  BY <1>3, Zenon DEF P!Normal
<1>5. x \in P!Aliases(x) /\ x # <<>>
  BY NamedFacts DEF P!Aliases
<1> QED  BY <1>1, <1>4, <1>5 DEF Name

\* With whole names, an alias is part of another only where its name is.
LEMMA AliasesApart ==
    ASSUME P!WholeNames, NEW x \in P!Named, NEW y \in P!Named,
           NEW a \in P!Aliases(x), NEW b \in P!Aliases(y), P!PartOf(a, b)
    PROVE  P!PartOf(x, y)
<1>1. /\ x \in Seq(STRING) /\ y \in Seq(STRING) /\ Len(x) \in Nat \ {0} /\ Len(y) \in Nat \ {0}
  BY NamedFacts
<1>2. P!Dist \in STRING
  BY PagesParts DEF P!PagesAssumption
<1>3. ASSUME NEW z \in Seq(STRING)
      PROVE  /\ <<P!Dist>> \o z \in Seq(STRING) /\ Len(<<P!Dist>> \o z) = Len(z) + 1
             /\ (<<P!Dist>> \o z)[1] = P!Dist
             /\ \A i \in 1..Len(z) : (<<P!Dist>> \o z)[i + 1] = z[i]
  <2>1. PICK d : d = <<P!Dist>>
    OBVIOUS
  <2>2. d \in Seq(STRING) /\ Len(d) = 1 /\ d[1] = P!Dist
    BY <1>2, <2>1, OneName
  <2>3. /\ Len(z) \in Nat /\ d \o z \in Seq(STRING) /\ Len(d \o z) = 1 + Len(z)
        /\ \A i \in 1..(1 + Len(z)) : (d \o z)[i] = IF i <= 1 THEN d[i] ELSE z[i - 1]
    <3>1. Len(z) \in Nat
      BY LenProperties
    <3> QED  BY <2>2, <3>1, ConcatProperties
  <2> QED  BY <2>1, <2>2, <2>3
<1>4. /\ a \in Seq(STRING) /\ b \in Seq(STRING) /\ Len(a) \in Nat \ {0} /\ Len(b) \in Nat \ {0}
      /\ a = x \/ a = <<P!Dist>> \o x
      /\ b = y \/ b = <<P!Dist>> \o y
  <2>1. (a = x \/ a = <<P!Dist>> \o x) /\ (b = y \/ b = <<P!Dist>> \o y)
    BY Zenon DEF P!Aliases
  <2>2. a \in Seq(STRING) /\ Len(a) \in Nat \ {0}
    <3>1. CASE a = x
      BY <1>1, <3>1
    <3>2. CASE a = <<P!Dist>> \o x
      <4>1. a \in Seq(STRING) /\ Len(a) = Len(x) + 1
        BY <1>1, <1>3, <3>2, Zenon
      <4> QED  BY <1>1, <4>1
    <3> QED  BY <2>1, <3>1, <3>2
  <2>3. b \in Seq(STRING) /\ Len(b) \in Nat \ {0}
    <3>1. CASE b = y
      BY <1>1, <3>1
    <3>2. CASE b = <<P!Dist>> \o y
      <4>1. b \in Seq(STRING) /\ Len(b) = Len(y) + 1
        BY <1>1, <1>3, <3>2, Zenon
      <4> QED  BY <1>1, <4>1
    <3> QED  BY <2>1, <3>1, <3>2
  <2> QED  BY <2>1, <2>2, <2>3
<1>5. \A i \in 1..Len(x) : x[i] # P!Dist
  <2>1. \A i \in 1..Len(x) : x[i] \in P!Range(x)
    BY <1>1, LenProperties DEF P!Range
  <2> QED  BY <2>1 DEF P!WholeNames
<1>6. \A i \in 1..Len(y) : y[i] # P!Dist
  <2>1. \A i \in 1..Len(y) : y[i] \in P!Range(y)
    BY <1>1, LenProperties DEF P!Range
  <2> QED  BY <2>1 DEF P!WholeNames
<1>7. PICK i \in 1..Len(b) : /\ i - 1 + Len(a) <= Len(b)
                             /\ \A k \in 1..Len(a) : a[k] = b[i - 1 + k]
  BY <1>4, PartOfFacts
<1>8. a[1] = b[i]
  BY <1>4, <1>7
<1>9. CASE a = x /\ b = y
  BY <1>9
<1>10. CASE a = x /\ b = <<P!Dist>> \o y
  <2>1. b[1] = P!Dist /\ Len(b) = Len(y) + 1 /\ \A k \in 1..Len(y) : b[k + 1] = y[k]
    BY <1>1, <1>3, <1>10
  <2>2. i # 1
    BY <1>1, <1>5, <1>8, <1>10, <2>1
  <2>3. i - 1 \in 1..Len(y) /\ (i - 1) - 1 + Len(x) <= Len(y)
    BY <1>1, <1>7, <1>10, <2>1, <2>2
  <2>4. ASSUME NEW k \in 1..Len(x) PROVE x[k] = y[(i - 1) - 1 + k]
    <3>1. x[k] = b[i - 1 + k]
      BY <1>7, <1>10
    <3>2. (i - 1) - 1 + k \in 1..Len(y) /\ ((i - 1) - 1 + k) + 1 = i - 1 + k
      BY <1>1, <2>3
    <3> QED  BY <2>1, <3>1, <3>2
  <2> QED  BY <1>1, <2>3, <2>4, PartOfFacts
<1>11. CASE a = <<P!Dist>> \o x /\ b = y
  <2>1. a[1] = P!Dist
    BY <1>1, <1>3, <1>11
  <2> QED  BY <1>6, <1>7, <1>8, <1>11, <2>1
<1>12. CASE a = <<P!Dist>> \o x /\ b = <<P!Dist>> \o y
  <2>1. /\ b[1] = P!Dist /\ Len(b) = Len(y) + 1 /\ \A k \in 1..Len(y) : b[k + 1] = y[k]
        /\ a[1] = P!Dist /\ Len(a) = Len(x) + 1 /\ \A k \in 1..Len(x) : a[k + 1] = x[k]
    BY <1>1, <1>3, <1>12
  <2>2. i = 1
    <3> SUFFICES ASSUME i # 1 PROVE FALSE
      OBVIOUS
    <3>1. i - 1 \in 1..Len(y) /\ (i - 1) + 1 = i
      BY <1>1, <2>1
    <3> QED  BY <1>6, <1>8, <2>1, <3>1
  <2>3. 1 \in 1..Len(y) /\ 1 - 1 + Len(x) <= Len(y)
    BY <1>1, <1>7, <2>1, <2>2
  <2>4. ASSUME NEW k \in 1..Len(x) PROVE x[k] = y[1 - 1 + k]
    <3>1. k + 1 \in 1..Len(a) /\ k \in 1..Len(y) /\ 1 - 1 + k = k /\ 1 - 1 + (k + 1) = k + 1
      BY <1>1, <2>1, <2>3
    <3>2. a[k + 1] = b[k + 1]
      BY <1>7, <2>2, <3>1
    <3> QED  BY <2>1, <3>1, <3>2
  <2> QED  BY <1>1, <2>3, <2>4, PartOfFacts
<1> QED  BY <1>4, <1>9, <1>10, <1>11, <1>12

LEMMA FirstTaker ==
    ASSUME NEW T \in SUBSET DOMAIN Inventory, T # {}
    PROVE  P!Min(T) \in T /\ Inventory[P!Min(T)] \in P!Sources
<1>1. T \in SUBSET Nat
  BY PagesParts, LenProperties DEF P!PagesAssumption
<1>2. P!Min(T) \in T
  <2>1. \E n \in T : \A m \in T : n <= m
    BY <1>1, LeastOf
  <2> QED  BY <2>1 DEF P!Min
<1> QED  BY <1>2 DEF P!Sources, P!Range

LEMMA AliasNamed ==
    ASSUME P!WholeNames, NEW n, Name(n), NEW f \in Family, n \in P!Aliases(f)
    PROVE  f \in P!Named /\ P!Normal(n) = f
<1>1. f \in P!Named /\ f \in Seq(STRING) /\ Len(f) \in Nat \ {0}
  BY NamedFacts DEF P!WholeNames
<1>2. PICK x : x = P!Normal(n)
  OBVIOUS
<1>3. x \in P!Named /\ n \in P!Aliases(x) /\ n \in Seq(STRING) /\ n # <<>>
  BY <1>2 DEF Name
<1>4. P!PartOf(n, n)
  <2>1. Len(n) \in Nat \ {0}
    BY <1>3, LenProperties, EmptySeq
  <2>2. 1 \in 1..Len(n) /\ 1 - 1 + Len(n) <= Len(n) /\ \A k \in 1..Len(n) : n[k] = n[1 - 1 + k]
    BY <2>1
  <2> QED  BY <1>3, <2>2, PartOfFacts
<1>5. P!PartOf(f, x)
  BY <1>1, <1>3, <1>4, AliasesApart
<1>6. x = f
  BY <1>3, <1>5 DEF P!WholeNames
<1> QED  BY <1>1, <1>2, <1>6

\* The names that sources are looked for by.
LookedFor == Asked \cup {P!Normal(m) : m \in Asked \cup UNION Allowlists}

\* What a whole name is taken for is the source of that package, or one whose
\* name is the beginning of it.
LEMMA ResolveFacts ==
    ASSUME P!WholeNames, NEW n \in LookedFor, Name(n), P!Resolve(n) # Unset
    PROVE  /\ P!Resolve(n) \in P!Sources
           /\ P!IsPrefix(P!Normal(P!Resolve(n)), P!Normal(n))
<1> DEFINE x == P!Normal(n)
<1>0. x \in Seq(STRING) /\ P!IsPrefix(x, x)
  <2>1. P!Normal(n) \in Seq(STRING)
    BY DEF Name
  <2> QED  BY <2>1, PrefixTwice
<1>1. CASE n \in P!Sources
  <2>1. P!Resolve(n) = n
    BY <1>1, Zenon DEF P!Resolve
  <2> QED  BY <1>0, <1>1, <2>1, Zenon
<1>2. CASE n \notin P!Sources /\ P!OfFamily(n) # Unset
  <2>1. P!Resolve(n) = P!OfFamily(n)
    BY <1>2, Zenon DEF P!Resolve
  <2>2. PICK T : T = {i \in DOMAIN Inventory :
                        \E f \in {g \in Family : n \in P!Aliases(g)} :
                            \E a \in P!Aliases(f) : P!PartOf(a, Inventory[i])}
    OBVIOUS
  <2>3. P!OfFamily(n) = IF T = {} THEN Unset ELSE Inventory[P!Min(T)]
    BY <2>2 DEF P!OfFamily, P!FirstSource
  <2>4. PICK s : s = Inventory[P!Min(T)]
    OBVIOUS
  <2>5. P!Resolve(n) = s /\ s \in P!Sources /\ P!Min(T) \in T
    <3>1. T # {} /\ P!Resolve(n) = s
      BY <1>2, <2>1, <2>3, <2>4
    <3>2. T \in SUBSET DOMAIN Inventory
      BY <2>2
    <3> QED  BY <2>4, <3>1, <3>2, FirstTaker
  <2>6. PICK f \in Family : /\ n \in P!Aliases(f)
                             /\ \E a \in P!Aliases(f) : P!PartOf(a, s)
    BY <2>2, <2>4, <2>5
  <2>7. f \in P!Named /\ P!Normal(n) = f
    BY <2>6, AliasNamed
  <2>8. P!Normal(s) \in P!Named /\ s \in P!Aliases(P!Normal(s))
    BY <2>5, NameFacts DEF Name
  <2>9. P!PartOf(f, P!Normal(s))
    BY <2>6, <2>7, <2>8, AliasesApart
  <2>10. P!Normal(s) = x
    BY <2>7, <2>8, <2>9 DEF P!WholeNames
  <2> QED  BY <1>0, <2>5, <2>10, Zenon
<1>3. CASE n \notin P!Sources /\ P!OfFamily(n) = Unset
  <2>1. PICK T : T = {i \in DOMAIN Inventory : P!PartOf(n, Inventory[i]) \/ P!PartOf(Inventory[i], n)}
    OBVIOUS
  <2>2. P!Resolve(n) = IF T = {} THEN Unset ELSE Inventory[P!Min(T)]
    BY <1>3, <2>1 DEF P!Resolve, P!FirstSource
  <2>3. PICK s : s = Inventory[P!Min(T)]
    OBVIOUS
  <2>4. P!Resolve(n) = s /\ s \in P!Sources /\ P!Min(T) \in T
    <3>1. T # {} /\ P!Resolve(n) = s
      BY <2>2, <2>3
    <3>2. T \in SUBSET DOMAIN Inventory
      BY <2>1
    <3> QED  BY <2>3, <3>1, <3>2, FirstTaker
  <2>5. P!PartOf(n, s) \/ P!PartOf(s, n)
    BY <2>1, <2>3, <2>4
  <2>6. /\ P!Normal(s) \in P!Named /\ s \in P!Aliases(P!Normal(s))
        /\ P!Normal(n) \in P!Named /\ n \in P!Aliases(P!Normal(n))
    BY <2>4, NameFacts DEF Name
  <2>7. P!PartOf(x, P!Normal(s)) \/ P!PartOf(P!Normal(s), x)
    BY <2>5, <2>6, AliasesApart
  <2>8. /\ P!PartOf(x, P!Normal(s)) => P!Normal(s) = x
        /\ P!PartOf(P!Normal(s), x) => P!IsPrefix(P!Normal(s), x)
    BY <1>3, <2>6 DEF P!WholeNames, LookedFor
  <2> QED  BY <1>0, <2>4, <2>7, <2>8, Zenon
<1> QED  BY <1>1, <1>2, <1>3

------------------------------------------------------------------------------
(* What is let through *)

ScopeInv == pScope \in {P!Allowlist(names) : names \in Allowlists}

LEMMA ScopeFacts ==
    ASSUME ScopeInv, pScope # Unset, NEW a \in pScope
    PROVE  a \in P!Named /\ \E n \in UNION Allowlists : a = P!Normal(n)
<1>1. PICK names \in Allowlists : pScope = P!Allowlist(names)
  BY DEF ScopeInv
<1>2. pScope = {P!Normal(n) : n \in names}
  BY <1>1 DEF P!Allowlist
<1>3. PICK n \in names : a = P!Normal(n)
  BY <1>2
<1> QED  BY <1>1, <1>3 DEF P!Named

\* With whole names the scope admits its names and their beginnings.
LEMMA AdmitsFacts ==
    ASSUME P!WholeNames, ScopeInv, NEW n, P!Normal(n) \in P!Named, P!Admits(n)
    PROVE  P!LetThrough(n)
<1> SUFFICES ASSUME pScope # Unset PROVE P!LetThrough(n)
  BY DEF P!LetThrough, P!InScope
<1>1. PICK x : x = P!Normal(n)
  OBVIOUS
<1>2. x \in P!Named /\ x \in Seq(STRING)
  BY <1>1, NamedFacts
<1>3. PICK a \in pScope : P!IsPrefix(Append(a, "."), x) \/ P!IsPrefix(x, a)
  BY <1>1 DEF P!Admits
<1>4. a \in Seq(STRING) /\ "." \in STRING
  BY <1>3, ScopeFacts, NamedFacts, PagesParts DEF P!PagesAssumption
<1>5. ~P!IsPrefix(Append(a, "."), x)
  <2>1. "." \notin P!Range(x)
    BY <1>2 DEF P!WholeNames
  <2> QED  BY <1>2, <1>4, <2>1, PieceOfLonger
<1> QED  BY <1>1, <1>3, <1>5 DEF P!LetThrough

\* What a name is taken for is let through where the name is.
LEMMA TakenFacts ==
    ASSUME P!WholeNames, ScopeInv, pScope # Unset, NEW n \in LookedFor, Name(n), P!LetThrough(n),
           P!Resolve(n) # Unset
    PROVE  P!LetThrough(P!Resolve(n))
<1>1. PICK x, y : x = P!Normal(P!Resolve(n)) /\ y = P!Normal(n)
  OBVIOUS
<1>2. P!Resolve(n) \in P!Sources /\ P!IsPrefix(x, y)
  BY <1>1, ResolveFacts
<1>3. x \in Seq(STRING) /\ y \in Seq(STRING)
  BY <1>1, <1>2, NameFacts DEF Name
<1>4. PICK a \in pScope : y = a \/ P!IsPrefix(y, a)
  BY <1>1 DEF P!LetThrough, P!InScope
<1>5. a \in Seq(STRING)
  BY <1>4, ScopeFacts, NamedFacts
<1>6. P!IsPrefix(x, a)
  BY <1>2, <1>3, <1>4, <1>5, PrefixTwice
<1> QED  BY <1>1, <1>6 DEF P!LetThrough

\* The sources that a search is for are let through.
LEMMA SelectedFacts ==
    ASSUME P!WholeNames, ScopeInv, NEW requested \in P!Requests, ~P!Nothing(requested),
           Unset \notin P!Selected(P!Intersect(requested)),
           NEW s \in P!Selected(P!Intersect(requested))
    PROVE  P!LetThrough(s)
<1> SUFFICES ASSUME pScope # Unset PROVE P!LetThrough(s)
  BY DEF P!LetThrough, P!InScope
<1>1. PICK names : names = P!Intersect(requested)
  OBVIOUS
<1>2. CASE requested = Unset \/ requested = {}
  <2>1. names = pScope /\ names # Unset
    BY <1>1, <1>2 DEF P!Intersect
  <2>2. PICK n \in pScope : s = P!Resolve(n)
    BY <1>1, <2>1 DEF P!Selected
  <2>3. P!Resolve(n) # Unset
    BY <1>1, <2>1, <2>2 DEF P!Selected
  <2>4. PICK m \in UNION Allowlists : n = P!Normal(m)
    BY <2>2, ScopeFacts
  <2>5. n \in P!Named /\ P!Normal(n) = n
    BY <2>2, ScopeFacts, NormalTwice
  <2>6. Name(n) /\ n \in LookedFor /\ P!LetThrough(n)
    BY <2>2, <2>4, <2>5, NormalTwice DEF LookedFor, P!LetThrough, P!InScope
  <2> QED  BY <2>2, <2>3, <2>6, TakenFacts
<1>3. CASE requested # Unset /\ requested # {}
  <2>1. names = {n \in {P!Normal(r) : r \in requested} : P!Admits(n)}
    BY <1>1, <1>3 DEF P!Intersect
  <2>2. requested \in SUBSET Asked
    BY <1>3 DEF P!Requests
  <2>3. names # Unset
    <3>1. PICK some : some = {r \in requested : P!Admits(P!Normal(r))}
      OBVIOUS
    <3>2. names = {P!Normal(r) : r \in some} /\ some \in SUBSET Asked
      BY <2>1, <2>2, <3>1
    <3> QED  BY <3>2, PagesParts DEF P!PagesAssumption
  <2>4. PICK n \in names : s = P!Resolve(n)
    BY <1>1, <2>3 DEF P!Selected
  <2>5. P!Resolve(n) # Unset
    BY <1>1, <2>3, <2>4 DEF P!Selected
  <2>6. n \in P!Named /\ P!Admits(n)
    BY <2>1, <2>2, <2>4 DEF P!Named
  <2>7. P!Normal(n) = n
    BY <2>6, NormalTwice
  <2>8. Name(n) /\ n \in LookedFor /\ P!LetThrough(n)
    <3>1. n \in LookedFor
      BY <2>1, <2>2, <2>4 DEF LookedFor
    <3>2. P!Normal(n) \in P!Named /\ P!Admits(n)
      BY <2>6, <2>7
    <3> QED  BY <2>6, <3>1, <3>2, NormalTwice, AdmitsFacts
  <2> QED  BY <2>4, <2>5, <2>8, TakenFacts
<1> QED  BY <1>2, <1>3

\* A tool that looks at the scope lists what it lets through.
LEMMA PagesKept ==
    ASSUME P!WholeNames, ScopeInv, P!Next
    PROVE  ScopeInv' /\ P!ScopeKept'
<1>1. pScope' = pScope
  BY DEF P!Next, P!Tool, P!Info, P!Packages, P!WorkspaceContext, P!Capability, P!Outline,
         P!Open, P!SymbolResource, P!Search, P!Suggest, P!Compose, P!Return, P!Reindex
<1>2. ScopeInv'
  BY <1>1 DEF ScopeInv
<1>3. \A s : P!LetThrough(s) <=> P!LetThrough(s)'
  BY <1>1 DEF P!LetThrough, P!InScope
<1>4. ASSUME NEW s \in P!Sources, P!Admits(s) PROVE P!LetThrough(s)
  BY <1>4, NameFacts, AdmitsFacts DEF Name
<1>5. ASSUME NEW tool, P!Fails(tool) PROVE P!ScopeKept'
  BY <1>5 DEF P!Fails, P!ScopeKept
<1>6. ASSUME NEW tool, NEW listed, NEW named, P!Tells(tool, listed, named),
             \A s \in listed : P!LetThrough(s)
      PROVE  P!ScopeKept'
  BY <1>3, <1>6 DEF P!Tells, P!ScopeKept
<1>7. ASSUME NEW up \in Up, P!Tool(up) PROVE P!ScopeKept'
  <2>1. up \subseteq P!Sources
    BY PagesParts DEF P!PagesAssumption
  <2>2. CASE P!Info(up) \/ P!Packages(up)
    <3>1. PICK tool, named : P!Tells(tool, {s \in P!Sources : P!Admits(s)}, named)
      BY <2>2 DEF P!Info, P!Packages
    <3> QED  BY <1>4, <1>6, <3>1
  <2>3. CASE P!WorkspaceContext(up)
    BY <2>3 DEF P!WorkspaceContext, P!Answers, P!Tells, P!ScopeKept
  <2>4. CASE P!Capability
    BY <1>5, <2>4 DEF P!Capability
  <2>5. ASSUME NEW n \in Asked, P!Outline(n, up) PROVE P!ScopeKept'
    <3>1. CASE P!Admits(n) /\ P!Resolve(n) \in up
      <4>1. P!Tells("outline", {P!Resolve(n)}, {})
        BY <2>5, <3>1 DEF P!Outline, P!Answers
      <4>2. P!Resolve(n) # Unset
        BY <2>1, <3>1, PagesParts DEF P!PagesAssumption
      <4>3. P!LetThrough(n) /\ n \in LookedFor /\ Name(n)
        BY <3>1, NameFacts, AdmitsFacts DEF Name, LookedFor
      <4>4. P!LetThrough(P!Resolve(n))
        BY <4>2, <4>3, TakenFacts DEF P!LetThrough, P!InScope
      <4> QED  BY <1>6, <4>1, <4>4
    <3>2. CASE ~(P!Admits(n) /\ P!Resolve(n) \in up)
      BY <1>5, <2>5, <3>2 DEF P!Outline
    <3> QED  BY <3>1, <3>2
  <2>6. ASSUME NEW r \in P!Refs, P!Open(r, up) PROVE P!ScopeKept'
    BY <2>6 DEF P!Open, P!ScopeKept
  <2>7. ASSUME NEW r \in P!Refs, NEW n \in Asked, P!SymbolResource(n, r, up) PROVE P!ScopeKept'
    BY <2>7 DEF P!SymbolResource, P!Answers, P!Tells, P!Fails, P!ScopeKept
  <2>8. ASSUME NEW req \in P!Requests, P!Search(req, up) PROVE P!ScopeKept'
    <3>1. PICK sought : sought = P!Intersect(req)
      OBVIOUS
    <3>2. CASE P!Nothing(req) \/ Unset \in P!Selected(sought)
      BY <1>5, <2>8, <3>1, <3>2 DEF P!Search
    <3>3. CASE ~(P!Nothing(req) \/ Unset \in P!Selected(sought))
      <4>1. PICK hits \in P!Hits(sought, up) : P!Tells("search", {r.source : r \in hits}, {})
        BY <2>8, <3>1, <3>3 DEF P!Search, P!Answers
      <4>2. \A s \in {r.source : r \in hits} : s \in P!Selected(sought)
        BY <4>1 DEF P!Hits, P!Exact
      <4>3. ASSUME NEW s \in P!Selected(sought) PROVE P!LetThrough(s)
        BY <3>1, <3>3, <4>3, SelectedFacts
      <4> QED  BY <1>6, <4>1, <4>2, <4>3
    <3> QED  BY <3>2, <3>3
  <2>9. ASSUME NEW intents \in Tasks, P!Suggest(intents, up) PROVE P!ScopeKept'
    <3>1. PICK hits, named : hits \in P!Hits(Unset, up) /\
            P!Tells("suggest", {r.source : r \in {h \in hits : P!Admits(h.source)}}
                                 \cup {s \in P!Sources : P!Admits(s)}
                                 \cup {p \in P!Preferred(intents, {s \in up : P!Admits(s)}) : P!Admits(p)}, named)
      BY <2>9 DEF P!Suggest
    <3>2. \A h \in hits : h.source \in P!Sources
      BY <2>1, <3>1 DEF P!Hits, P!Exact
    <3>3. \A p \in P!Preferred(intents, {s \in up : P!Admits(s)}) : p \in P!Sources
      BY <2>1 DEF P!Preferred, P!Fillers
    <3>4. \A s \in {r.source : r \in {h \in hits : P!Admits(h.source)}}
                    \cup {s \in P!Sources : P!Admits(s)}
                    \cup {p \in P!Preferred(intents, {s \in up : P!Admits(s)}) : P!Admits(p)} :
            P!LetThrough(s)
      BY <1>4, <3>2, <3>3
    <3> QED  BY <1>6, <3>1, <3>4
  <2>10. ASSUME NEW task \in BOOLEAN, NEW intents \in Tasks, NEW refs, NEW req \in P!Requests,
                NEW budget \in PageBudgets, P!Compose(task, intents, refs, req, budget, up)
         PROVE  P!ScopeKept'
    <3>1. pAnswer'.tool = "compose"
      <4>1. CASE P!Fails("compose")
        BY <4>1 DEF P!Fails
      <4>2. CASE ~P!Fails("compose")
        <5>1. PICK opened, size, pages :
                pAnswer' = [tool |-> "compose", ok |-> TRUE, listed |-> P!Sources, named |-> P!Sources,
                            asked |-> opened, opened |-> opened, budget |-> budget,
                            length |-> P!Fitted(pages, size)]
          BY <2>10, <4>2, Zenon DEF P!Compose
        <5> QED  BY <5>1
      <4> QED  BY <4>1, <4>2
    <3> QED  BY <3>1 DEF P!ScopeKept
  <2> QED  BY <1>7, <2>2, <2>3, <2>4, <2>5, <2>6, <2>7, <2>8, <2>9, <2>10 DEF P!Tool
<1>8. CASE P!Return
  <2>1. pAnswer' = P!NoAnswer
    BY <1>8 DEF P!Return
  <2>2. pAnswer'.tool = "none"
    BY <2>1 DEF P!NoAnswer
  <2> QED  BY <1>2, <2>2 DEF P!ScopeKept
<1>9. ASSUME NEW s \in P!Sources, P!Reindex(s) PROVE P!ScopeKept'
  BY <1>9 DEF P!Reindex, P!NoAnswer, P!ScopeKept
<1> QED  BY <1>2, <1>7, <1>8, <1>9 DEF P!Next

(* Where names are whole, what info, packages, outline, search and suggest   *)
(* list is let through by the scope, for every inventory, allowlist and      *)
(* order of calls: a name that is let through is taken for a source that is  *)
(* (source_scope.py:79-93, guide.py:134-160).                                *)
THEOREM ScopeKeptAlways ==
    ASSUME P!WholeNames
    PROVE  PartsSpec => []ScopeKept
<1> DEFINE Inv == part = "pages" => ScopeInv /\ P!ScopeKept
<1>1. PartsInit => Inv
  BY PagesPart DEF P!Init, ScopeInv, P!ScopeKept, P!NoAnswer
<1>2. Inv /\ [PartsNext]_partsVars => Inv'
  <2>1. ASSUME part = "pages", ScopeInv, P!ScopeKept, [P!Next]_(P!vars) PROVE (ScopeInv /\ P!ScopeKept)'
    <3>1. CASE P!Next
      BY <2>1, <3>1, PagesKept
    <3>2. CASE UNCHANGED P!vars
      BY <2>1, <3>2 DEF P!vars, ScopeInv, P!ScopeKept, P!LetThrough, P!InScope
    <3> QED  BY <2>1, <3>1, <3>2
  <2>2. CASE part = "pages"
    BY <2>1, <2>2, PagesPart
  <2>3. CASE part # "pages"
    BY <2>3, OtherPart
  <2> QED  BY <2>2, <2>3
<1>3. Inv => ScopeKept
  BY DEF ScopeKept
<1> QED  BY <1>1, <1>2, <1>3, PTL DEF PartsSpec

------------------------------------------------------------------------------
(* The text of compose *)

LEMMA Sizing == \A S : P!Cardinality(S) = Cardinality(S) /\ (P!IsFiniteSet(S) <=> IsFiniteSet(S))
BY DEF P!Cardinality, Cardinality, P!IsFiniteSet, IsFiniteSet

LEMMA ImageFinite ==
    ASSUME NEW f, f = [x \in DOMAIN f |-> f[x]], IsFiniteSet(DOMAIN f)
    PROVE  IsFiniteSet({f[x] : x \in DOMAIN f})
<1>1. PICK S, T : S = DOMAIN f /\ T = {f[x] : x \in DOMAIN f}
  OBVIOUS
<1>2. f \in [S -> T] /\ \A y \in T : \E x \in S : f[x] = y
  BY <1>1
<1>3. f \in Surjection(S, T)
  BY <1>2 DEF Surjection
<1> QED  BY <1>1, <1>3, FS_Surjection

\* Pages after pages are what their definition says.
LEMMA FitUpTo ==
    ASSUME NEW pages, NEW room, Len(pages) \in Nat
    PROVE  \E f : /\ f = [n \in 0..Len(pages) |->
                            IF n = 0 THEN [used |-> 0, full |-> FALSE]
                            ELSE P!WithPage(f[n - 1], pages[n], room)]
                  /\ P!Fit(pages, room) = f[Len(pages)].used
<1> DEFINE Upto(k) == \E f : f = [n \in 0..k |->
                            IF n = 0 THEN [used |-> 0, full |-> FALSE]
                            ELSE P!WithPage(f[n - 1], pages[n], room)]
<1>1. PICK T : T = {k \in Nat : Upto(k)}
  OBVIOUS
<1>2. Upto(0)
  <2>1. PICK f : f = [n \in 0..0 |-> [used |-> 0, full |-> FALSE]]
    OBVIOUS
  <2>2. f = [n \in 0..0 |-> IF n = 0 THEN [used |-> 0, full |-> FALSE]
                            ELSE P!WithPage(f[n - 1], pages[n], room)]
    BY <2>1
  <2> QED  BY <2>2
<1>3. ASSUME NEW k \in Nat, Upto(k) PROVE Upto(k + 1)
  <2>1. PICK f : f = [n \in 0..k |->
                            IF n = 0 THEN [used |-> 0, full |-> FALSE]
                            ELSE P!WithPage(f[n - 1], pages[n], room)]
    BY <1>3
  <2>2. PICK g : g = [n \in 0..(k + 1) |->
                       IF n <= k THEN f[n] ELSE P!WithPage(f[k], pages[k + 1], room)]
    OBVIOUS
  <2>3. ASSUME NEW n \in 0..(k + 1)
        PROVE  g[n] = IF n = 0 THEN [used |-> 0, full |-> FALSE]
                      ELSE P!WithPage(g[n - 1], pages[n], room)
    <3>1. CASE n <= k /\ n # 0
      <4>1. g[n] = f[n] /\ g[n - 1] = f[n - 1] /\ n \in 0..k
        BY <2>2, <3>1
      <4>2. f[n] = P!WithPage(f[n - 1], pages[n], room)
        BY <2>1, <3>1, <4>1
      <4> QED  BY <3>1, <4>1, <4>2
    <3>2. CASE n = k + 1
      <4>1. g[n] = P!WithPage(f[k], pages[k + 1], room) /\ g[n - 1] = f[k] /\ n # 0
        BY <2>2, <3>2
      <4> QED  BY <3>2, <4>1
    <3>3. CASE n = 0
      <4>1. g[0] = f[0] /\ f[0] = [used |-> 0, full |-> FALSE]
        BY <2>1, <2>2
      <4> QED  BY <3>3, <4>1
    <3> QED  BY <3>1, <3>2, <3>3
  <2>4. g = [n \in 0..(k + 1) |-> g[n]]
    BY <2>2
  <2>5. g = [n \in 0..(k + 1) |-> IF n = 0 THEN [used |-> 0, full |-> FALSE]
                      ELSE P!WithPage(g[n - 1], pages[n], room)]
    BY <2>3, <2>4
  <2> QED  BY <2>5
<1>4. T = Nat
  <2> HIDE DEF Upto
  <2>1. T \in SUBSET Nat /\ 0 \in T
    BY <1>1, <1>2
  <2>2. \A k \in T : k + 1 \in T
    BY <1>1, <1>3
  <2> QED  BY <2>1, <2>2, Counting
<1>5. Upto(Len(pages))
  <2> HIDE DEF Upto
  <2> QED  BY <1>1, <1>4
<1> QED  BY <1>5, Zenon DEF P!Fit

Filled(was, room) ==
    was \in [used : Nat, full : BOOLEAN] /\ was.used <= room + 2 /\ (~was.full => was.used <= room)

LEMMA WithPageFilled ==
    ASSUME NEW was, NEW size \in Nat, NEW room \in Nat, Filled(was, room)
    PROVE  Filled(P!WithPage(was, size, room), room)
<1>1. Ellipsis \in Nat /\ Ellipsis <= 40
  BY PagesParts DEF P!PagesAssumption, P!Mark
<1>2. was.used \in Nat /\ was.full \in BOOLEAN /\ was = [used |-> was.used, full |-> was.full]
  BY DEF Filled
<1> DEFINE left == room - was.used
<1>3. CASE was.full \/ size = 0
  BY <1>3 DEF P!WithPage
<1>4. CASE ~(was.full \/ size = 0) /\ size + 2 <= left
  <2>1. P!WithPage(was, size, room) = [was EXCEPT !.used = @ + size + 2]
    BY <1>4, Zenon DEF P!WithPage
  <2>2. P!WithPage(was, size, room) = [used |-> was.used + size + 2, full |-> was.full]
    BY <1>2, <2>1
  <2> QED  BY <1>2, <1>4, <2>2 DEF Filled
<1>5. CASE ~(was.full \/ size = 0) /\ ~(size + 2 <= left)
  <2>1. P!WithPage(was, size, room) =
          [used |-> was.used + IF left - 40 > 80 THEN left - 40 + Ellipsis + 2 ELSE 0, full |-> TRUE]
    BY <1>5, Zenon DEF P!WithPage, P!Mark, P!Least
  <2>2. was.used <= room
    BY <1>5 DEF Filled
  <2>3. PICK more : more = IF left - 40 > 80 THEN left - 40 + Ellipsis + 2 ELSE 0
    OBVIOUS
  <2>4. more \in Nat /\ was.used + more <= room + 2
    BY <1>1, <1>2, <2>2, <2>3
  <2>5. P!WithPage(was, size, room) = [used |-> was.used + more, full |-> TRUE]
    BY <2>1, <2>3
  <2> QED  BY <1>2, <2>4, <2>5 DEF Filled
<1> QED  BY <1>3, <1>4, <1>5

LEMMA FittedFits ==
    ASSUME NEW pages \in Seq(Nat), NEW room \in Nat
    PROVE  P!Fitted(pages, room) <= room
<1>1. Len(pages) \in Nat /\ \A i \in 1..Len(pages) : pages[i] \in Nat
  BY LenProperties, ElementOfSeq
<1>2. PICK f : /\ f = [n \in 0..Len(pages) |->
                            IF n = 0 THEN [used |-> 0, full |-> FALSE]
                            ELSE P!WithPage(f[n - 1], pages[n], room)]
               /\ P!Fit(pages, room) = f[Len(pages)].used
  BY <1>1, FitUpTo
<1>3. PICK T : T = {n \in Nat : n <= Len(pages) => Filled(f[n], room)}
  OBVIOUS
<1>4. 0 \in T
  <2>1. f[0] = [used |-> 0, full |-> FALSE]
    BY <1>1, <1>2
  <2>2. Filled(f[0], room)
    BY <2>1 DEF Filled
  <2> QED  BY <1>3, <2>2
<1>5. ASSUME NEW n \in T PROVE n + 1 \in T
  <2> SUFFICES ASSUME n + 1 <= Len(pages) PROVE Filled(f[n + 1], room)
    BY <1>3
  <2>1. /\ n + 1 \in 0..Len(pages) /\ n + 1 \in 1..Len(pages) /\ n + 1 # 0 /\ (n + 1) - 1 = n
        /\ Filled(f[n], room)
    BY <1>1, <1>3
  <2>2. f[n + 1] = P!WithPage(f[n], pages[n + 1], room)
    BY <1>2, <2>1
  <2> QED  BY <1>1, <2>1, <2>2, WithPageFilled
<1>6. Filled(f[Len(pages)], room)
  <2>1. T = Nat
    BY <1>3, <1>4, <1>5, Counting
  <2> QED  BY <1>1, <1>3, <2>1
<1> QED  BY <1>2, <1>6 DEF P!Fitted, Filled

\* The catalog and the guide are of finitely many sources and roles.
LEMMA CatalogFacts ==
    /\ IsFiniteSet(P!Sources)
    /\ P!CatalogPage \in Nat
    /\ \A intents \in Tasks, up \in Up : P!GuidePage(intents, up) \in Nat
<1>1. IsFiniteSet(P!Sources)
  <2>1. /\ Inventory = [i \in DOMAIN Inventory |-> Inventory[i]] /\ DOMAIN Inventory = 1..Len(Inventory)
        /\ Len(Inventory) \in Nat
    BY PagesParts, LenProperties DEF P!PagesAssumption
  <2>2. IsFiniteSet(DOMAIN Inventory)
    <3>1. 1 \in Int /\ Len(Inventory) \in Int
      BY <2>1
    <3> QED  BY <2>1, <3>1, FS_Interval
  <2>3. IsFiniteSet({Inventory[i] : i \in DOMAIN Inventory})
    BY <2>1, <2>2, ImageFinite
  <2> QED  BY <2>3 DEF P!Sources, P!Range
<1>2. CardSize \in Nat /\ GuideSize \in Nat
  BY PagesParts DEF P!PagesAssumption
<1>3. P!CatalogPage \in Nat
  BY <1>1, <1>2, Sizing, FS_CardinalityType DEF P!CatalogPage
<1>4. ASSUME NEW intents \in Tasks, NEW up \in Up PROVE P!GuidePage(intents, up) \in Nat
  <2>1. IsFiniteSet(intents) /\ up \in SUBSET P!Sources /\ \A s \in up : IsFiniteSet(RolesOf[s])
    BY Sizing, PagesParts DEF P!PagesAssumption
  <2>2. IsFiniteSet(UNION {RolesOf[s] : s \in up})
    <3>1. PICK f : f = [s \in up |-> RolesOf[s]]
      OBVIOUS
    <3>2. IsFiniteSet(up)
      BY <1>1, <2>1, FS_Subset
    <3>3. IsFiniteSet({f[s] : s \in DOMAIN f})
      BY <3>1, <3>2, ImageFinite
    <3>4. \A T \in {f[s] : s \in DOMAIN f} : IsFiniteSet(T)
      BY <2>1, <3>1
    <3>5. IsFiniteSet(UNION {f[s] : s \in DOMAIN f})
      BY <3>3, <3>4, FS_UNION
    <3>6. {f[s] : s \in DOMAIN f} = {RolesOf[s] : s \in up}
      BY <3>1
    <3> QED  BY <3>5, <3>6
  <2>3. IsFiniteSet(P!Checked(intents, up))
    BY <2>1, <2>2 DEF P!Checked
  <2>4. IsFiniteSet(P!Checklist(intents, up))
    <3>1. PICK f : f = [r \in P!Checked(intents, up) |->
                    [role |-> r,
                     prefer |-> IF P!Fillers(r, up) # {} THEN P!Fillers(r, up) ELSE Hints[r],
                     available |-> P!Fillers(r, up) # {}]]
      OBVIOUS
    <3>2. IsFiniteSet({f[r] : r \in DOMAIN f})
      BY <2>3, <3>1, ImageFinite
    <3>3. {f[r] : r \in DOMAIN f} = P!Checklist(intents, up)
      BY <3>1 DEF P!Checklist
    <3> QED  BY <3>2, <3>3
  <2> QED  BY <1>2, <2>4, Sizing, FS_CardinalityType DEF P!GuidePage
<1> QED  BY <1>1, <1>3, <1>4

ExactRefs == [form : {"exact"}, source : P!Sources, snap : Nat]
FoundInv == pSnap \in [P!Sources -> Nat] /\ pFound \subseteq ExactRefs

LEMMA FoundKept ==
    ASSUME FoundInv, [P!Next]_(P!vars)
    PROVE  FoundInv'
<1>1. ASSUME NEW names, NEW up \in Up PROVE \A hits \in P!Hits(names, up) : hits \subseteq ExactRefs
  <2>1. up \subseteq P!Sources
    BY PagesParts DEF P!PagesAssumption
  <2> QED  BY <2>1 DEF FoundInv, P!Hits, P!Exact, ExactRefs
<1>2. ASSUME NEW up \in Up, P!Tool(up) PROVE pSnap' = pSnap /\ pFound' \subseteq ExactRefs
  <2>1. CASE UNCHANGED <<pSnap, pFound>>
    BY <2>1 DEF FoundInv
  <2>2. ASSUME NEW req \in P!Requests, P!Search(req, up) PROVE pSnap' = pSnap /\ pFound' \subseteq ExactRefs
    BY <1>1, <2>2 DEF P!Search, FoundInv
  <2>3. ASSUME NEW intents \in Tasks, P!Suggest(intents, up) PROVE pSnap' = pSnap /\ pFound' \subseteq ExactRefs
    <3>1. PICK hits \in P!Hits(Unset, up) : pFound' = pFound \cup {r \in hits : P!Admits(r.source)}
      BY <2>3 DEF P!Suggest
    <3> QED  BY <1>1, <2>3, <3>1 DEF P!Suggest, FoundInv
  <2>4. ASSUME NEW task \in BOOLEAN, NEW intents \in Tasks, NEW refs, NEW req \in P!Requests,
               NEW budget \in PageBudgets, P!Compose(task, intents, refs, req, budget, up)
        PROVE  pSnap' = pSnap /\ pFound' \subseteq ExactRefs
    <3>1. CASE pFound' = pFound
      BY <2>4, <3>1 DEF P!Compose, FoundInv
    <3>2. CASE pFound' # pFound
      <4>1. PICK details \in IF task THEN P!Hits(P!Intersect(req), up) ELSE {{}} :
              pFound' = pFound \cup details
        BY <2>4, <3>2 DEF P!Compose
      <4> QED  BY <1>1, <2>4, <4>1 DEF P!Compose, FoundInv
    <3> QED  BY <3>1, <3>2
  <2> QED
    BY <1>2, <2>1, <2>2, <2>3, <2>4
    DEF P!Tool, P!Info, P!Packages, P!WorkspaceContext, P!Capability, P!Outline, P!Open, P!SymbolResource
<1>3. CASE P!Return
  BY <1>3 DEF P!Return, FoundInv
<1>4. ASSUME NEW s \in P!Sources, P!Reindex(s) PROVE FoundInv'
  BY <1>4 DEF P!Reindex, FoundInv
<1>5. CASE UNCHANGED P!vars
  BY <1>5 DEF P!vars, FoundInv
<1>6. ASSUME NEW up \in Up, P!Tool(up) PROVE FoundInv'
  BY <1>2, <1>6 DEF FoundInv
<1> QED  BY <1>3, <1>4, <1>5, <1>6 DEF P!Next

LEMMA ComposeFits ==
    ASSUME FoundInv, NEW up \in Up, NEW task \in BOOLEAN, NEW intents \in Tasks,
           NEW refs \in {{}, pFound, P!Refs}, NEW req \in P!Requests, NEW budget \in PageBudgets,
           P!Compose(task, intents, refs, req, budget, up)
    PROVE  P!MarkdownFits'
<1>1. CASE P!Fails("compose")
  BY <1>1 DEF P!Fails, P!MarkdownFits
<1>2. CASE ~P!Fails("compose")
  <2>1. PICK details, opened :
          /\ details \in IF task THEN P!Hits(P!Intersect(req), up) ELSE {{}}
          /\ opened = {r \in refs : P!Described(r, up)}
          /\ pAnswer' = [tool |-> "compose", ok |-> TRUE, listed |-> P!Sources, named |-> P!Sources,
                         asked |-> opened, opened |-> opened, budget |-> budget,
                         length |-> P!Fitted(<<P!CatalogPage, P!GuidePage(intents, up)>>
                             \o [i \in 1..P!Cardinality(details \cup opened) |-> PageSize], budget)]
    BY <1>2, Zenon DEF P!Compose
  <2>2. PICK exact : exact = {P!Exact(s) : s \in P!Sources}
    OBVIOUS
  <2>3. IsFiniteSet(exact)
    <3>1. PICK f : f = [s \in P!Sources |-> P!Exact(s)]
      OBVIOUS
    <3>2. IsFiniteSet({f[s] : s \in DOMAIN f})
      BY <3>1, CatalogFacts, ImageFinite
    <3>3. {f[s] : s \in DOMAIN f} = exact
      BY <2>2, <3>1
    <3> QED  BY <3>2, <3>3
  <2>4. up \subseteq P!Sources
    BY PagesParts DEF P!PagesAssumption
  <2>5. details \subseteq exact
    BY <2>1, <2>2, <2>4 DEF P!Hits
  <2>6. opened \subseteq exact
    <3>1. ASSUME NEW r \in opened PROVE r \in exact
      <4>1. r \in refs /\ r.form = "exact" /\ r.source \in up /\ r.snap = pSnap[r.source]
        BY <2>1 DEF P!Described
      <4>2. r \in pFound
        BY <4>1 DEF P!Refs, P!Short, P!Registered
      <4>3. r \in ExactRefs
        BY <4>2 DEF FoundInv
      <4>4. r = P!Exact(r.source)
        BY <4>1, <4>3 DEF ExactRefs, P!Exact
      <4> QED  BY <2>2, <2>4, <4>1, <4>4
    <3> QED  BY <3>1
  <2>7. PICK n : n = P!Cardinality(details \cup opened)
    OBVIOUS
  <2>8. n \in Nat
    BY <2>3, <2>5, <2>6, <2>7, Sizing, FS_Subset, FS_CardinalityType
  <2>9. PICK first, rest : /\ first = <<P!CatalogPage, P!GuidePage(intents, up)>>
                           /\ rest = [i \in 1..n |-> PageSize]
    OBVIOUS
  <2>10. first \in Seq(Nat)
    BY <2>9, CatalogFacts
  <2>11. rest \in Seq(Nat)
    <3>1. PageSize \in Nat
      BY PagesParts DEF P!PagesAssumption
    <3>2. rest \in [1..n -> Nat]
      BY <2>9, <3>1
    <3> QED  BY <2>8, <3>2, SeqDef
  <2>12. PICK pages : pages = first \o rest
    OBVIOUS
  <2>13. pages \in Seq(Nat)
    BY <2>10, <2>11, <2>12, ConcatProperties
  <2>14. budget \in Nat
    BY PagesParts DEF P!PagesAssumption
  <2>15. pAnswer'.length = P!Fitted(pages, budget) /\ pAnswer'.budget = budget
    BY <2>1, <2>7, <2>9, <2>12
  <2>16. P!Fitted(pages, budget) <= budget
    BY <2>13, <2>14, FittedFits
  <2> QED  BY <2>15, <2>16 DEF P!MarkdownFits
<1> QED  BY <1>1, <1>2

(* The text that compose answers with fits its budget, for every size of     *)
(* page and budget: the room kept for the mark of a cut page is not less     *)
(* than the mark (browse.py:616-629).                                        *)
THEOREM MarkdownFitsAlways == PartsSpec => []MarkdownFits
<1> DEFINE Inv == part = "pages" => FoundInv /\ P!MarkdownFits
<1>1. PartsInit => Inv
  <2>1. P!Init => FoundInv /\ P!MarkdownFits
    BY DEF P!Init, FoundInv, P!MarkdownFits, P!NoAnswer
  <2> QED  BY <2>1, PagesPart
<1>2. Inv /\ [PartsNext]_partsVars => Inv'
  <2>1. ASSUME FoundInv, P!MarkdownFits, [P!Next]_(P!vars) PROVE (FoundInv /\ P!MarkdownFits)'
    <3>1. FoundInv'
      BY <2>1, FoundKept
    <3>2. ASSUME NEW up \in Up, P!Tool(up) PROVE P!MarkdownFits'
      <4>1. ASSUME NEW task \in BOOLEAN, NEW intents \in Tasks, NEW req \in P!Requests,
                   NEW budget \in PageBudgets, NEW refs \in {{}, pFound, P!Refs},
                   P!Compose(task, intents, refs, req, budget, up)
            PROVE  P!MarkdownFits'
        BY <2>1, <4>1, ComposeFits
      <4>2. CASE pAnswer'.tool # "compose"
        BY <4>2 DEF P!MarkdownFits
      <4>3. CASE pAnswer'.tool = "compose"
        BY <3>2, <4>1, <4>3
        DEF P!Tool, P!Info, P!Packages, P!WorkspaceContext, P!Capability, P!Outline, P!Open,
            P!SymbolResource, P!Search, P!Suggest, P!Answers, P!Tells, P!Fails
      <4> QED  BY <4>2, <4>3
    <3>3. ASSUME P!Return PROVE P!MarkdownFits'
      <4>1. pAnswer' = P!NoAnswer
        BY <3>3 DEF P!Return
      <4>2. pAnswer'.tool # "compose"
        BY <4>1 DEF P!NoAnswer
      <4> QED  BY <4>2 DEF P!MarkdownFits
    <3>4. ASSUME pAnswer' = pAnswer PROVE P!MarkdownFits'
      BY <2>1, <3>4, Zenon DEF P!MarkdownFits
    <3>5. ASSUME UNCHANGED P!vars \/ \E s \in P!Sources : P!Reindex(s) PROVE P!MarkdownFits'
      BY <3>4, <3>5 DEF P!vars, P!Reindex
    <3> QED  BY <2>1, <3>1, <3>2, <3>3, <3>4, <3>5 DEF P!Next
  <2>2. CASE part = "pages"
    BY <2>1, <2>2, PagesPart
  <2>3. CASE part # "pages"
    BY <2>3, OtherPart
  <2> QED  BY <2>2, <2>3
<1>3. Inv => MarkdownFits
  BY DEF MarkdownFits
<1> QED  BY <1>1, <1>2, <1>3, PTL DEF PartsSpec

------------------------------------------------------------------------------
(* Sequences and sums, of the answers to tasks *)

LEMMA FiniteIs ==
    \A S : E!Cardinality(S) = Cardinality(S) /\ (E!IsFiniteSet(S) <=> IsFiniteSet(S))
BY DEF E!Cardinality, Cardinality, E!IsFiniteSet, IsFiniteSet

\* A sequence and an element at its end.
LEMMA Lengthened ==
    ASSUME NEW S, NEW s \in Seq(S), NEW e \in S
    PROVE  /\ Append(s, e) \in Seq(S) /\ Append(s, e) # <<>>
           /\ E!Range(Append(s, e)) = E!Range(s) \cup {e}
           /\ E!IsInjective(s) /\ e \notin E!Range(s) => E!IsInjective(Append(s, e))
<1>1. /\ Append(s, e) \in Seq(S) /\ Len(Append(s, e)) = Len(s) + 1
      /\ \A i \in 1..Len(s) : Append(s, e)[i] = s[i]
      /\ Append(s, e)[Len(s) + 1] = e
  BY AppendProperties
<1>2. Len(s) \in Nat /\ DOMAIN s = 1..Len(s) /\ DOMAIN Append(s, e) = 1..(Len(s) + 1)
  BY <1>1, LenProperties
<1>3. E!Range(Append(s, e)) = E!Range(s) \cup {e}
  BY <1>1, <1>2 DEF E!Range
<1>4. ASSUME E!IsInjective(s), e \notin E!Range(s),
             NEW i \in DOMAIN Append(s, e), NEW j \in DOMAIN Append(s, e),
             Append(s, e)[i] = Append(s, e)[j]
      PROVE  i = j
  BY <1>1, <1>2, <1>4 DEF E!IsInjective, E!Range
<1> QED  BY <1>1, <1>2, <1>3, <1>4, EmptySeq DEF E!IsInjective

\* Those is what its definition says.
LEMMA ThoseUpTo ==
    ASSUME NEW s, NEW X, Len(s) \in Nat
    PROVE  \E f : /\ f = [n \in 0..Len(s) |->
                            IF n = 0 THEN <<>>
                            ELSE IF s[n] \in X THEN Append(f[n - 1], s[n]) ELSE f[n - 1]]
                  /\ E!Those(s, X) = f[Len(s)]
<1> DEFINE Upto(k) == \E f : f = [n \in 0..k |->
                            IF n = 0 THEN <<>>
                            ELSE IF s[n] \in X THEN Append(f[n - 1], s[n]) ELSE f[n - 1]]
<1>1. PICK T : T = {k \in Nat : Upto(k)}
  OBVIOUS
<1>2. Upto(0)
  <2>1. PICK f : f = [n \in 0..0 |-> <<>>]
    OBVIOUS
  <2>2. f = [n \in 0..0 |-> IF n = 0 THEN <<>>
                            ELSE IF s[n] \in X THEN Append(f[n - 1], s[n]) ELSE f[n - 1]]
    BY <2>1
  <2> QED  BY <2>2
<1>3. ASSUME NEW k \in Nat, Upto(k) PROVE Upto(k + 1)
  <2>1. PICK f : f = [n \in 0..k |->
                            IF n = 0 THEN <<>>
                            ELSE IF s[n] \in X THEN Append(f[n - 1], s[n]) ELSE f[n - 1]]
    BY <1>3
  <2>2. PICK g : g = [n \in 0..(k + 1) |->
                       IF n <= k THEN f[n] 
                       ELSE IF s[k + 1] \in X THEN Append(f[k], s[k + 1]) ELSE f[k]]
    OBVIOUS
  <2>3. ASSUME NEW n \in 0..(k + 1)
        PROVE  g[n] = IF n = 0 THEN <<>>
                      ELSE IF s[n] \in X THEN Append(g[n - 1], s[n]) ELSE g[n - 1]
    <3>1. CASE n <= k /\ n # 0
      <4>1. g[n] = f[n] /\ g[n - 1] = f[n - 1] /\ n \in 0..k
        BY <2>2, <3>1
      <4> QED  BY <2>1, <3>1, <4>1
    <3>2. CASE n = k + 1
      <4>1. g[n] = (IF s[k + 1] \in X THEN Append(f[k], s[k + 1]) ELSE f[k]) /\ g[n - 1] = f[k]
        BY <2>2, <3>2
      <4> QED  BY <3>2, <4>1
    <3>3. CASE n = 0
      <4>1. g[0] = f[0] /\ f[0] = <<>>
        BY <2>1, <2>2
      <4> QED  BY <3>3, <4>1
    <3> QED  BY <3>1, <3>2, <3>3
  <2>4. g = [n \in 0..(k + 1) |-> g[n]]
    BY <2>2
  <2>5. g = [n \in 0..(k + 1) |-> IF n = 0 THEN <<>>
                      ELSE IF s[n] \in X THEN Append(g[n - 1], s[n]) ELSE g[n - 1]]
    BY <2>3, <2>4
  <2> QED  BY <2>5
<1>4. T = Nat
  <2> HIDE DEF Upto
  <2>1. T \in SUBSET Nat /\ 0 \in T
    BY <1>1, <1>2
  <2>2. \A k \in T : k + 1 \in T
    BY <1>1, <1>3
  <2> QED  BY <2>1, <2>2, Counting
<1>5. Upto(Len(s))
  <2> HIDE DEF Upto
  <2> QED  BY <1>1, <1>4
<1> QED  BY <1>5, Zenon DEF E!Those

\* The elements of a sequence that are in a set.
LEMMA ThoseAre ==
    ASSUME NEW S, NEW s \in Seq(S), NEW X
    PROVE  /\ E!Those(s, X) \in Seq(S)
           /\ E!Range(E!Those(s, X)) = E!Range(s) \cap X
           /\ E!IsInjective(s) => E!IsInjective(E!Those(s, X))
           /\ Len(E!Those(s, X)) <= Len(s)
<1>1. Len(s) \in Nat /\ DOMAIN s = 1..Len(s) /\ \A i \in 1..Len(s) : s[i] \in S
  BY LenProperties, ElementOfSeq
<1>2. PICK f : /\ f = [n \in 0..Len(s) |->
                            IF n = 0 THEN <<>>
                            ELSE IF s[n] \in X THEN Append(f[n - 1], s[n]) ELSE f[n - 1]]
               /\ E!Those(s, X) = f[Len(s)]
  BY <1>1, ThoseUpTo
<1> DEFINE Good(n) ==
      /\ f[n] \in Seq(S)
      /\ E!Range(f[n]) = {s[i] : i \in 1..n} \cap X
      /\ E!IsInjective(s) => E!IsInjective(f[n])
      /\ Len(f[n]) <= n
<1>3. PICK T : T = {n \in Nat : n <= Len(s) => Good(n)}
  OBVIOUS
<1>4. 0 \in T
  <2>1. f[0] = <<>>
    BY <1>1, <1>2
  <2>2. {s[i] : i \in 1..0} = {} /\ DOMAIN <<>> = {}
    OBVIOUS
  <2>3. E!Range(<<>>) = {} /\ E!IsInjective(<<>>)
    BY <2>2 DEF E!Range, E!IsInjective
  <2>4. Len(<<>>) = 0 /\ <<>> \in Seq(S)
    OBVIOUS
  <2>5. Good(0)
    <3>1. Len(f[0]) <= 0 /\ f[0] \in Seq(S)
      BY <2>1, <2>4
    <3> QED  BY <2>1, <2>2, <2>3, <3>1
  <2> HIDE DEF Good
  <2> QED  BY <1>3, <2>5
<1>5. ASSUME NEW n \in T PROVE n + 1 \in T
  <2> SUFFICES ASSUME n + 1 <= Len(s) PROVE Good(n + 1)
    BY <1>3, <1>5
  <2>1. n \in Nat /\ n \in 0..Len(s) /\ n + 1 \in 0..Len(s) /\ n + 1 \in 1..Len(s) /\ Good(n)
    BY <1>1, <1>3
  <2>2. f[n + 1] = IF s[n + 1] \in X THEN Append(f[n], s[n + 1]) ELSE f[n]
    <3>1. \A m \in 0..Len(s) :
            f[m] = IF m = 0 THEN <<>>
                   ELSE IF s[m] \in X THEN Append(f[m - 1], s[m]) ELSE f[m - 1]
      BY <1>2
    <3>2. n + 1 # 0 /\ (n + 1) - 1 = n
      BY <2>1
    <3> QED  BY <2>1, <3>1, <3>2
  <2>3. {s[i] : i \in 1..(n + 1)} = {s[i] : i \in 1..n} \cup {s[n + 1]}
    <3>1. 1..(n + 1) = 1..n \cup {n + 1}
      BY <2>1
    <3> QED  BY <3>1
  <2>4. s[n + 1] \in S
    BY <1>1, <2>1
  <2>5. CASE s[n + 1] \in X
    <3>1. f[n + 1] = Append(f[n], s[n + 1])
      BY <2>2, <2>5
    <3>2. f[n + 1] \in Seq(S) /\ E!Range(f[n + 1]) = E!Range(f[n]) \cup {s[n + 1]}
      BY <2>1, <2>4, <3>1, Lengthened
    <3>6. Len(f[n + 1]) <= n + 1
      BY <2>1, <2>4, <3>1, AppendProperties, LenProperties
    <3>3. E!IsInjective(s) => s[n + 1] \notin E!Range(f[n])
      BY <1>1, <2>1 DEF E!IsInjective
    <3>4. E!IsInjective(s) => E!IsInjective(f[n + 1])
      BY <2>1, <2>4, <3>1, <3>3, Lengthened
    <3>5. E!Range(f[n + 1]) = {s[i] : i \in 1..(n + 1)} \cap X
      BY <2>1, <2>3, <2>5, <3>2
    <3> QED  BY <3>2, <3>4, <3>5, <3>6
  <2>6. CASE s[n + 1] \notin X
    <3>1. f[n + 1] = f[n] /\ Len(f[n]) <= n + 1
      BY <2>1, <2>2, <2>6, LenProperties
    <3>2. E!Range(f[n + 1]) = {s[i] : i \in 1..(n + 1)} \cap X
      BY <2>1, <2>3, <2>6, <3>1
    <3> QED  BY <2>1, <3>1, <3>2
  <2> QED  BY <2>5, <2>6
<1>6. Good(Len(s))
  <2>1. T = Nat
    <3> HIDE DEF Good
    <3> QED  BY <1>3, <1>4, <1>5, Counting
  <2> HIDE DEF Good
  <2> QED  BY <1>1, <1>3, <2>1
<1>7. E!Range(s) = {s[i] : i \in 1..Len(s)}
  BY <1>1 DEF E!Range
<1> QED  BY <1>2, <1>6, <1>7

\* The sum of a function is there, and takes one value after the other.
LEMMA Summing ==
    ASSUME NEW f, IsFiniteSet(DOMAIN f)
    PROVE  \E g : /\ g = [s \in SUBSET DOMAIN f |->
                            IF s = {} THEN 0
                            ELSE f[CHOOSE x \in s : TRUE] + g[s \ {CHOOSE x \in s : TRUE}]]
                  /\ E!SumFunction(f) = g[DOMAIN f]
<1> DEFINE Dom == DOMAIN f
           Small(k) == {s \in SUBSET Dom : Cardinality(s) <= k}
           Upto(k) == \E g : g = [s \in Small(k) |->
                            IF s = {} THEN 0
                            ELSE f[CHOOSE x \in s : TRUE] + g[s \ {CHOOSE x \in s : TRUE}]]
<1>0. ASSUME NEW s \in SUBSET Dom
      PROVE  /\ Cardinality(s) \in Nat /\ (Cardinality(s) = 0 <=> s = {})
             /\ s # {} => (CHOOSE x \in s : TRUE) \in s
             /\ \A x \in s : Cardinality(s \ {x}) = Cardinality(s) - 1
             /\ Cardinality(s) <= Cardinality(Dom) /\ Cardinality(Dom) \in Nat
  <2>1. IsFiniteSet(s)
    BY FS_Subset
  <2> QED  BY <2>1, FS_CardinalityType, FS_EmptySet, FS_RemoveElement, FS_Subset
<1>1. PICK T : T = {k \in Nat : Upto(k)}
  OBVIOUS
<1>2. Upto(0)
  <2>1. PICK g : g = [s \in Small(0) |-> 0]
    OBVIOUS
  <2>2. \A s \in Small(0) : s = {}
    BY <1>0
  <2>3. g = [s \in Small(0) |-> IF s = {} THEN 0
                            ELSE f[CHOOSE x \in s : TRUE] + g[s \ {CHOOSE x \in s : TRUE}]]
    BY <2>1, <2>2
  <2> QED  BY <2>3
<1>3. ASSUME NEW k \in Nat, Upto(k) PROVE Upto(k + 1)
  <2>1. PICK g : g = [s \in Small(k) |-> IF s = {} THEN 0
                            ELSE f[CHOOSE x \in s : TRUE] + g[s \ {CHOOSE x \in s : TRUE}]]
    BY <1>3
  <2>2. PICK h : h = [s \in Small(k + 1) |-> IF s = {} THEN 0
                            ELSE f[CHOOSE x \in s : TRUE] + g[s \ {CHOOSE x \in s : TRUE}]]
    OBVIOUS
  <2>3. ASSUME NEW s \in Small(k) PROVE h[s] = g[s]
    <3>1. s \in Small(k + 1)
      BY <1>0, <2>3
    <3> QED  BY <2>1, <2>2, <3>1
  <2>4. ASSUME NEW s \in Small(k + 1), s # {} PROVE s \ {CHOOSE x \in s : TRUE} \in Small(k)
    BY <1>0, <2>4
  <2> HIDE DEF Small
  <2>5. ASSUME NEW s \in Small(k + 1)
        PROVE  h[s] = IF s = {} THEN 0
                      ELSE f[CHOOSE x \in s : TRUE] + h[s \ {CHOOSE x \in s : TRUE}]
    <3>1. CASE s = {}
      BY <2>2, <3>1
    <3>2. CASE s # {}
      <4>1. PICK t : t = s \ {CHOOSE x \in s : TRUE}
        OBVIOUS
      <4>2. h[t] = g[t]
        BY <2>3, <2>4, <3>2, <4>1
      <4>3. h[s] = f[CHOOSE x \in s : TRUE] + g[t]
        BY <2>2, <3>2, <4>1
      <4> QED  BY <3>2, <4>1, <4>2, <4>3
    <3> QED  BY <3>1, <3>2
  <2>6. h = [s \in Small(k + 1) |-> h[s]]
    BY <2>2
  <2>7. h = [s \in Small(k + 1) |-> IF s = {} THEN 0
                            ELSE f[CHOOSE x \in s : TRUE] + h[s \ {CHOOSE x \in s : TRUE}]]
    BY <2>5, <2>6
  <2> QED  BY <2>7
<1>4. Upto(Cardinality(Dom))
  <2> HIDE DEF Upto
  <2>1. T = Nat
    BY <1>1, <1>2, <1>3, Counting
  <2> QED  BY <1>0, <1>1, <2>1
<1>5. Small(Cardinality(Dom)) = SUBSET Dom
  BY <1>0
<1>6. \E g : g = [s \in SUBSET Dom |-> IF s = {} THEN 0
                            ELSE f[CHOOSE x \in s : TRUE] + g[s \ {CHOOSE x \in s : TRUE}]]
  BY <1>4, <1>5
<1> QED
  BY <1>6, Zenon DEF E!SumFunction, E!SumFunctionOnSet, E!FoldFunctionOnSet, E!MapThenFoldSet

\* The sum of natural numbers is one.
LEMMA SumsAreNat ==
    ASSUME NEW f, IsFiniteSet(DOMAIN f), \A x \in DOMAIN f : f[x] \in Nat
    PROVE  E!SumFunction(f) \in Nat
<1> DEFINE Dom == DOMAIN f
<1>1. PICK g : /\ g = [s \in SUBSET Dom |->
                            IF s = {} THEN 0
                            ELSE f[CHOOSE x \in s : TRUE] + g[s \ {CHOOSE x \in s : TRUE}]]
               /\ E!SumFunction(f) = g[Dom]
  BY Summing
<1>2. PICK T : T = {k \in Nat : \A s \in SUBSET Dom : Cardinality(s) = k => g[s] \in Nat}
  OBVIOUS
<1>3. ASSUME NEW s \in SUBSET Dom
      PROVE  /\ Cardinality(s) \in Nat /\ (Cardinality(s) = 0 <=> s = {})
             /\ s # {} => (CHOOSE x \in s : TRUE) \in s
             /\ \A x \in s : Cardinality(s \ {x}) = Cardinality(s) - 1
  <2>1. IsFiniteSet(s)
    BY FS_Subset
  <2> QED  BY <2>1, FS_CardinalityType, FS_EmptySet, FS_RemoveElement
<1>4. 0 \in T
  BY <1>1, <1>2, <1>3
<1>5. ASSUME NEW k \in T PROVE k + 1 \in T
  <2>1. ASSUME NEW s \in SUBSET Dom, Cardinality(s) = k + 1 PROVE g[s] \in Nat
    <3>1. PICK x : x = CHOOSE y \in s : TRUE
      OBVIOUS
    <3>2. s # {} /\ x \in s
      BY <1>2, <1>3, <2>1, <3>1
    <3>3. Cardinality(s \ {x}) = k
      BY <1>2, <1>3, <2>1, <3>2
    <3>4. g[s \ {x}] \in Nat
      BY <1>2, <3>3
    <3>5. g[s] = f[x] + g[s \ {x}]
      BY <1>1, <3>1, <3>2
    <3> QED  BY <3>2, <3>4, <3>5
  <2> QED  BY <1>2, <2>1
<1>6. T = Nat
  BY <1>2, <1>4, <1>5, Counting
<1>7. Dom \in SUBSET Dom /\ Cardinality(Dom) \in Nat
  BY <1>3
<1>8. g[Dom] \in Nat
  BY <1>2, <1>6, <1>7
<1> QED  BY <1>1, <1>8

------------------------------------------------------------------------------
(* A pack *)

\* The least of two numbers.
LEMMA LeastOfTwo ==
    ASSUME NEW a \in Int, NEW b \in Int
    PROVE  E!Min({a, b}) = IF a <= b THEN a ELSE b
<1>1. PICK c \in {a, b} : \A y \in {a, b} : c <= y
  OBVIOUS
<1>2. E!Min({a, b}) \in {a, b} /\ \A y \in {a, b} : E!Min({a, b}) <= y
  BY <1>1 DEF E!Min
<1> QED  BY <1>2

LEMMA GreatestOfTwo ==
    ASSUME NEW a \in Int, NEW b \in Int
    PROVE  E!Max({a, b}) = IF a >= b THEN a ELSE b
<1>1. PICK c \in {a, b} : \A y \in {a, b} : c >= y
  OBVIOUS
<1>2. E!Max({a, b}) \in {a, b} /\ \A y \in {a, b} : E!Max({a, b}) >= y
  BY <1>1 DEF E!Max
<1> QED  BY <1>2

\* The first of a sequence.
LEMMA FirstOf ==
    ASSUME NEW S, NEW s \in Seq(S), NEW n \in Nat
    PROVE  /\ E!First(s, n) \in Seq(S) /\ Len(E!First(s, n)) = (IF n <= Len(s) THEN n ELSE Len(s))
           /\ \A k \in 1..Len(E!First(s, n)) : E!First(s, n)[k] = s[k]
<1>1. Len(s) \in Nat
  BY LenProperties
<1>2. PICK m : m = (IF n <= Len(s) THEN n ELSE Len(s)) /\ m \in Nat /\ m <= Len(s)
  BY <1>1
<1>3. E!First(s, n) = SubSeq(s, 1, m)
  BY <1>1, <1>2, LeastOfTwo DEF E!First
<1>4. /\ SubSeq(s, 1, m) \in Seq(S) /\ Len(SubSeq(s, 1, m)) = m
      /\ \A k \in 1..m : SubSeq(s, 1, m)[k] = s[k]
  BY <1>1, <1>2, SubSeqProperties
<1> QED  BY <1>2, <1>3, <1>4

\* All of a sequence but its last.
LEMMA FrontOf ==
    ASSUME NEW S, NEW s \in Seq(S), s # <<>>
    PROVE  /\ E!Front(s) \in Seq(S) /\ Len(E!Front(s)) = Len(s) - 1
           /\ E!Range(E!Front(s)) \subseteq E!Range(s)
<1>1. Len(s) \in Nat \ {0} /\ DOMAIN s = 1..Len(s)
  BY LenProperties, EmptySeq
<1>2. PICK t : t = E!Front(s)
  OBVIOUS
<1>3. /\ t \in Seq(S) /\ Len(t) = Len(s) - 1
      /\ \A k \in 1..(Len(s) - 1) : t[k] = s[k]
  BY <1>1, <1>2, SubSeqProperties DEF E!Front
<1>4. DOMAIN t = 1..(Len(s) - 1)
  BY <1>3, LenProperties
<1>5. E!Range(t) \subseteq E!Range(s)
  BY <1>1, <1>3, <1>4 DEF E!Range
<1> QED  BY <1>2, <1>3, <1>5

\* What describes an item.
Descriptions == [item : E!AllItems, size : Nat, id : Nat, whole : BOOLEAN]

\* One sequence is the beginning of another.
Begins(s, t) == Len(s) <= Len(t) /\ \A n \in 1..Len(s) : s[n] = t[n]

\* Every detail is of a hit.
DetailsOf(ds, hs) == \A d \in E!Range(ds) : d.item \in E!Range(hs)

NothingOmitted == [hits |-> 0, details |-> 0]

Typed ==
    /\ ePhase \in {"registry", "sources", "describe", "hits", "details", "check", "done", "failed"}
    /\ eAsk.budget \in Nat
    /\ eHits \in Seq(E!AllItems) /\ eKeptHits \in Seq(E!AllItems)
    /\ eDetails \in Seq(Descriptions) /\ eKeptDetails \in Seq(Descriptions)
    /\ eOmitted \in [hits : Nat, details : Nat] /\ eUsed \in Nat

\* Until all is looked for nothing is kept.
Searching ==
    ePhase \in {"registry", "sources", "describe"} =>
        /\ eKeptHits = <<>> /\ eKeptDetails = <<>> /\ eDetails = <<>>
        /\ eOmitted = NothingOmitted /\ ~eTruncated /\ ~eClipped

\* The hits that are kept are the first.
KeepingHits ==
    ePhase = "hits" =>
        /\ Begins(eKeptHits, eHits) /\ eKeptDetails = <<>> /\ DetailsOf(eDetails, eHits)
        /\ eOmitted = NothingOmitted /\ ~eTruncated /\ ~eClipped

\* The details are those of the kept hits, and the first of them are kept.
KeepingDetails ==
    ePhase = "details" =>
        /\ Begins(eKeptHits, eHits) /\ Begins(eKeptDetails, eDetails) /\ DetailsOf(eDetails, eKeptHits)
        /\ eOmitted = [hits |-> Len(eHits) - Len(eKeptHits), details |-> 0] /\ ~eTruncated /\ ~eClipped

\* What is kept and what is omitted are all there is; less than all is truncated.
Packed ==
    ePhase \in {"check", "done"} =>
        /\ DetailsOf(eKeptDetails, eKeptHits)
        /\ Len(eKeptHits) + eOmitted.hits = Len(eHits)
        /\ Len(eKeptDetails) + eOmitted.details = Len(eDetails)
        /\ ~eTruncated => eKeptHits = eHits /\ eKeptDetails = eDetails /\ eOmitted = NothingOmitted

AnswersInv == Typed /\ Searching /\ KeepingHits /\ KeepingDetails /\ Packed /\ E!SizeTrue

\* A detail is kept, or added to a sequence of them.
LEMMA DetailsOfMore ==
    ASSUME NEW ds \in Seq(Descriptions), NEW d \in Descriptions, NEW hs,
           DetailsOf(ds, hs), d.item \in E!Range(hs)
    PROVE  DetailsOf(Append(ds, d), hs)
BY Lengthened DEF DetailsOf

\* The next of a sequence is kept.
LEMMA BeginsMore ==
    ASSUME NEW S, NEW s \in Seq(S), NEW t \in Seq(S), Begins(s, t), Len(s) < Len(t)
    PROVE  /\ t[Len(s) + 1] \in S /\ Append(s, t[Len(s) + 1]) \in Seq(S)
           /\ Begins(Append(s, t[Len(s) + 1]), t)
<1>1. Len(s) \in Nat /\ Len(t) \in Nat /\ Len(s) + 1 \in 1..Len(t)
  BY LenProperties
<1>2. PICK e : e = t[Len(s) + 1] /\ e \in S
  BY <1>1, ElementOfSeq
<1>3. PICK u : u = Append(s, e)
  OBVIOUS
<1>4. /\ u \in Seq(S) /\ Len(u) = Len(s) + 1
      /\ \A i \in 1..Len(s) : u[i] = s[i]
      /\ u[Len(s) + 1] = e
  BY <1>2, <1>3, AppendProperties
<1>5. Begins(u, t)
  BY <1>1, <1>2, <1>4 DEF Begins
<1> QED  BY <1>2, <1>3, <1>4, <1>5

\* A beginning of the same length is all.
LEMMA BeginsAll ==
    ASSUME NEW S, NEW s \in Seq(S), NEW t \in Seq(S), Begins(s, t), Len(s) = Len(t)
    PROVE  s = t
BY SeqEqual DEF Begins

LEMMA BeginsEmpty ==
    ASSUME NEW S, NEW t \in Seq(S)
    PROVE  Begins(<<>>, t)
BY LenProperties, EmptySeq DEF Begins

LEMMA InitInv ==
    ASSUME E!ExploreAssumption, E!Init
    PROVE  AnswersInv
<1>1. Typed
  BY EmptySeq DEF E!Init, Typed, E!ExploreAssumption
<1>2. Searching /\ KeepingHits /\ KeepingDetails /\ Packed /\ E!SizeTrue
  BY DEF E!Init, Searching, KeepingHits, KeepingDetails, Packed, E!SizeTrue, NothingOmitted
<1> QED  BY <1>1, <1>2 DEF AnswersInv

\* What the searches do is done before anything is kept.
LEMMA SearchInv ==
    ASSUME AnswersInv, E!SearchRegistry \/ E!SearchSource
    PROVE  AnswersInv'
<1>1. /\ ePhase \in {"registry", "sources"} /\ ePhase' = "sources"
      /\ UNCHANGED <<eAsk, E!answerVars, E!packVars>>
  BY DEF E!SearchRegistry, E!SearchSource
<1>2. Typed'
  BY <1>1 DEF AnswersInv, Typed, E!answerVars, E!packVars
<1>3. Searching'
  BY <1>1 DEF AnswersInv, Searching, E!answerVars, E!packVars
<1>4. (KeepingHits /\ KeepingDetails /\ Packed /\ E!SizeTrue)'
  BY <1>1 DEF KeepingHits, KeepingDetails, Packed, E!SizeTrue
<1> QED  BY <1>2, <1>3, <1>4 DEF AnswersInv

LEMMA FuseInv ==
    ASSUME E!ExploreAssumption, AnswersInv, E!Fuse
    PROVE  AnswersInv'
<1>1. PICK listed : listed = {i \in E!AllItems : E!Listing(i) # {}}
  OBVIOUS
<1>2. PICK ranked \in E!SetToSeqs(listed) : eHits' = E!First(ranked, Limit)
  BY <1>1 DEF E!Fuse
<1>3. listed \subseteq E!AllItems /\ Cardinality(listed) \in Nat
  <2>1. IsFiniteSet(listed)
    BY <1>1, FS_Subset, FiniteIs DEF E!ExploreAssumption
  <2> QED  BY <1>1, <2>1, FS_CardinalityType
<1>4. ranked \in Seq(E!AllItems)
  BY <1>2, <1>3, FiniteIs DEF E!SetToSeqs
<1>5. eHits' \in Seq(E!AllItems)
  BY <1>2, <1>4, FirstOf DEF E!ExploreAssumption
<1>6. /\ ePhase = "sources" /\ ePhase' = "describe"
      /\ UNCHANGED <<eAsk, eDetails, eKeptHits, eKeptDetails, eOmitted, eUsed, eTruncated, eClipped>>
  BY DEF E!Fuse, E!packVars
<1>7. Typed'
  BY <1>5, <1>6 DEF AnswersInv, Typed
<1>8. Searching'
  BY <1>6 DEF AnswersInv, Searching
<1>9. (KeepingHits /\ KeepingDetails /\ Packed /\ E!SizeTrue)'
  BY <1>6 DEF KeepingHits, KeepingDetails, Packed, E!SizeTrue
<1> QED  BY <1>7, <1>8, <1>9 DEF AnswersInv

\* What says something of an item describes it.
LEMMA Describing ==
    ASSUME E!ExploreAssumption, NEW i \in E!AllItems
    PROVE  /\ E!Item(i) \in Descriptions /\ E!Item(i).item = i
           /\ E!Error(i) \in Descriptions /\ E!Error(i).item = i
<1>1. DetailSize[i] \in Nat /\ IdSize[i] \in Nat /\ ErrorSize \in Nat
  BY DEF E!ExploreAssumption
<1>2. E!Min({ErrorSize, IdSize[i]}) \in Nat
  BY <1>1, LeastOfTwo
<1> QED  BY <1>1, <1>2 DEF E!Item, E!Error, Descriptions

LEMMA DigitsOf ==
    ASSUME NEW m \in Nat, NEW n \in Nat
    PROVE  E!Digits(n) \in 1..5 /\ (m <= n => E!Digits(m) <= E!Digits(n))
BY DEF E!Digits

LEMMA DescribeInv ==
    ASSUME E!ExploreAssumption, AnswersInv, E!Describe
    PROVE  AnswersInv'
<1>1. eHits \in Seq(E!AllItems) /\ DOMAIN eHits = 1..Len(eHits) /\ Len(eHits) \in Nat
      /\ \A n \in 1..Len(eHits) : eHits[n] \in E!AllItems
  BY LenProperties, ElementOfSeq DEF AnswersInv, Typed
<1>2. PICK outcome, there :
         /\ outcome \in [1..Len(eHits) -> {"detail", "gone", "error"}]
         /\ there = E!Those([n \in DOMAIN eHits |-> n], {n \in DOMAIN eHits : outcome[n] # "gone"})
         /\ eDetails' = [n \in DOMAIN there |->
                IF outcome[there[n]] = "error" THEN E!Error(eHits[there[n]]) ELSE E!Item(eHits[there[n]])]
  <2> DEFINE There(f) == E!Those([n \in DOMAIN eHits |-> n], {n \in DOMAIN eHits : f[n] # "gone"})
  <2>1. PICK outcome \in [1..Len(eHits) -> {"detail", "gone", "error"}] :
           eDetails' = [n \in DOMAIN There(outcome) |->
                          IF outcome[There(outcome)[n]] = "error"
                          THEN E!Error(eHits[There(outcome)[n]]) ELSE E!Item(eHits[There(outcome)[n]])]
    BY DEF E!Describe
  <2> QED  BY <2>1
<1>3. there \in Seq(DOMAIN eHits)
  <2>1. [n \in DOMAIN eHits |-> n] \in Seq(DOMAIN eHits)
    BY <1>1
  <2> QED  BY <1>2, <2>1, ThoseAre
<1>4. DOMAIN there = 1..Len(there) /\ Len(there) \in Nat /\ \A n \in 1..Len(there) : there[n] \in DOMAIN eHits
  BY <1>3, LenProperties, ElementOfSeq
<1>5. ASSUME NEW n \in DOMAIN there
      PROVE  eDetails'[n] \in Descriptions /\ eDetails'[n].item = eHits[there[n]]
  <2>1. eHits[there[n]] \in E!AllItems
    BY <1>1, <1>4
  <2>2. eDetails'[n] = IF outcome[there[n]] = "error" THEN E!Error(eHits[there[n]])
                      ELSE E!Item(eHits[there[n]])
    BY <1>2
  <2> QED  BY <2>1, <2>2, Describing
<1>6. DOMAIN eDetails' = 1..Len(there)
  BY <1>2, <1>4
<1>7. eDetails' \in Seq(Descriptions)
  <2>1. eDetails' = [n \in 1..Len(there) |-> eDetails'[n]]
    BY <1>2, <1>6
  <2> QED  BY <1>4, <1>5, <2>1
<1>8. DetailsOf(eDetails', eHits)
  BY <1>1, <1>4, <1>5, <1>6 DEF DetailsOf, E!Range
<1>9. /\ ePhase = "describe" /\ ePhase' = "hits" /\ eUsed' = EnvelopeSize + E!Digits(eAsk.budget)
      /\ UNCHANGED <<eAsk, eHits, eKeptHits, eKeptDetails, eOmitted, eTruncated, eClipped>>
  BY DEF E!Describe
<1>10. eUsed' \in Nat
  <2>1. eAsk.budget \in Nat /\ EnvelopeSize \in Nat
    BY DEF AnswersInv, Typed, E!ExploreAssumption
  <2> QED  BY <1>9, <2>1, DigitsOf
<1>11. Typed'
  BY <1>7, <1>9, <1>10 DEF AnswersInv, Typed
<1>12. KeepingHits'
  BY <1>1, <1>8, <1>9, BeginsEmpty DEF AnswersInv, Searching, KeepingHits, DetailsOf, Begins
<1>13. (Searching /\ KeepingDetails /\ Packed /\ E!SizeTrue)'
  BY <1>9 DEF Searching, KeepingDetails, Packed, E!SizeTrue
<1> QED  BY <1>11, <1>12, <1>13 DEF AnswersInv

LEMMA DescribeRaisesInv ==
    ASSUME E!ExploreAssumption, AnswersInv, E!DescribeRaises
    PROVE  AnswersInv'
<1>1. /\ ePhase = "describe" /\ ePhase' = "failed"
      /\ UNCHANGED <<eAsk, eHits, eDetails, eKeptHits, eKeptDetails, eOmitted, eUsed, eTruncated, eClipped>>
  BY DEF E!DescribeRaises, E!Fail, E!answerVars, E!packVars, AnswersInv, Typed
<1>2. Typed'
  BY <1>1 DEF AnswersInv, Typed
<1>3. (Searching /\ KeepingHits /\ KeepingDetails /\ Packed /\ E!SizeTrue)'
  BY <1>1 DEF Searching, KeepingHits, KeepingDetails, Packed, E!SizeTrue
<1> QED  BY <1>2, <1>3 DEF AnswersInv

LEMMA NothingFoundInv ==
    ASSUME E!ExploreAssumption, AnswersInv, E!NothingFound
    PROVE  AnswersInv'
<1>1. /\ ePhase = "describe" /\ ePhase' = "hits" /\ eUsed' = EnvelopeSize + E!Digits(eAsk.budget)
      /\ UNCHANGED <<eAsk, eHits, eDetails, eKeptHits, eKeptDetails, eOmitted, eTruncated, eClipped>>
  BY DEF E!NothingFound, E!answerVars
<1>2. eUsed' \in Nat
  <2>1. eAsk.budget \in Nat /\ EnvelopeSize \in Nat
    BY DEF AnswersInv, Typed, E!ExploreAssumption
  <2> QED  BY <1>1, <2>1, DigitsOf
<1>3. Typed'
  BY <1>1, <1>2 DEF AnswersInv, Typed
<1>4. Begins(eKeptHits, eHits) /\ DetailsOf(eDetails, eHits)
  BY <1>1, BeginsEmpty DEF AnswersInv, Typed, Searching, DetailsOf, E!Range
<1>5. KeepingHits'
  BY <1>1, <1>4 DEF AnswersInv, Searching, KeepingHits, Begins, DetailsOf
<1>6. (Searching /\ KeepingDetails /\ Packed /\ E!SizeTrue)'
  BY <1>1 DEF Searching, KeepingDetails, Packed, E!SizeTrue
<1> QED  BY <1>3, <1>5, <1>6 DEF AnswersInv

LEMMA KeepHitInv ==
    ASSUME E!ExploreAssumption, AnswersInv, E!KeepHit
    PROVE  AnswersInv'
<1>1. eHits \in Seq(E!AllItems) /\ eKeptHits \in Seq(E!AllItems) /\ Begins(eKeptHits, eHits)
  BY DEF AnswersInv, Typed, KeepingHits, E!KeepHit
<1>2. PICK hit : hit = eHits[Len(eKeptHits) + 1]
  OBVIOUS
<1>3. /\ ePhase = "hits" /\ ePhase' = "hits" /\ Len(eKeptHits) < Len(eHits)
      /\ eKeptHits' = Append(eKeptHits, hit) /\ eUsed' = eUsed + HitSize[hit]
      /\ UNCHANGED <<eAsk, eHits, eDetails, eKeptDetails, eOmitted, eTruncated, eClipped>>
  BY <1>2 DEF E!KeepHit, E!answerVars
<1>4. hit \in E!AllItems /\ eKeptHits' \in Seq(E!AllItems) /\ Begins(eKeptHits', eHits)
  BY <1>1, <1>2, <1>3, BeginsMore
<1>5. HitSize[hit] \in Nat
  BY <1>4 DEF E!ExploreAssumption
<1>6. Typed'
  BY <1>3, <1>4, <1>5 DEF AnswersInv, Typed
<1>7. KeepingHits'
  BY <1>3, <1>4 DEF AnswersInv, KeepingHits, Begins, DetailsOf
<1>8. (Searching /\ KeepingDetails /\ Packed /\ E!SizeTrue)'
  BY <1>3 DEF Searching, KeepingDetails, Packed, E!SizeTrue
<1> QED  BY <1>6, <1>7, <1>8 DEF AnswersInv

LEMMA HitsDoneInv ==
    ASSUME E!ExploreAssumption, AnswersInv, E!HitsDone
    PROVE  AnswersInv'
<1>1. PICK X : X = {d \in E!Range(eDetails) : d.item \in E!Range(eKeptHits)}
  OBVIOUS
<1>2. /\ ePhase = "hits" /\ ePhase' = "details" /\ eDetails' = E!Those(eDetails, X)
      /\ eOmitted' = [eOmitted EXCEPT !.hits = Len(eHits) - Len(eKeptHits)]
      /\ UNCHANGED <<eAsk, eHits, eKeptHits, eKeptDetails, eUsed, eTruncated, eClipped>>
  BY <1>1 DEF E!HitsDone
<1>3. /\ Begins(eKeptHits, eHits) /\ eKeptDetails = <<>> /\ eOmitted = NothingOmitted
      /\ ~eTruncated /\ ~eClipped
  BY <1>2 DEF AnswersInv, KeepingHits
<1>4. Len(eKeptHits) \in Nat /\ Len(eHits) \in Nat /\ Len(eKeptHits) <= Len(eHits)
  BY <1>3, LenProperties DEF AnswersInv, Typed, Begins
<1>5. eOmitted' = [hits |-> Len(eHits) - Len(eKeptHits), details |-> 0]
  BY <1>2, <1>3 DEF NothingOmitted
<1>6. eDetails' \in Seq(Descriptions) /\ E!Range(eDetails') = E!Range(eDetails) \cap X
  BY <1>2, ThoseAre DEF AnswersInv, Typed
<1>7. DetailsOf(eDetails', eKeptHits)
  BY <1>1, <1>6 DEF DetailsOf
<1>8. Typed'
  BY <1>2, <1>4, <1>5, <1>6 DEF AnswersInv, Typed
<1>9. Begins(eKeptDetails, eDetails')
  BY <1>3, <1>6, BeginsEmpty
<1>10. KeepingDetails'
  BY <1>2, <1>3, <1>5, <1>7, <1>9 DEF KeepingDetails, Begins, DetailsOf
<1>11. (Searching /\ KeepingHits /\ Packed /\ E!SizeTrue)'
  BY <1>2 DEF Searching, KeepingHits, Packed, E!SizeTrue
<1> QED  BY <1>8, <1>10, <1>11 DEF AnswersInv

LEMMA KeepDetailInv ==
    ASSUME E!ExploreAssumption, AnswersInv, E!KeepDetail
    PROVE  AnswersInv'
<1>1. /\ eDetails \in Seq(Descriptions) /\ eKeptDetails \in Seq(Descriptions)
      /\ Begins(eKeptDetails, eDetails)
  BY DEF AnswersInv, Typed, KeepingDetails, E!KeepDetail
<1>2. PICK d : d = eDetails[Len(eKeptDetails) + 1]
  OBVIOUS
<1>3. /\ ePhase = "details" /\ ePhase' = "details" /\ Len(eKeptDetails) < Len(eDetails)
      /\ eKeptDetails' = Append(eKeptDetails, d) /\ eUsed' = eUsed + d.size
      /\ UNCHANGED <<eAsk, eHits, eDetails, eKeptHits, eOmitted, eTruncated, eClipped>>
  BY <1>2 DEF E!KeepDetail, E!answerVars
<1>4. /\ d \in Descriptions /\ eKeptDetails' \in Seq(Descriptions)
      /\ Begins(eKeptDetails', eDetails)
  BY <1>1, <1>2, <1>3, BeginsMore
<1>5. d.size \in Nat
  BY <1>4 DEF Descriptions
<1>6. Typed'
  BY <1>3, <1>4, <1>5 DEF AnswersInv, Typed
<1>7. KeepingDetails'
  BY <1>3, <1>4 DEF AnswersInv, KeepingDetails, Begins, DetailsOf
<1>8. (Searching /\ KeepingHits /\ Packed /\ E!SizeTrue)'
  BY <1>3 DEF Searching, KeepingHits, Packed, E!SizeTrue
<1> QED  BY <1>6, <1>7, <1>8 DEF AnswersInv

\* A compact detail is still of its item.
LEMMA Compacted ==
    ASSUME E!ExploreAssumption, NEW d \in Descriptions, NEW room \in Nat
    PROVE  E!Compact(d, room) \in Descriptions /\ E!Compact(d, room).item = d.item
<1>1. d.id \in Nat /\ LabelSize \in Nat
  BY DEF Descriptions, E!ExploreAssumption
<1>2. E!Min({room, d.id + LabelSize}) \in Nat
  BY <1>1, LeastOfTwo
<1>3. PICK n \in Nat : E!Compact(d, room) = [d EXCEPT !.size = n, !.whole = FALSE]
  BY <1>1, <1>2 DEF E!Compact
<1> QED  BY <1>3 DEF Descriptions

LEMMA DetailsDoneInv ==
    ASSUME E!ExploreAssumption, AnswersInv, E!DetailsDone
    PROVE  AnswersInv'
<1>1. PICK n, room, d : /\ n = Len(eKeptDetails) /\ room = E!Max({eAsk.budget - eUsed, 0})
                        /\ d = eDetails[n + 1]
  OBVIOUS
<1>2. /\ ePhase = "details" /\ ePhase' = "check"
      /\ UNCHANGED <<eAsk, eHits, eDetails, eKeptHits, eUsed>>
      /\ eTruncated' = (eOmitted'.hits > 0 \/ eOmitted'.details > 0 \/ eClipped')
  BY DEF E!DetailsDone, E!answerVars
<1>3. /\ Begins(eKeptHits, eHits) /\ Begins(eKeptDetails, eDetails) /\ DetailsOf(eDetails, eKeptHits)
      /\ eOmitted = [hits |-> Len(eHits) - Len(eKeptHits), details |-> 0] /\ ~eTruncated /\ ~eClipped
      /\ eHits \in Seq(E!AllItems) /\ eKeptHits \in Seq(E!AllItems)
      /\ eDetails \in Seq(Descriptions) /\ eKeptDetails \in Seq(Descriptions)
      /\ eAsk.budget \in Nat /\ eUsed \in Nat
  BY <1>2 DEF AnswersInv, KeepingDetails, Typed
<1>4. /\ n \in Nat /\ Len(eDetails) \in Nat /\ n <= Len(eDetails)
      /\ Len(eHits) \in Nat /\ Len(eKeptHits) \in Nat /\ Len(eKeptHits) <= Len(eHits)
      /\ DOMAIN eDetails = 1..Len(eDetails) /\ DOMAIN eKeptDetails = 1..n
  BY <1>1, <1>3, LenProperties DEF Begins
<1>5. room \in Nat
  <2>1. eAsk.budget - eUsed \in Int
    BY <1>3
  <2>2. room = IF eAsk.budget - eUsed >= 0 THEN eAsk.budget - eUsed ELSE 0
    BY <1>1, <2>1, GreatestOfTwo
  <2> QED  BY <2>1, <2>2
<1>6. DetailsOf(eKeptDetails, eKeptHits)
  <2>1. ASSUME NEW k \in 1..n PROVE eKeptDetails[k] = eDetails[k] /\ k \in DOMAIN eDetails
    BY <1>1, <1>3, <1>4, <2>1 DEF Begins
  <2> QED  BY <1>3, <1>4, <2>1 DEF DetailsOf, E!Range
\* What a step needs to do for the pack to be right.
<1>7. ASSUME eKeptDetails' \in Seq(Descriptions), DetailsOf(eKeptDetails', eKeptHits),
             NEW m \in Nat, eOmitted' = [hits |-> Len(eHits) - Len(eKeptHits), details |-> m],
             Len(eKeptDetails') + m = Len(eDetails),
             m = 0 /\ ~eClipped' => eKeptDetails' = eDetails
      PROVE  AnswersInv'
  <2>1. Typed'
    BY <1>2, <1>4, <1>7 DEF AnswersInv, Typed
  <2>2. eOmitted'.hits = Len(eHits) - Len(eKeptHits) /\ eOmitted'.details = m
    BY <1>7
  <2>3. ASSUME ~eTruncated'
        PROVE  eKeptHits = eHits /\ eKeptDetails' = eDetails /\ eOmitted' = NothingOmitted
    <3>1. Len(eHits) = Len(eKeptHits) /\ m = 0 /\ ~eClipped'
      <4>1. ~(eOmitted'.hits > 0 \/ eOmitted'.details > 0 \/ eClipped')
        BY <1>2, <2>3, Zenon
      <4> QED  BY <1>4, <1>7, <2>2, <4>1
    <3>2. eKeptHits = eHits
      BY <1>3, <3>1, BeginsAll
    <3> QED  BY <1>4, <1>7, <3>1, <3>2 DEF NothingOmitted
  <2>4. Len(eKeptHits) + eOmitted'.hits = Len(eHits)
    BY <1>4, <2>2
  <2>5. Packed'
    BY <1>2, <1>7, <2>2, <2>3, <2>4 DEF Packed, DetailsOf
  <2>6. (Searching /\ KeepingHits /\ KeepingDetails /\ E!SizeTrue)'
    BY <1>2 DEF Searching, KeepingHits, KeepingDetails, E!SizeTrue
  <2> QED  BY <2>1, <2>5, <2>6 DEF AnswersInv
<1>8. CASE n = Len(eDetails) /\ UNCHANGED <<eKeptDetails, eOmitted, eClipped>>
  <2>1. eKeptDetails = eDetails
    BY <1>1, <1>3, <1>8, BeginsAll
  <2>2. Len(eKeptDetails') + 0 = Len(eDetails)
    BY <1>1, <1>4, <1>8
  <2> QED  BY <1>3, <1>6, <1>7, <1>8, <2>1, <2>2
<1>9. CASE /\ n < Len(eDetails) /\ eKeptDetails' = Append(eKeptDetails, E!Compact(d, room))
           /\ eOmitted' = [eOmitted EXCEPT !.details = Len(eDetails) - n - 1] /\ eClipped' = TRUE
  <2>1. d \in Descriptions /\ d \in E!Range(eDetails)
    <3>1. n + 1 \in 1..Len(eDetails) /\ DOMAIN eDetails = 1..Len(eDetails)
      BY <1>1, <1>3, <1>4, <1>9
    <3> QED  BY <1>1, <1>3, <1>4, <3>1, ElementOfSeq DEF E!Range
  <2>2. PICK c : c = E!Compact(d, room) /\ c \in Descriptions /\ c.item = d.item
    BY <1>5, <2>1, Compacted
  <2>3. eKeptDetails' \in Seq(Descriptions) /\ Len(eKeptDetails') = n + 1
    BY <1>1, <1>3, <1>9, <2>2, AppendProperties
  <2>4. c.item \in E!Range(eKeptHits)
    BY <1>3, <2>1, <2>2 DEF DetailsOf
  <2>5. DetailsOf(eKeptDetails', eKeptHits)
    BY <1>3, <1>6, <1>9, <2>2, <2>4, DetailsOfMore
  <2>6. /\ Len(eDetails) - n - 1 \in Nat
        /\ eOmitted' = [hits |-> Len(eHits) - Len(eKeptHits), details |-> Len(eDetails) - n - 1]
        /\ Len(eKeptDetails') + (Len(eDetails) - n - 1) = Len(eDetails)
    BY <1>3, <1>4, <1>9, <2>3
  <2> QED  BY <1>7, <1>9, <2>3, <2>5, <2>6
<1>10. CASE /\ n < Len(eDetails) /\ eOmitted' = [eOmitted EXCEPT !.details = Len(eDetails) - n]
            /\ UNCHANGED <<eKeptDetails, eClipped>>
  <2>1. /\ Len(eDetails) - n \in Nat \ {0}
        /\ eOmitted' = [hits |-> Len(eHits) - Len(eKeptHits), details |-> Len(eDetails) - n]
        /\ Len(eKeptDetails') + (Len(eDetails) - n) = Len(eDetails)
    BY <1>1, <1>3, <1>4, <1>10
  <2> QED  BY <1>3, <1>6, <1>7, <1>10, <2>1
<1> QED  BY <1>1, <1>8, <1>9, <1>10 DEF E!DetailsDone

\* What is left of a pack is still of its hits, and counted.
LEMMA ShedInv ==
    ASSUME E!ExploreAssumption, AnswersInv, E!Shed
    PROVE  AnswersInv'
<1>1. /\ ePhase = "check" /\ ePhase' = "check" /\ eTruncated' = TRUE
      /\ UNCHANGED <<eAsk, eHits, eDetails, eUsed, eClipped>>
  BY DEF E!Shed, E!answerVars
<1>2. /\ DetailsOf(eKeptDetails, eKeptHits) /\ Len(eKeptHits) + eOmitted.hits = Len(eHits)
      /\ Len(eKeptDetails) + eOmitted.details = Len(eDetails)
      /\ eKeptHits \in Seq(E!AllItems) /\ eKeptDetails \in Seq(Descriptions)
      /\ eOmitted \in [hits : Nat, details : Nat]
  BY <1>1 DEF AnswersInv, Packed, Typed
<1>3. Len(eKeptHits) \in Nat /\ Len(eKeptDetails) \in Nat /\ Len(eHits) \in Nat /\ Len(eDetails) \in Nat
  BY <1>2, LenProperties DEF AnswersInv, Typed
<1>4. ASSUME eKeptHits' \in Seq(E!AllItems), eKeptDetails' \in Seq(Descriptions),
             eOmitted' \in [hits : Nat, details : Nat], DetailsOf(eKeptDetails', eKeptHits'),
             Len(eKeptHits') + eOmitted'.hits = Len(eHits),
             Len(eKeptDetails') + eOmitted'.details = Len(eDetails)
      PROVE  AnswersInv'
  <2>1. Typed'
    BY <1>1, <1>4 DEF AnswersInv, Typed
  <2>2. Packed'
    BY <1>1, <1>4 DEF Packed, DetailsOf
  <2>3. (Searching /\ KeepingHits /\ KeepingDetails /\ E!SizeTrue)'
    BY <1>1 DEF Searching, KeepingHits, KeepingDetails, E!SizeTrue
  <2> QED  BY <2>1, <2>2, <2>3 DEF AnswersInv
<1>5. CASE /\ eKeptDetails # <<>> /\ eKeptDetails' = E!Front(eKeptDetails)
           /\ eOmitted' = [eOmitted EXCEPT !.details = @ + 1] /\ UNCHANGED eKeptHits
  <2>1. /\ eKeptDetails' \in Seq(Descriptions) /\ Len(eKeptDetails') = Len(eKeptDetails) - 1
        /\ E!Range(eKeptDetails') \subseteq E!Range(eKeptDetails)
    BY <1>2, <1>5, FrontOf
  <2>2. DetailsOf(eKeptDetails', eKeptHits')
    BY <1>2, <1>5, <2>1 DEF DetailsOf
  <2>3. /\ eOmitted' \in [hits : Nat, details : Nat] /\ eOmitted'.hits = eOmitted.hits
        /\ eOmitted'.details = eOmitted.details + 1
    BY <1>2, <1>5
  <2>4. Len(eKeptDetails') + eOmitted'.details = Len(eDetails)
    BY <1>2, <1>3, <2>1, <2>3
  <2> QED  BY <1>2, <1>4, <1>5, <2>1, <2>2, <2>3, <2>4
<1>6. CASE /\ eKeptDetails = <<>> /\ eKeptHits # <<>> /\ eKeptHits' = E!Front(eKeptHits)
           /\ eOmitted' = [eOmitted EXCEPT !.hits = @ + 1] /\ UNCHANGED eKeptDetails
  <2>1. eKeptHits' \in Seq(E!AllItems) /\ Len(eKeptHits') = Len(eKeptHits) - 1
    BY <1>2, <1>6, FrontOf
  <2>2. DetailsOf(eKeptDetails', eKeptHits')
    BY <1>6 DEF DetailsOf, E!Range
  <2>3. /\ eOmitted' \in [hits : Nat, details : Nat] /\ eOmitted'.details = eOmitted.details
        /\ eOmitted'.hits = eOmitted.hits + 1
    BY <1>2, <1>6
  <2>4. Len(eKeptHits') + eOmitted'.hits = Len(eHits)
    BY <1>2, <1>3, <2>1, <2>3
  <2> QED  BY <1>2, <1>4, <1>6, <2>1, <2>2, <2>3, <2>4
<1> QED  BY <1>5, <1>6 DEF E!Shed

\* Apart from the digits of its own size, the size of a pack is settled.
LEMMA Sizes ==
    ASSUME E!ExploreAssumption, AnswersInv
    PROVE  \E b \in Nat : \A u \in Nat : E!SizeOf(u) = b + E!Digits(u)
<1>1. eKeptHits \in Seq(E!AllItems) /\ eKeptDetails \in Seq(Descriptions)
  BY DEF AnswersInv, Typed
<1>2. /\ Len(eKeptHits) \in Nat /\ Len(eKeptDetails) \in Nat
      /\ DOMAIN eKeptHits = 1..Len(eKeptHits) /\ DOMAIN eKeptDetails = 1..Len(eKeptDetails)
      /\ \A n \in 1..Len(eKeptHits) : eKeptHits[n] \in E!AllItems
      /\ \A n \in 1..Len(eKeptDetails) : eKeptDetails[n] \in Descriptions
  BY <1>1, LenProperties, ElementOfSeq
<1>3. PICK f, g : /\ f = [n \in DOMAIN eKeptHits |-> HitSize[eKeptHits[n]]]
                  /\ g = [n \in DOMAIN eKeptDetails |-> eKeptDetails[n].size]
  OBVIOUS
<1>4. E!SumFunction(f) \in Nat
  <2>1. IsFiniteSet(DOMAIN f)
    <3>1. DOMAIN f = 1..Len(eKeptHits)
      BY <1>2, <1>3
    <3> QED  BY <1>2, <3>1, FS_Interval
  <2>2. \A n \in DOMAIN f : f[n] \in Nat
    BY <1>2, <1>3 DEF E!ExploreAssumption
  <2> QED  BY <2>1, <2>2, SumsAreNat
<1>5. E!SumFunction(g) \in Nat
  <2>1. IsFiniteSet(DOMAIN g)
    <3>1. DOMAIN g = 1..Len(eKeptDetails)
      BY <1>2, <1>3
    <3> QED  BY <1>2, <3>1, FS_Interval
  <2>2. \A n \in DOMAIN g : g[n] \in Nat
    BY <1>2, <1>3 DEF Descriptions
  <2> QED  BY <2>1, <2>2, SumsAreNat
<1>6. PICK a : a = ActionSize * E!Min({Suggested, Len(eKeptHits)}) /\ a \in Nat
  <2>1. ActionSize \in Nat /\ Suggested \in Nat
    BY DEF E!ExploreAssumption
  <2>2. E!Min({Suggested, Len(eKeptHits)}) \in Nat
    BY <1>2, <2>1, LeastOfTwo
  <2> QED  BY <2>1, <2>2
<1>7. EnvelopeSize \in Nat
  BY DEF E!ExploreAssumption
<1>8. PICK b \in Nat : b = EnvelopeSize + E!SumFunction(f) + E!SumFunction(g) + a
  BY <1>4, <1>5, <1>6, <1>7
<1>9. ASSUME NEW u \in Nat PROVE E!SizeOf(u) = b + E!Digits(u)
  <2>1. E!Digits(u) \in Nat
    BY <1>9, DigitsOf
  <2>2. E!SizeOf(u) = EnvelopeSize + E!Digits(u) + E!SumFunction(f) + E!SumFunction(g) + a
    BY <1>3, <1>6 DEF E!SizeOf
  <2> QED  BY <1>4, <1>5, <1>6, <1>7, <1>8, <2>1, <2>2
<1> QED  BY <1>9

\* The size is counted again and again, four times in all.
LEMMA Resized ==
    ASSUME E!Finish
    PROVE  eUsed' = E!SizeOf(E!SizeOf(E!SizeOf(E!SizeOf(0))))
<1>1. PICK r1, r2, r3, r4 : /\ r1 = E!SizeOf(0) /\ r2 = E!SizeOf(r1) /\ r3 = E!SizeOf(r2)
                            /\ r4 = E!SizeOf(r3)
  OBVIOUS
<1>2. PICK g : g = [n \in 0..4 |-> IF n = 0 THEN 0 ELSE IF n = 1 THEN r1
                                  ELSE IF n = 2 THEN r2 ELSE IF n = 3 THEN r3 ELSE r4]
  OBVIOUS
<1>3. \A n \in 0..4 : g[n] = IF n = 0 THEN 0 ELSE E!SizeOf(g[n - 1])
  <2>1. g[0] = 0 /\ g[1] = r1 /\ g[2] = r2 /\ g[3] = r3 /\ g[4] = r4
    BY <1>2
  <2>2. /\ g[1] = E!SizeOf(g[0]) /\ g[2] = E!SizeOf(g[1]) /\ g[3] = E!SizeOf(g[2])
        /\ g[4] = E!SizeOf(g[3])
    BY <1>1, <2>1
  <2>3. ASSUME NEW n \in 0..4 PROVE n = 0 \/ n = 1 \/ n = 2 \/ n = 3 \/ n = 4
    BY <2>3
  <2>4. ASSUME NEW n \in 0..4, n # 0 PROVE g[n] = E!SizeOf(g[n - 1])
    <3>1. CASE n = 1
      <4>1. n - 1 = 0
        BY <3>1
      <4> QED  BY <2>2, <3>1, <4>1
    <3>2. CASE n = 2
      <4>1. n - 1 = 1
        BY <3>2
      <4> QED  BY <2>2, <3>2, <4>1
    <3>3. CASE n = 3
      <4>1. n - 1 = 2
        BY <3>3
      <4> QED  BY <2>2, <3>3, <4>1
    <3>4. CASE n = 4
      <4>1. n - 1 = 3
        BY <3>4
      <4> QED  BY <2>2, <3>4, <4>1
    <3> QED  BY <2>3, <2>4, <3>1, <3>2, <3>3, <3>4
  <2> QED  BY <2>1, <2>4
<1>4. g = [n \in 0..4 |-> IF n = 0 THEN 0 ELSE E!SizeOf(g[n - 1])]
  <2>1. g = [n \in 0..4 |-> g[n]]
    BY <1>2
  <2> QED  BY <1>3, <2>1
<1>5. PICK h : h = [n \in 0..4 |-> IF n = 0 THEN 0 ELSE E!SizeOf(h[n - 1])] /\ eUsed' = h[4]
  <2>1. \E h : h = [n \in 0..4 |-> IF n = 0 THEN 0 ELSE E!SizeOf(h[n - 1])]
    BY <1>4
  <2> QED  BY <2>1, Zenon DEF E!Finish
<1>6. \A n \in 0..4 : h[n] = IF n = 0 THEN 0 ELSE E!SizeOf(h[n - 1])
  BY <1>5
<1>7. h[0] = 0 /\ h[1] = E!SizeOf(h[0]) /\ h[2] = E!SizeOf(h[1]) /\ h[3] = E!SizeOf(h[2])
      /\ h[4] = E!SizeOf(h[3])
  <2>1. /\ 1 - 1 = 0 /\ 2 - 1 = 1 /\ 3 - 1 = 2 /\ 4 - 1 = 3
        /\ {0, 1, 2, 3, 4} \subseteq 0..4
    OBVIOUS
  <2> QED  BY <1>6, <2>1
<1> QED  BY <1>5, <1>7

LEMMA SizeSame ==
    ASSUME UNCHANGED <<eKeptHits, eKeptDetails>>
    PROVE  E!SizeOf(eUsed)' = E!SizeOf(eUsed')
<1>1. PICK f, g : /\ f = [n \in DOMAIN eKeptHits |-> HitSize[eKeptHits[n]]]
                  /\ g = [n \in DOMAIN eKeptDetails |-> eKeptDetails[n].size]
  OBVIOUS
<1>2. /\ f = [n \in DOMAIN eKeptHits' |-> HitSize[eKeptHits'[n]]]
      /\ g = [n \in DOMAIN eKeptDetails' |-> eKeptDetails'[n].size]
  BY <1>1
<1>3. E!SizeOf(eUsed)' = EnvelopeSize + E!Digits(eUsed') + E!SumFunction(f) + E!SumFunction(g)
                         + ActionSize * E!Min({Suggested, Len(eKeptHits)})
  BY <1>2 DEF E!SizeOf, E!Digits
<1>4. E!SizeOf(eUsed') = EnvelopeSize + E!Digits(eUsed') + E!SumFunction(f) + E!SumFunction(g)
                         + ActionSize * E!Min({Suggested, Len(eKeptHits)})
  BY <1>1 DEF E!SizeOf
<1> QED  BY <1>3, <1>4

\* A size counted again has one digit more at most, and then no more.
LEMMA FinishInv ==
    ASSUME E!ExploreAssumption, AnswersInv, E!Finish
    PROVE  AnswersInv'
<1>1. /\ ePhase = "check" /\ ePhase' = "done"
      /\ UNCHANGED <<eAsk, eHits, eDetails, eKeptHits, eKeptDetails, eOmitted, eTruncated, eClipped>>
  BY DEF E!Finish, E!answerVars
<1>2. PICK b \in Nat : \A u \in Nat : E!SizeOf(u) = b + E!Digits(u)
  BY Sizes
<1>3. PICK r1, r2, r3, r4 : /\ r1 = E!SizeOf(0) /\ r2 = E!SizeOf(r1) /\ r3 = E!SizeOf(r2)
                            /\ r4 = E!SizeOf(r3) /\ eUsed' = r4
  BY Resized
<1>4. r1 \in Nat /\ r1 = b + E!Digits(0) /\ E!Digits(0) = 1
  BY <1>2, <1>3 DEF E!Digits
<1>5. r2 \in Nat /\ r2 = b + E!Digits(r1) /\ r1 <= r2
  BY <1>2, <1>3, <1>4, DigitsOf
<1>6. r3 \in Nat /\ r3 = b + E!Digits(r2) /\ r2 <= r3
  BY <1>2, <1>3, <1>4, <1>5, DigitsOf
<1>7. r4 \in Nat /\ r4 = b + E!Digits(r3) /\ r3 <= r4
  BY <1>2, <1>3, <1>5, <1>6, DigitsOf
<1>8. E!Digits(r4) = E!Digits(r3)
  <2>1. PICK d1, d2, d3 : d1 = E!Digits(r1) /\ d2 = E!Digits(r2) /\ d3 = E!Digits(r3)
    OBVIOUS
  <2>2. d1 \in 1..5 /\ d2 \in 1..5 /\ d3 \in 1..5
    BY <1>4, <1>5, <1>6, <2>1, DigitsOf
  <2>3. r1 = b + 1 /\ r2 = b + d1 /\ r3 = b + d2 /\ r4 = b + d3
    BY <1>4, <1>5, <1>6, <1>7, <2>1
  <2>4. d2 = d1 \/ d2 = d1 + 1
    BY <1>4, <1>5, <2>1, <2>2, <2>3 DEF E!Digits
  <2>5. d3 = d2
    BY <1>4, <1>5, <1>6, <2>1, <2>2, <2>3, <2>4 DEF E!Digits
  <2> QED  BY <1>3, <2>1, <2>3, <2>5
<1>9. E!SizeOf(eUsed') = eUsed'
  BY <1>2, <1>3, <1>7, <1>8
<1>10. E!SizeTrue'
  BY <1>1, <1>9, SizeSame DEF E!SizeTrue
<1>11. Typed'
  BY <1>1, <1>3, <1>7 DEF AnswersInv, Typed
<1>12. Packed'
  BY <1>1 DEF AnswersInv, Packed, DetailsOf
<1>13. (Searching /\ KeepingHits /\ KeepingDetails)'
  BY <1>1 DEF Searching, KeepingHits, KeepingDetails
<1> QED  BY <1>10, <1>11, <1>12, <1>13 DEF AnswersInv

LEMMA StutterInv ==
    ASSUME AnswersInv, UNCHANGED E!vars
    PROVE  AnswersInv'
<1>1. UNCHANGED <<ePhase, eAsk, eHits, eDetails, eKeptHits, eKeptDetails, eOmitted, eUsed, eTruncated, eClipped>>
  BY DEF E!vars, E!answerVars, E!packVars
<1>2. Typed' /\ Searching'
  BY <1>1 DEF AnswersInv, Typed, Searching
<1>3. KeepingHits' /\ KeepingDetails' /\ Packed'
  BY <1>1 DEF AnswersInv, KeepingHits, KeepingDetails, Packed, Begins, DetailsOf
<1>4. E!SizeTrue'
  BY <1>1, SizeSame DEF AnswersInv, E!SizeTrue
<1> QED  BY <1>2, <1>3, <1>4 DEF AnswersInv

LEMMA InvAlways ==
    ASSUME E!ExploreAssumption
    PROVE  E!Spec => []AnswersInv
<1>1. E!Init => AnswersInv
  BY InitInv
<1>2. AnswersInv /\ [E!Next]_(E!vars) => AnswersInv'
  <2> SUFFICES ASSUME AnswersInv, [E!Next]_(E!vars) PROVE AnswersInv'
    OBVIOUS
  <2>1. CASE UNCHANGED E!vars
    BY <2>1, StutterInv
  <2>2. CASE E!Next
    BY <2>2, SearchInv, FuseInv, DescribeInv, DescribeRaisesInv, NothingFoundInv, KeepHitInv, HitsDoneInv,
       KeepDetailInv, DetailsDoneInv, ShedInv, FinishInv DEF E!Next
  <2> QED  BY <2>1, <2>2
<1> QED  BY <1>1, <1>2, PTL DEF E!Spec

------------------------------------------------------------------------------
(* Taking turns: an item is in one channel at most, so its score is that of  *)
(* its first rank there, and the fused ranking is by rank and then channel.  *)

LEMMA MinOf ==
    ASSUME NEW T \in SUBSET Nat, T # {}
    PROVE  E!Min(T) \in T /\ \A x \in T : E!Min(T) <= x
<1>1. PICK n \in T : \A m \in T : n <= m
  BY LeastOf
<1> QED  BY <1>1 DEF E!Min

LEMMA PartsOf ==
    ASSUME NEW u \in Nat \ {0}, NEW a \in Nat \ {0}, u % a = 0
    PROVE  u \div a \in Nat \ {0} /\ u = a * (u \div a)
OBVIOUS

\* The part of a later rank is smaller.
LEMMA Fractions ==
    ASSUME NEW u \in Nat \ {0}, NEW a \in Nat \ {0}, NEW b \in Nat, a < b, u % a = 0, u % b = 0
    PROVE  u \div a > u \div b
<1>1. PICK p \in Nat \ {0}, q \in Nat \ {0} : p = u \div a /\ q = u \div b /\ u = a * p /\ u = b * q
  BY PartsOf
<1>2. ASSUME p <= q PROVE FALSE
  <2>1. a * p <= a * q
    BY <1>2
  <2>2. a * q < b * q
    OBVIOUS
  <2>3. a * p \in Int /\ a * q \in Int /\ b * q \in Int
    OBVIOUS
  <2> QED  BY <1>1, <2>1, <2>2, <2>3
<1> QED  BY <1>1, <1>2

LEMMA SumOfOne ==
    ASSUME NEW f, NEW x, DOMAIN f = {x}, f[x] \in Nat
    PROVE  E!SumFunction(f) = f[x]
<1>1. IsFiniteSet(DOMAIN f)
  BY FS_Singleton
<1>2. PICK g : /\ g = [s \in SUBSET DOMAIN f |->
                            IF s = {} THEN 0
                            ELSE f[CHOOSE y \in s : TRUE] + g[s \ {CHOOSE y \in s : TRUE}]]
               /\ E!SumFunction(f) = g[DOMAIN f]
  BY <1>1, Summing
<1>3. g[{}] = 0
  BY <1>2
<1>4. (CHOOSE y \in {x} : TRUE) = x
  OBVIOUS
<1>5. g[{x}] = f[x] + g[{}]
  <2>1. {x} \in SUBSET DOMAIN f /\ {x} # {} /\ {x} \ {x} = {}
    OBVIOUS
  <2>2. g[{x}] = f[CHOOSE y \in {x} : TRUE] + g[{x} \ {CHOOSE y \in {x} : TRUE}]
    BY <1>2, <2>1
  <2> QED  BY <1>4, <2>1, <2>2
<1> QED  BY <1>2, <1>3, <1>5

\* What every channel would answer is there, and the sources asked for are known.
Answerable ==
    /\ \A c \in DOMAIN Items : eFound[c] \in Seq(Items[c]) /\ Len(eFound[c]) <= MaxFound
    /\ eAsk.sources \subseteq E!Sources

\* The searched channels hold their results, in the order of their positions,
\* and those not searched yet come after them.
Searches ==
    /\ Answerable
    /\ ePhase = "registry" => eChannels = <<>>
    /\ eState \in [E!Sources -> {"new", "ok", "error", "filtered"}]
    /\ eChannels \in Seq((DOMAIN Items) \X Seq(E!AllItems))
    /\ \A k \in DOMAIN eChannels :
          /\ eChannels[k][2] = E!Results(eChannels[k][1])
          /\ \A m \in DOMAIN eChannels :
                k < m => E!Position(eChannels[k][1]) < E!Position(eChannels[m][1])
          /\ \A s \in E!Waiting : E!Position(eChannels[k][1]) < E!Position(s)

LEMMA ResultsOf ==
    ASSUME E!ExploreAssumption, Answerable, NEW c \in DOMAIN Items
    PROVE  E!Results(c) \in Seq(Items[c]) /\ Len(E!Results(c)) <= MaxFound
<1>1. E!PoolLimit \in Nat /\ MaxFound \in Nat
  BY DEF E!ExploreAssumption, E!PoolLimit
<1>2. ASSUME NEW t \in Seq(Items[c]), Len(t) <= MaxFound
      PROVE  E!First(t, E!PoolLimit) \in Seq(Items[c]) /\ Len(E!First(t, E!PoolLimit)) <= MaxFound
  <2>1. Len(t) \in Nat
    BY LenProperties
  <2>2. Len(E!First(t, E!PoolLimit)) <= Len(t) /\ E!First(t, E!PoolLimit) \in Seq(Items[c])
    BY <1>1, <2>1, FirstOf
  <2> QED  BY <1>1, <1>2, <2>1, <2>2, LenProperties
<1>3. ASSUME NEW t \in Seq(Items[c]), Len(t) <= MaxFound, NEW X
      PROVE  E!Those(t, X) \in Seq(Items[c]) /\ Len(E!Those(t, X)) <= MaxFound
  <2>1. E!Those(t, X) \in Seq(Items[c]) /\ Len(E!Those(t, X)) <= Len(t)
    BY ThoseAre
  <2> QED  BY <1>1, <1>3, <2>1, LenProperties
<1>4. eFound[c] \in Seq(Items[c]) /\ Len(eFound[c]) <= MaxFound
  BY DEF Answerable
<1>5. CASE c = Registry
  <2>1. PICK X : E!Results(c) = E!Those(E!First(eFound[c], E!PoolLimit), X)
    BY <1>5 DEF E!Results, E!RegistryResults
  <2> QED  BY <1>2, <1>3, <1>4, <2>1
<1>6. CASE c # Registry
  <2>1. PICK X : \/ E!Results(c) = E!Those(E!First(eFound[c], E!PoolLimit), X)
                 \/ E!Results(c) = E!First(E!Those(eFound[c], X), E!PoolLimit)
    BY <1>6 DEF E!Results, E!SourceResults
  <2> QED  BY <1>2, <1>3, <1>4, <2>1
<1> QED  BY <1>5, <1>6

\* The positions of the channels: the registry's is before every source's.
LEMMA Positions ==
    ASSUME E!ExploreAssumption
    PROVE  /\ E!Position(Registry) = 0
           /\ \A s \in E!Sources : E!Position(s) \in Nat \ {0} /\ Order[E!Position(s)] = s
<1>1. ASSUME NEW s \in E!Sources PROVE E!Position(s) \in DOMAIN Order /\ Order[E!Position(s)] = s
  <2>1. s # Registry
    BY DEF E!ExploreAssumption
  <2>2. \E n \in DOMAIN Order : Order[n] = s
    BY DEF E!Sources, E!Range
  <2> QED  BY <2>1, <2>2 DEF E!Position
<1>2. DOMAIN Order \subseteq Nat \ {0}
  <2>1. DOMAIN Order = 1..Len(Order) /\ Len(Order) \in Nat
    BY LenProperties DEF E!ExploreAssumption
  <2> QED  BY <2>1
<1> QED  BY <1>1, <1>2 DEF E!Position

LEMMA SearchesFirst ==
    ASSUME E!ExploreAssumption, E!Init
    PROVE  Searches
<1>1. eChannels = <<>> /\ ePhase = "registry" /\ eState = [s \in E!Sources |-> "new"]
  BY DEF E!Init
<1>2. ASSUME NEW c \in DOMAIN Items PROVE eFound[c] \in Seq(Items[c]) /\ Len(eFound[c]) <= MaxFound
  <2>1. eFound[c] \in E!SeqOf(E!AllItems, MaxFound) /\ E!Range(eFound[c]) \subseteq Items[c]
    BY DEF E!Init
  <2>2. PICK m \in 0..MaxFound : eFound[c] \in [1..m -> E!AllItems]
    BY <2>1 DEF E!SeqOf
  <2>3. m \in Nat /\ m <= MaxFound
    BY <2>2 DEF E!ExploreAssumption
  <2>4. eFound[c] \in [1..m -> Items[c]]
    BY <2>1, <2>2 DEF E!Range
  <2> QED  BY <2>3, <2>4
<1>3. eAsk.sources \subseteq E!Sources
  BY DEF E!Init
<1>4. Answerable
  BY <1>2, <1>3 DEF Answerable
<1>5. eChannels \in Seq((DOMAIN Items) \X Seq(E!AllItems)) /\ DOMAIN eChannels = {}
  BY <1>1
<1>6. eState \in [E!Sources -> {"new", "ok", "error", "filtered"}]
  BY <1>1
<1> QED  BY <1>1, <1>4, <1>5, <1>6 DEF Searches

\* Only the searches change what is searched.
LEMMA SearchesSame ==
    ASSUME Searches, ePhase' # "registry", UNCHANGED <<eAsk, eFound, eState, eChannels>>
    PROVE  Searches'
<1>1. Answerable'
  BY DEF Searches, Answerable
<1>2. E!Waiting' = E!Waiting
  BY DEF E!Waiting
<1>3. \A c : E!Results(c)' = E!Results(c)
  BY DEF E!Results, E!RegistryResults, E!SourceResults, E!OfKind, E!InNamespace
<1> QED  BY <1>1, <1>2, <1>3 DEF Searches

LEMMA SearchRegistrySearches ==
    ASSUME E!ExploreAssumption, Searches, E!SearchRegistry
    PROVE  Searches'
<1>1. /\ ePhase = "registry" /\ ePhase' = "sources" /\ UNCHANGED <<eAsk, eFound, eState>>
      /\ eChannels = <<>>
      /\ \/ eChannels' = <<<<Registry, E!RegistryResults>>>>
         \/ eChannels' = eChannels
  BY DEF E!SearchRegistry, Searches
<1>2. CASE eChannels' = eChannels
  BY <1>1, <1>2, SearchesSame
<1>3. CASE eChannels' = <<<<Registry, E!RegistryResults>>>>
  <2>1. Answerable'
    BY <1>1 DEF Searches, Answerable
  <2>2. E!Waiting' = E!Waiting /\ E!Waiting \subseteq E!Sources
    BY <1>1 DEF E!Waiting, Searches, Answerable
  <2>3. \A c : E!Results(c)' = E!Results(c)
    BY <1>1 DEF E!Results, E!RegistryResults, E!SourceResults, E!OfKind, E!InNamespace
  <2>4. Registry \in DOMAIN Items /\ E!RegistryResults \in Seq(E!AllItems)
    <3>1. Registry \in DOMAIN Items /\ Items[Registry] \subseteq E!AllItems
      BY DEF E!ExploreAssumption, E!AllItems, E!Range
    <3>2. E!RegistryResults \in Seq(Items[Registry])
      BY <3>1, ResultsOf DEF Searches, E!Results
    <3> QED  BY <3>1, <3>2
  <2>5. /\ eChannels' \in Seq((DOMAIN Items) \X Seq(E!AllItems)) /\ DOMAIN eChannels' = {1}
        /\ eChannels'[1][1] = Registry /\ eChannels'[1][2] = E!RegistryResults
    BY <1>3, <2>4
  <2>6. E!RegistryResults = E!Results(Registry)
    BY DEF E!Results
  <2>7. \A s \in E!Waiting : E!Position(Registry) < E!Position(s)
    BY <2>2, Positions
  <2>8. eState' \in [E!Sources -> {"new", "ok", "error", "filtered"}] /\ ePhase' # "registry"
    BY <1>1 DEF Searches
  <2> QED  BY <2>1, <2>2, <2>3, <2>5, <2>6, <2>7, <2>8 DEF Searches
<1> QED  BY <1>1, <1>2, <1>3

LEMMA SearchSourceSearches ==
    ASSUME E!ExploreAssumption, Searches, E!SearchSource
    PROVE  Searches'
<1>1. PICK s \in E!Waiting :
         /\ \A t \in E!Waiting : E!Position(s) <= E!Position(t)
         /\ \E v \in {"ok", "error", "filtered"} : eState' = [eState EXCEPT ![s] = v]
         /\ eChannels' = Append(eChannels, <<s, E!SourceResults(s)>>) \/ eChannels' = eChannels
  BY DEF E!SearchSource
<1>2. ePhase = "sources" /\ ePhase' = "sources" /\ UNCHANGED <<eAsk, eFound>>
  BY DEF E!SearchSource
<1>3. s \in E!Sources /\ E!Waiting \subseteq E!Sources
  BY <1>1 DEF E!Waiting, Searches, Answerable
<1>4. eState' \in [E!Sources -> {"new", "ok", "error", "filtered"}]
  BY <1>1, <1>3 DEF Searches
<1>5. E!Waiting' \subseteq E!Waiting \ {s}
  BY <1>1, <1>2, <1>3 DEF E!Waiting, Searches
<1>6. ASSUME NEW t \in E!Waiting' PROVE E!Position(s) < E!Position(t)
  <2>1. t \in E!Waiting /\ t # s /\ E!Position(s) <= E!Position(t)
    BY <1>1, <1>5
  <2> QED  BY <1>3, <2>1, Positions
<1>7. Answerable'
  BY <1>2 DEF Searches, Answerable
<1>8. \A c : E!Results(c)' = E!Results(c)
  BY <1>2 DEF E!Results, E!RegistryResults, E!SourceResults, E!OfKind, E!InNamespace
<1>9. CASE eChannels' = eChannels
  BY <1>2, <1>4, <1>5, <1>7, <1>8, <1>9 DEF Searches
<1>10. CASE eChannels' = Append(eChannels, <<s, E!SourceResults(s)>>)
  <2>1. s # Registry /\ s \in DOMAIN Items /\ Items[s] \subseteq E!AllItems
    BY <1>3 DEF E!ExploreAssumption, E!AllItems, E!Range
  <2>2. E!SourceResults(s) = E!Results(s)
    BY <2>1 DEF E!Results
  <2>3. E!Results(s) \in Seq(E!AllItems)
    <3>1. E!Results(s) \in Seq(Items[s])
      BY <2>1, ResultsOf DEF Searches
    <3> QED  BY <2>1, <3>1
  <2>4. PICK e : /\ e \in (DOMAIN Items) \X Seq(E!AllItems)
                 /\ e = <<s, E!SourceResults(s)>> /\ e[1] = s /\ e[2] = E!Results(s)
    <3>1. <<s, E!Results(s)>> \in (DOMAIN Items) \X Seq(E!AllItems)
      BY <2>1, <2>3
    <3> QED  BY <2>2, <3>1
  <2>5. eChannels \in Seq((DOMAIN Items) \X Seq(E!AllItems))
    BY DEF Searches
  <2>6. PICK n \in Nat : /\ n = Len(eChannels) /\ DOMAIN eChannels = 1..n
                         /\ eChannels' \in Seq((DOMAIN Items) \X Seq(E!AllItems))
                         /\ DOMAIN eChannels' = 1..(n + 1) /\ eChannels'[n + 1] = e
                         /\ \A k \in 1..n : eChannels'[k] = eChannels[k]
    <3>1. eChannels' = Append(eChannels, e)
      BY <1>10, <2>4
    <3>2. PICK Pairs : Pairs = (DOMAIN Items) \X Seq(E!AllItems)
      OBVIOUS
    <3>3. eChannels \in Seq(Pairs) /\ e \in Pairs
      BY <2>4, <2>5, <3>2
    <3>4. /\ Append(eChannels, e) \in Seq(Pairs)
          /\ Len(Append(eChannels, e)) = Len(eChannels) + 1
          /\ Append(eChannels, e)[Len(eChannels) + 1] = e
          /\ \A k \in 1..Len(eChannels) : Append(eChannels, e)[k] = eChannels[k]
      BY <3>3, AppendProperties
    <3>5. /\ DOMAIN eChannels = 1..Len(eChannels) /\ Len(eChannels) \in Nat
          /\ DOMAIN Append(eChannels, e) = 1..Len(Append(eChannels, e))
      BY <3>3, <3>4, LenProperties
    <3> QED  BY <3>1, <3>2, <3>4, <3>5
  <2>7. \A k \in 1..n : E!Position(eChannels[k][1]) < E!Position(s)
    BY <1>1, <2>6 DEF Searches
  <2>8. ASSUME NEW k \in 1..(n + 1)
        PROVE  /\ eChannels'[k][2] = E!Results(eChannels'[k][1])
               /\ \A m \in 1..(n + 1) :
                     k < m => E!Position(eChannels'[k][1]) < E!Position(eChannels'[m][1])
               /\ \A t \in E!Waiting' : E!Position(eChannels'[k][1]) < E!Position(t)
    <3>1. CASE k = n + 1
      BY <1>6, <2>4, <2>6, <3>1
    <3>2. CASE k \in 1..n
      <4>1. eChannels'[k][2] = E!Results(eChannels'[k][1]) /\ eChannels'[k] = eChannels[k]
        BY <2>6, <3>2 DEF Searches
      <4>2. ASSUME NEW m \in 1..(n + 1), k < m
            PROVE  E!Position(eChannels'[k][1]) < E!Position(eChannels'[m][1])
        <5>1. CASE m = n + 1
          BY <2>4, <2>6, <2>7, <3>2, <4>1, <5>1
        <5>2. CASE m \in 1..n
          BY <2>6, <3>2, <4>1, <4>2, <5>2 DEF Searches
        <5> QED  BY <2>6, <5>1, <5>2
      <4>3. \A t \in E!Waiting' : E!Position(eChannels'[k][1]) < E!Position(t)
        BY <1>5, <2>6, <3>2, <4>1 DEF Searches
      <4> QED  BY <4>1, <4>2, <4>3
    <3> QED  BY <2>6, <3>1, <3>2
  <2> QED  BY <1>2, <1>4, <1>7, <1>8, <2>6, <2>8 DEF Searches
<1> QED  BY <1>1, <1>9, <1>10

\* Where an item is listed and at which rank.
Home(i) == CHOOSE k \in DOMAIN eChannels : k \in E!Listing(i)
RankOf(i) == E!Min(E!Ranks(i, Home(i)))
Listed == {i \in E!AllItems : E!Listing(i) # {}}
Turn(i, j) ==
    \/ RankOf(i) < RankOf(j)
    \/ RankOf(i) = RankOf(j) /\ Home(i) < Home(j)

LEMMA ChannelsAre ==
    ASSUME E!ExploreAssumption, Searches, NEW k \in DOMAIN eChannels
    PROVE  /\ k \in Nat /\ eChannels[k][1] \in DOMAIN Items
           /\ eChannels[k][2] \in Seq(Items[eChannels[k][1]]) /\ Len(eChannels[k][2]) <= MaxFound
           /\ eChannels[k][2] = E!Results(eChannels[k][1])
<1>1. eChannels \in Seq((DOMAIN Items) \X Seq(E!AllItems))
  BY DEF Searches
<1>2. k \in Nat /\ eChannels[k] \in (DOMAIN Items) \X Seq(E!AllItems)
  BY <1>1, LenProperties, ElementOfSeq
<1>3. eChannels[k][1] \in DOMAIN Items /\ eChannels[k][2] = E!Results(eChannels[k][1])
  BY <1>2 DEF Searches
<1> QED  BY <1>2, <1>3, ResultsOf DEF Searches

LEMMA RanksAre ==
    ASSUME E!ExploreAssumption, Searches, NEW i, NEW k \in DOMAIN eChannels
    PROVE  /\ E!Ranks(i, k) \subseteq 1..MaxFound
           /\ E!Ranks(i, k) # {} => i \in Items[eChannels[k][1]]
<1>1. PICK s : s = eChannels[k][2]
  OBVIOUS
<1>2. s \in Seq(Items[eChannels[k][1]]) /\ Len(s) <= MaxFound
  BY <1>1, ChannelsAre
<1>3. /\ DOMAIN s = 1..Len(s) /\ Len(s) \in Nat /\ MaxFound \in Nat
      /\ \A r \in 1..Len(s) : s[r] \in Items[eChannels[k][1]]
  BY <1>2, LenProperties, ElementOfSeq DEF E!ExploreAssumption
<1>4. E!Ranks(i, k) = {r \in DOMAIN s : s[r] = i}
  BY <1>1 DEF E!Ranks
<1> QED  BY <1>2, <1>3, <1>4

LEMMA ListedOnce ==
    ASSUME E!ExploreAssumption, Searches, NEW i \in Listed
    PROVE  /\ Home(i) \in DOMAIN eChannels /\ E!Listing(i) = {Home(i)} /\ Home(i) \in Nat
           /\ RankOf(i) \in 1..MaxFound /\ RankOf(i) \in E!Ranks(i, Home(i))
           /\ i \in Items[eChannels[Home(i)][1]] /\ eChannels[Home(i)][2][RankOf(i)] = i
<1>1. \E k \in DOMAIN eChannels : k \in E!Listing(i)
  BY DEF Listed, E!Listing
<1>2. Home(i) \in DOMAIN eChannels /\ E!Ranks(i, Home(i)) # {}
  BY <1>1 DEF Home, E!Listing
<1>3. i \in Items[eChannels[Home(i)][1]] /\ eChannels[Home(i)][1] \in DOMAIN Items
  BY <1>2, ChannelsAre, RanksAre
<1>4. ASSUME NEW k \in E!Listing(i) PROVE k = Home(i)
  <2>1. k \in DOMAIN eChannels /\ i \in Items[eChannels[k][1]] /\ eChannels[k][1] \in DOMAIN Items
    BY <1>4, ChannelsAre, RanksAre DEF E!Listing
  <2>2. eChannels[k][1] = eChannels[Home(i)][1]
    BY <1>3, <2>1 DEF E!ExploreAssumption
  <2>3. k \in Nat /\ Home(i) \in Nat
    BY <1>2, <2>1, ChannelsAre
  <2>4. ~(k < Home(i)) /\ ~(Home(i) < k)
    <3>1. E!Position(eChannels[k][1]) \in Nat
      <4>1. eChannels[k][1] \in E!Sources \cup {Registry}
        BY <2>1 DEF E!ExploreAssumption
      <4> QED  BY <4>1, Positions
    <3> QED  BY <1>2, <2>1, <2>2, <3>1 DEF Searches
  <2> QED  BY <2>3, <2>4
<1>5. E!Listing(i) = {Home(i)}
  BY <1>2, <1>4 DEF E!Listing
<1>6. E!Ranks(i, Home(i)) \subseteq 1..MaxFound /\ E!Ranks(i, Home(i)) \subseteq Nat
  <2>1. MaxFound \in Nat
    BY DEF E!ExploreAssumption
  <2> QED  BY <1>2, <2>1, RanksAre
<1>7. RankOf(i) \in E!Ranks(i, Home(i))
  BY <1>2, <1>6, MinOf DEF RankOf
<1>8. eChannels[Home(i)][2][RankOf(i)] = i
  BY <1>7 DEF E!Ranks
<1> QED  BY <1>2, <1>3, <1>5, <1>6, <1>7, <1>8, ChannelsAre

LEMMA MinOfOne ==
    ASSUME NEW n \in Nat
    PROVE  E!Min({n}) = n
BY MinOf

LEMMA ScoreOf ==
    ASSUME E!ExploreAssumption, Searches, NEW i \in Listed
    PROVE  /\ E!Score(i) = Unit \div (RrfK + RankOf(i)) /\ E!Score(i) \in Nat \ {0}
           /\ E!BestRank(i) = RankOf(i) /\ E!Min(E!Listing(i)) = Home(i)
<1>1. E!Listing(i) = {Home(i)} /\ RankOf(i) \in 1..MaxFound /\ Home(i) \in Nat
  BY ListedOnce
<1>2. Unit \in Nat \ {0} /\ RrfK + RankOf(i) \in Nat \ {0} /\ Unit % (RrfK + RankOf(i)) = 0
  BY <1>1 DEF E!ExploreAssumption
<1>3. Unit \div (RrfK + RankOf(i)) \in Nat \ {0}
  BY <1>2, PartsOf
<1>4. PICK f : f = [c \in E!Listing(i) |-> Unit \div (RrfK + E!Min(E!Ranks(i, c)))]
  OBVIOUS
<1>5. DOMAIN f = {Home(i)} /\ f[Home(i)] = Unit \div (RrfK + RankOf(i))
  BY <1>1, <1>4 DEF RankOf
<1>6. E!SumFunction(f) = f[Home(i)]
  BY <1>3, <1>5, SumOfOne
<1>7. E!Score(i) = Unit \div (RrfK + RankOf(i))
  BY <1>4, <1>5, <1>6 DEF E!Score
<1>8. {E!Min(E!Ranks(i, c)) : c \in E!Listing(i)} = {RankOf(i)}
  BY <1>1 DEF RankOf
<1>9. E!BestRank(i) = RankOf(i)
  <2>1. RankOf(i) \in Nat
    BY <1>1
  <2> QED  BY <1>8, <2>1, MinOfOne DEF E!BestRank
<1> QED  BY <1>1, <1>3, <1>7, <1>9, MinOfOne

LEMMA BeforeIsTurn ==
    ASSUME E!ExploreAssumption, Searches, NEW i \in Listed, NEW j \in Listed
    PROVE  E!Before(i, j) <=> Turn(i, j)
<1>1. /\ RankOf(i) \in 1..MaxFound /\ RankOf(j) \in 1..MaxFound
      /\ Home(i) \in Nat /\ Home(j) \in Nat
  BY ListedOnce
<1>2. PICK a, b : a = RrfK + RankOf(i) /\ b = RrfK + RankOf(j)
  OBVIOUS
<1>3. /\ a \in Nat \ {0} /\ b \in Nat \ {0} /\ Unit \in Nat \ {0} /\ Unit % a = 0 /\ Unit % b = 0
      /\ (a < b <=> RankOf(i) < RankOf(j)) /\ (b < a <=> RankOf(j) < RankOf(i))
  <2>1. /\ RrfK \in Nat /\ MaxFound \in Nat /\ Unit \in Nat \ {0}
        /\ \A r \in 1..MaxFound : Unit % (RrfK + r) = 0
    BY DEF E!ExploreAssumption
  <2>2. Unit % a = 0 /\ Unit % b = 0
    BY <1>1, <1>2, <2>1
  <2> QED  BY <1>1, <1>2, <2>1, <2>2
<1>4. E!Score(i) = Unit \div a /\ E!Score(j) = Unit \div b /\ E!Score(i) \in Nat /\ E!Score(j) \in Nat
  BY <1>2, ScoreOf
<1>5. a < b => E!Score(i) > E!Score(j)
  BY <1>3, <1>4, Fractions
<1>6. b < a => E!Score(j) > E!Score(i)
  BY <1>3, <1>4, Fractions
<1>7. a = b => E!Score(i) = E!Score(j)
  BY <1>4
<1>8. /\ E!Score(i) > E!Score(j) <=> RankOf(i) < RankOf(j)
      /\ E!Score(i) = E!Score(j) <=> RankOf(i) = RankOf(j)
  <2>1. RankOf(i) \in Int /\ RankOf(j) \in Int /\ a \in Int /\ b \in Int
    BY <1>1, <1>3
  <2>2. PICK x, y : x = E!Score(i) /\ y = E!Score(j) /\ x \in Nat /\ y \in Nat
    BY <1>4
  <2>3. (a < b => x > y) /\ (b < a => y > x) /\ (a = b => x = y)
    BY <1>5, <1>6, <1>7, <2>2
  <2>4. (x > y <=> a < b) /\ (x = y <=> a = b)
    BY <2>1, <2>2, <2>3
  <2> QED  BY <1>3, <2>1, <2>2, <2>4
<1>9. /\ E!BestRank(i) = RankOf(i) /\ E!Min(E!Listing(i)) = Home(i)
      /\ E!BestRank(j) = RankOf(j) /\ E!Min(E!Listing(j)) = Home(j)
  BY ScoreOf
<1> QED  BY <1>1, <1>8, <1>9 DEF E!Before, Turn

\* Two items are never at the same turn.
LEMMA TurnTotal ==
    ASSUME E!ExploreAssumption, Searches, NEW i \in Listed, NEW j \in Listed, i # j
    PROVE  Turn(i, j) <=> ~Turn(j, i)
<1>1. /\ RankOf(i) \in Nat /\ RankOf(j) \in Nat /\ Home(i) \in Nat /\ Home(j) \in Nat
      /\ eChannels[Home(i)][2][RankOf(i)] = i /\ eChannels[Home(j)][2][RankOf(j)] = j
  <2>1. RankOf(i) \in 1..MaxFound /\ RankOf(j) \in 1..MaxFound /\ MaxFound \in Nat
    BY ListedOnce DEF E!ExploreAssumption
  <2> QED  BY <2>1, ListedOnce
<1>2. RankOf(i) # RankOf(j) \/ Home(i) # Home(j)
  BY <1>1
<1> QED  BY <1>1, <1>2 DEF Turn

\* What TakesTurns says of a ranking, as an operator of it.
PlacedAt(i) == <<i, eChannels[Home(i)][1]>>
Placements == {p \in E!AllItems \X DOMAIN Items : E!Searched(p[2]) /\ p[1] \in E!Range(E!Results(p[2]))}
SoonerThan(p, q) ==
    \/ E!FirstRank(p[1], p[2]) < E!FirstRank(q[1], q[2])
    \/ /\ E!FirstRank(p[1], p[2]) = E!FirstRank(q[1], q[2])
       /\ E!Position(p[2]) < E!Position(q[2])

LEMMA PlacementsAre ==
    ASSUME E!ExploreAssumption, Searches
    PROVE  /\ Placements = {PlacedAt(i) : i \in Listed}
           /\ \A i \in Listed : /\ PlacedAt(i)[1] = i
                                /\ E!FirstRank(i, PlacedAt(i)[2]) = RankOf(i)
<1>1. ASSUME NEW i \in Listed
      PROVE  /\ PlacedAt(i) \in Placements /\ PlacedAt(i)[1] = i
             /\ E!FirstRank(i, PlacedAt(i)[2]) = RankOf(i)
  <2>1. PICK k : k = Home(i)
    OBVIOUS
  <2>2. /\ k \in DOMAIN eChannels /\ eChannels[k][1] \in DOMAIN Items
        /\ eChannels[k][2] = E!Results(eChannels[k][1]) /\ i \in E!AllItems
    BY <2>1, ListedOnce, ChannelsAre DEF Listed
  <2>3. E!Searched(eChannels[k][1])
    BY <2>2 DEF E!Searched, E!Range
  <2>4. RankOf(i) \in DOMAIN eChannels[k][2] /\ eChannels[k][2][RankOf(i)] = i
    BY <2>1, ListedOnce DEF E!Ranks
  <2>5. i \in E!Range(E!Results(eChannels[k][1]))
    BY <2>2, <2>4 DEF E!Range
  <2>6. PlacedAt(i) = <<i, eChannels[k][1]>>
    BY <2>1 DEF PlacedAt
  <2>7. E!Ranks(i, k) = {r \in DOMAIN E!Results(eChannels[k][1]) : E!Results(eChannels[k][1])[r] = i}
    BY <2>2 DEF E!Ranks
  <2>8. E!FirstRank(i, eChannels[k][1]) = RankOf(i)
    BY <2>1, <2>7 DEF E!FirstRank, RankOf
  <2> QED  BY <2>2, <2>3, <2>5, <2>6, <2>8 DEF Placements
<1>2. ASSUME NEW p \in Placements PROVE p[1] \in Listed /\ p = PlacedAt(p[1])
  <2>1. PICK i, c : p = <<i, c>> /\ i \in E!AllItems /\ c \in DOMAIN Items
                    /\ E!Searched(c) /\ i \in E!Range(E!Results(c))
    BY DEF Placements
  <2>2. PICK k \in DOMAIN eChannels : eChannels[k][1] = c
    BY <2>1 DEF E!Searched, E!Range
  <2>3. eChannels[k][2] = E!Results(c)
    BY <2>2, ChannelsAre
  <2>4. PICK r \in DOMAIN eChannels[k][2] : eChannels[k][2][r] = i
    BY <2>1, <2>3 DEF E!Range
  <2>5. k \in E!Listing(i)
    BY <2>4 DEF E!Listing, E!Ranks
  <2>6. i \in Listed
    BY <2>1, <2>5 DEF Listed
  <2>7. k = Home(i)
    BY <2>5, <2>6, ListedOnce
  <2> QED  BY <2>1, <2>2, <2>6, <2>7 DEF PlacedAt
<1> QED  BY <1>1, <1>2

LEMMA TurnOfPlacements ==
    ASSUME E!ExploreAssumption, Searches, NEW i \in Listed, NEW j \in Listed
    PROVE  SoonerThan(PlacedAt(i), PlacedAt(j)) <=> Turn(i, j)
<1>1. /\ E!FirstRank(PlacedAt(i)[1], PlacedAt(i)[2]) = RankOf(i)
      /\ E!FirstRank(PlacedAt(j)[1], PlacedAt(j)[2]) = RankOf(j)
  BY PlacementsAre
<1>2. PICK k, m : k = Home(i) /\ m = Home(j)
  OBVIOUS
<1>3. PlacedAt(i)[2] = eChannels[k][1] /\ PlacedAt(j)[2] = eChannels[m][1]
  BY <1>2 DEF PlacedAt
<1>4. k \in DOMAIN eChannels /\ m \in DOMAIN eChannels /\ k \in Nat /\ m \in Nat
  BY <1>2, ListedOnce
<1>5. PICK a, b : /\ a = E!Position(eChannels[k][1]) /\ b = E!Position(eChannels[m][1])
                  /\ a \in Nat /\ b \in Nat
  <2>1. eChannels[k][1] \in E!Sources \cup {Registry} /\ eChannels[m][1] \in E!Sources \cup {Registry}
    BY <1>4, ChannelsAre DEF E!ExploreAssumption
  <2>2. E!Position(eChannels[k][1]) \in Nat /\ E!Position(eChannels[m][1]) \in Nat
    BY <2>1, Positions
  <2> QED  BY <2>2
<1>6. (k < m => a < b) /\ (m < k => b < a) /\ (k = m => a = b)
  BY <1>4, <1>5 DEF Searches
<1>7. a < b <=> k < m
  BY <1>4, <1>5, <1>6
<1> QED  BY <1>1, <1>2, <1>3, <1>5, <1>7 DEF SoonerThan, Turn

\* As many numbers as are counted.
LEMMA CountedBy ==
    ASSUME NEW n \in Nat, NEW S, NEW f \in [1..n -> S],
           \A a, b \in 1..n : f[a] = f[b] => a = b, \A x \in S : \E a \in 1..n : f[a] = x
    PROVE  Cardinality(S) = n
<1>1. f \in Bijection(1..n, S)
  BY DEF Bijection, Injection, Surjection, IsInjective
<1>2. ExistsBijection(1..n, S)
  BY <1>1 DEF ExistsBijection
<1> QED  BY <1>2, FS_CountingElements

Turns(hs) ==
    /\ Len(hs) = E!Min({Limit, Cardinality(Placements)})
    /\ \A n \in DOMAIN hs : \E p \in Placements :
          /\ p[1] = hs[n]
          /\ Cardinality({q \in Placements : SoonerThan(q, p)}) = n - 1

\* The sorted ranking counts the placements.
LEMMA RankedAre ==
    ASSUME E!ExploreAssumption, Searches, NEW ranked \in E!SetToSeqs(Listed),
           \A m, n \in DOMAIN ranked : m < n => ~E!Before(ranked[n], ranked[m])
    PROVE  \E N \in Nat :
              /\ ranked \in [1..N -> Listed]
              /\ \A i \in Listed : \E n \in 1..N : ranked[n] = i
              /\ \A m, n \in 1..N : /\ m < n <=> Turn(ranked[m], ranked[n])
                                    /\ ranked[m] = ranked[n] => m = n
<1>1. IsFiniteSet(Listed)
  BY FS_Subset, FiniteIs DEF Listed, E!ExploreAssumption
<1>2. PICK N \in Nat : N = Cardinality(Listed)
  BY <1>1, FS_CardinalityType
<1>3. ranked \in [1..N -> Listed] /\ \A m, n \in 1..N : m # n => ranked[m] # ranked[n]
  BY <1>2, FiniteIs DEF E!SetToSeqs
<1>4. \A i \in Listed : \E n \in 1..N : ranked[n] = i
  <2>1. ranked \in Injection(1..N, Listed)
    BY <1>3 DEF Injection, IsInjective
  <2>2. Cardinality(1..N) = N
    BY FS_Interval
  <2>3. ranked \in Surjection(1..N, Listed)
    BY <1>1, <1>2, <2>1, <2>2, FS_Injection
  <2> QED  BY <2>3 DEF Surjection
<1>5. ASSUME NEW m \in 1..N, NEW n \in 1..N PROVE m < n <=> Turn(ranked[m], ranked[n])
  <2>1. ranked[m] \in Listed /\ ranked[n] \in Listed /\ DOMAIN ranked = 1..N
    BY <1>3
  <2>2. ASSUME m < n PROVE Turn(ranked[m], ranked[n])
    <3>1. ~Turn(ranked[n], ranked[m])
      BY <2>1, <2>2, BeforeIsTurn
    <3>2. ranked[n] # ranked[m]
      BY <1>3, <2>2
    <3> QED  BY <2>1, <3>1, <3>2, TurnTotal
  <2>3. ASSUME n < m PROVE ~Turn(ranked[m], ranked[n])
    BY <2>1, <2>3, BeforeIsTurn
  <2>4. ASSUME m = n PROVE ~Turn(ranked[m], ranked[n])
    <3>1. RankOf(ranked[n]) \in 1..MaxFound /\ Home(ranked[n]) \in Nat
      BY <2>1, ListedOnce
    <3> QED  BY <2>4, <3>1 DEF Turn
  <2> QED  BY <1>2, <2>2, <2>3, <2>4
<1> QED  BY <1>3, <1>4, <1>5

LEMMA FusedTurns ==
    ASSUME E!ExploreAssumption, Searches, NEW ranked \in E!SetToSeqs(Listed),
           \A m, n \in DOMAIN ranked : m < n => ~E!Before(ranked[n], ranked[m])
    PROVE  Turns(E!First(ranked, Limit))
<1>1. PICK N \in Nat : /\ ranked \in [1..N -> Listed]
                       /\ \A i \in Listed : \E n \in 1..N : ranked[n] = i
                       /\ \A m, n \in 1..N : /\ m < n <=> Turn(ranked[m], ranked[n])
                                             /\ ranked[m] = ranked[n] => m = n
  BY RankedAre
<1>2. PICK place : place = [n \in 1..N |-> PlacedAt(ranked[n])]
  OBVIOUS
<1>3. ASSUME NEW n \in 1..N
      PROVE  place[n] \in Placements /\ place[n][1] = ranked[n] /\ place[n] = PlacedAt(ranked[n])
  BY <1>1, <1>2, PlacementsAre
<1>4. \A p \in Placements : \E n \in 1..N : place[n] = p
  BY <1>1, <1>2, PlacementsAre
<1>5. \A m, n \in 1..N : place[m] = place[n] => m = n
  BY <1>1, <1>3
<1>6. Cardinality(Placements) = N
  <2>1. place \in [1..N -> Placements]
    BY <1>2, <1>3
  <2> QED  BY <1>4, <1>5, <2>1, CountedBy
<1>7. PICK hs : hs = E!First(ranked, Limit)
  OBVIOUS
<1>8. /\ Len(hs) = (IF Limit <= N THEN Limit ELSE N) /\ DOMAIN hs = 1..Len(hs)
      /\ \A n \in DOMAIN hs : n \in 1..N /\ hs[n] = ranked[n]
  <2>1. ranked \in Seq(Listed) /\ Len(ranked) = N
    BY <1>1
  <2>2. Limit \in Nat
    BY DEF E!ExploreAssumption
  <2>3. /\ hs \in Seq(Listed) /\ Len(hs) = (IF Limit <= N THEN Limit ELSE N)
        /\ \A k \in 1..Len(hs) : hs[k] = ranked[k]
    BY <1>7, <2>1, <2>2, FirstOf
  <2>4. DOMAIN hs = 1..Len(hs)
    BY <2>3, LenProperties
  <2> QED  BY <2>2, <2>3, <2>4
<1>9. Len(hs) = E!Min({Limit, Cardinality(Placements)})
  <2>1. Limit \in Nat
    BY DEF E!ExploreAssumption
  <2> QED  BY <1>6, <1>8, <2>1, LeastOfTwo
<1>10. ASSUME NEW n \in DOMAIN hs
       PROVE  Cardinality({q \in Placements : SoonerThan(q, place[n])}) = n - 1
  <2>1. n \in 1..N /\ n - 1 \in Nat /\ 1..(n - 1) \subseteq 1..N
    BY <1>8
  <2>2. PICK Q : Q = {q \in Placements : SoonerThan(q, place[n])}
    OBVIOUS
  <2>3. ASSUME NEW m \in 1..N PROVE place[m] \in Q <=> m < n
    <3>1. SoonerThan(place[m], place[n]) <=> Turn(ranked[m], ranked[n])
      BY <1>1, <1>3, <2>1, TurnOfPlacements
    <3> QED  BY <1>1, <1>3, <2>1, <2>2, <3>1
  <2>4. PICK f : f = [m \in 1..(n - 1) |-> place[m]]
    OBVIOUS
  <2>5. f \in [1..(n - 1) -> Q]
    BY <2>1, <2>3, <2>4
  <2>6. \A a, b \in 1..(n - 1) : f[a] = f[b] => a = b
    BY <1>5, <2>1, <2>4
  <2>7. \A q \in Q : \E m \in 1..(n - 1) : f[m] = q
    <3>1. ASSUME NEW q \in Q PROVE \E m \in 1..(n - 1) : f[m] = q
      <4>1. PICK m \in 1..N : place[m] = q
        BY <1>4, <2>2
      <4>2. m < n
        BY <2>3, <4>1
      <4> QED  BY <2>1, <2>4, <4>1, <4>2
    <3> QED  BY <3>1
  <2> QED  BY <2>1, <2>2, <2>5, <2>6, <2>7, CountedBy
<1> QED  BY <1>3, <1>7, <1>8, <1>9, <1>10 DEF Turns

LEMMA FuseTurns ==
    ASSUME E!ExploreAssumption, Searches, E!Fuse
    PROVE  E!TakesTurns'
<1>1. PICK ranked \in E!SetToSeqs(Listed) :
         /\ \A m, n \in DOMAIN ranked : m < n => ~E!Before(ranked[n], ranked[m])
         /\ eHits' = E!First(ranked, Limit)
  BY DEF E!Fuse, Listed
<1>2. Turns(eHits')
  BY <1>1, FusedTurns
<1>3. UNCHANGED <<eAsk, eFound, eChannels>>
  BY DEF E!Fuse
<1>4. \A c : E!Results(c)' = E!Results(c)
  BY <1>3 DEF E!Results, E!RegistryResults, E!SourceResults, E!OfKind, E!InNamespace
<1>5. Placements' = Placements
  BY <1>3, <1>4 DEF Placements, E!Searched
<1>6. \A p, q : SoonerThan(p, q)' <=> SoonerThan(p, q)
  BY <1>4 DEF SoonerThan, E!FirstRank
<1>7. Turns(eHits)'
  BY <1>2, <1>5, <1>6 DEF Turns
<1> QED  BY <1>7, FiniteIs DEF E!TakesTurns, Turns, Placements, SoonerThan

LEMMA SearchesAlways ==
    ASSUME E!ExploreAssumption
    PROVE  E!Spec => [](Searches /\ E!TakesTurns)
<1>1. E!Init => Searches /\ E!TakesTurns
  BY SearchesFirst DEF E!Init, E!TakesTurns
<1>2. Searches /\ E!TakesTurns /\ [E!Next]_(E!vars) => (Searches /\ E!TakesTurns)'
  <2> SUFFICES ASSUME Searches, E!TakesTurns, [E!Next]_(E!vars) PROVE (Searches /\ E!TakesTurns)'
    OBVIOUS
  <2>1. CASE E!SearchRegistry
    BY <2>1, SearchRegistrySearches DEF E!SearchRegistry, E!TakesTurns
  <2>2. CASE E!SearchSource
    BY <2>2, SearchSourceSearches DEF E!SearchSource, E!TakesTurns
  <2>3. CASE E!Fuse
    BY <2>3, SearchesSame, FuseTurns DEF E!Fuse
  <2>4. CASE \/ E!Describe \/ E!DescribeRaises \/ E!NothingFound \/ E!KeepHit \/ E!HitsDone \/ E!KeepDetail \/ E!DetailsDone
             \/ E!Shed \/ E!Finish
    <3>1. /\ UNCHANGED <<eAsk, eFound, eState, eChannels>>
          /\ ePhase' \in {"hits", "details", "check", "done", "failed"}
      BY <2>4 DEF E!Describe, E!DescribeRaises, E!NothingFound, E!KeepHit, E!HitsDone, E!KeepDetail, E!DetailsDone, E!Shed, E!Finish
    <3> QED  BY <3>1, SearchesSame DEF E!TakesTurns
  <2>5. CASE UNCHANGED E!vars
    <3>1. UNCHANGED <<ePhase, eAsk, eFound, eState, eChannels, eHits>>
      BY <2>5 DEF E!vars, E!answerVars
    <3>2. \A c : E!Results(c)' = E!Results(c)
      BY <3>1 DEF E!Results, E!RegistryResults, E!SourceResults, E!OfKind, E!InNamespace
    <3>3. Searches'
      BY <3>1, <3>2 DEF Searches, Answerable, E!Waiting
    <3>4. Placements' = Placements
      BY <3>1, <3>2 DEF Placements, E!Searched
    <3>5. \A p, q : SoonerThan(p, q)' <=> SoonerThan(p, q)
      BY <3>2 DEF SoonerThan, E!FirstRank
    <3>6. E!TakesTurns <=> (ePhase = "describe" => Turns(eHits))
      BY FiniteIs DEF E!TakesTurns, Turns, Placements, SoonerThan
    <3>7. E!TakesTurns' <=> (ePhase' = "describe" => Turns(eHits)')
      BY FiniteIs DEF E!TakesTurns, Turns, Placements, SoonerThan
    <3>8. Turns(eHits)' <=> Turns(eHits)
      BY <3>1, <3>4, <3>5 DEF Turns
    <3> QED  BY <3>1, <3>3, <3>6, <3>7, <3>8
  <2> QED  BY <2>1, <2>2, <2>3, <2>4, <2>5 DEF E!Next
<1> QED  BY <1>1, <1>2, PTL DEF E!Spec

LEMMA ExploreAlways ==
    PartsSpec => [](part = "explore" => AnswersInv /\ E!TakesTurns)
<1>1. ~(part = "explore") /\ [PartsNext]_partsVars => ~(part = "explore")'
  BY OtherPart
<1>2. E!Spec => [](AnswersInv /\ E!TakesTurns)
  <2>1. E!ExploreAssumption
    BY ExploreParts
  <2>2. E!Spec => []AnswersInv
    BY <2>1, InvAlways
  <2>3. E!Spec => [](Searches /\ E!TakesTurns)
    BY <2>1, SearchesAlways
  <2> QED  BY <2>2, <2>3, PTL
<1> QED  BY <1>1, <1>2, ExplorePart, PTL DEF PartsSpec, E!Spec

\* The fused ranking takes turns between the channels that could be searched,
\* whatever failed, and leaves out only what is past the limit.
THEOREM TakesTurnsAlways == PartsSpec => []TakesTurns
BY ExploreAlways, PTL DEF TakesTurns

\* A pack is as long as its used_chars says, the digits of that included,
\* whatever the sizes of what was found.
THEOREM SizeTrueAlways == PartsSpec => []SizeTrue
<1>1. AnswersInv => E!SizeTrue
  BY DEF AnswersInv
<1> QED  BY <1>1, ExploreAlways, PTL DEF SizeTrue

\* Each detail of a pack is of one of its hits, its counts say what is missing,
\* and one that is not truncated is whole.
THEOREM PackTrueAlways == PartsSpec => []PackTrue
<1>1. AnswersInv => E!PackTrue
  BY DEF AnswersInv, Packed, DetailsOf, E!PackTrue, NothingOmitted
<1> QED  BY <1>1, ExploreAlways, PTL DEF PackTrue

=============================================================================
