------------------------------ MODULE NamesProofs ------------------------------
(***************************************************************************)
(* Theorems about the path arithmetic of Names and about the commands made *)
(* of names, for strings of any length and any characters.  A string is    *)
(* gone through by Along, a recursive function: what holds before and      *)
(* after each of its steps holds to its end, because no position is the    *)
(* least one at which it does not (UpToAll).                               *)
(***************************************************************************)
EXTENDS Names, FiniteSetTheorems, SequenceTheorems, TLAPS

(***************************************************************************)
(* Sets of numbers.                                                        *)
(***************************************************************************)

\* A non-empty set of numbers has a least one.
LEMMA Least ==
  ASSUME NEW S \in SUBSET Nat, S # {}
  PROVE  \E n \in S : \A m \in S : n <= m
<1>1. IsWellFoundedOn(OpToRel(<, Nat), Nat)
  BY NatLessThanWellFounded, Zenon
<1>2. PICK n \in S : \A m \in S : ~(<<m, n>> \in OpToRel(<, Nat))
  <2> DEFINE R == OpToRel(<, Nat)
  <2>1. IsWellFoundedOn(R, Nat) /\ S \subseteq Nat /\ S # {}
    BY <1>1, Zenon
  <2> HIDE DEF R
  <2>2. \E n \in S : \A m \in S : ~(<<m, n>> \in R)
    BY <2>1, WFMin
  <2> QED BY <2>2, Zenon DEF R
<1>3. \A m \in S : ~(m < n)
  BY <1>2 DEF OpToRel
<1> QED BY <1>3

\* Induction, over a set of numbers: there is no least one missing.
LEMMA UpToAll ==
  ASSUME NEW n \in Nat, NEW S, 0 \in S, \A k \in 0..n - 1 : k \in S => k + 1 \in S
  PROVE  \A k \in 0..n : k \in S
<1> DEFINE M == {k \in 0..n : k \notin S}
<1>1. SUFFICES ASSUME M # {}
               PROVE  FALSE
  OBVIOUS
<1>2. PICK k \in M : \A m \in M : k <= m
  <2>1. M \in SUBSET Nat
    OBVIOUS
  <2> HIDE DEF M
  <2> QED BY <1>1, <2>1, Least
<1>3. k \in Nat /\ k # 0 /\ k \notin S /\ k <= n
  BY <1>2
<1>4. k - 1 \in 0..n - 1 /\ k - 1 \notin M /\ (k - 1) + 1 = k
  <2> HIDE DEF M
  <2> QED BY <1>2, <1>3
<1> QED BY <1>3, <1>4

\* A bounded, non-empty set of numbers has a greatest one.
LEMMA Greatest ==
  ASSUME NEW n \in Nat, NEW S \in SUBSET (1..n), S # {}
  PROVE  Max(S) \in S /\ \A m \in S : m <= Max(S)
<1> DEFINE T == {n - m : m \in S}
<1>1. T \in SUBSET Nat /\ T # {}
  <2>1. \A m \in S : n - m \in Nat
    OBVIOUS
  <2> QED BY <2>1
<1>2. PICK t \in T : \A u \in T : t <= u
  <2> HIDE DEF T
  <2> QED BY <1>1, Least
<1>3. PICK k \in S : t = n - k
  BY DEF T
<1>4. \A m \in S : n - k <= n - m
  BY <1>2, <1>3
<1>5. \A m \in S : k >= m
  BY <1>4
<1>6. \E x \in S : \A y \in S : x >= y
  BY <1>5
<1>7. Max(S) \in S /\ \A m \in S : Max(S) >= m
  BY <1>6 DEF Max
<1> QED BY <1>7

(***************************************************************************)
(* The path arithmetic.                                                    *)
(***************************************************************************)

\* lastIndexOf.
LEMMA LastIndex ==
  ASSUME NEW C, NEW s \in Seq(C), NEW c
  PROVE  /\ LastIndexOf(s, c) \in 0..Len(s)
         /\ LastIndexOf(s, c) # 0 => s[LastIndexOf(s, c)] = c
         /\ \A i \in 1..Len(s) : s[i] = c => i <= LastIndexOf(s, c)
<1> DEFINE I == {i \in 1..Len(s) : s[i] = c}
<1>1. LastIndexOf(s, c) = IF I # {} THEN Max(I) ELSE 0
  BY DEF LastIndexOf, SelectLastInSeq
<1>2. Len(s) \in Nat
  OBVIOUS
<1>3. CASE I # {}
  <2>1. Max(I) \in I /\ \A m \in I : m <= Max(I)
    <3>1. I \in SUBSET (1..Len(s))
      OBVIOUS
    <3> HIDE DEF I
    <3> QED BY <1>2, <1>3, <3>1, Greatest
  <2> QED BY <1>1, <1>2, <1>3, <2>1
<1>4. CASE I = {}
  BY <1>1, <1>2, <1>4
<1> QED BY <1>3, <1>4

\* What is trimmed is the slashes at the end.
LEMMA Trimmed ==
  ASSUME NEW C, NEW s \in Seq(C)
  PROVE  \E n \in 0..Len(s) : /\ TrimSlashes(s) = SubSeq(s, 1, n)
                              /\ n # 0 => s[n] # "/"
                              /\ \A i \in 1..Len(s) : s[i] # "/" => i <= n
<1> DEFINE I == {i \in 1..Len(s) : s[i] # "/"}
           n == IF I # {} THEN Max(I) ELSE 0
<1>1. TrimSlashes(s) = SubSeq(s, 1, n)
  BY DEF TrimSlashes, SelectLastInSeq
<1>2. Len(s) \in Nat
  OBVIOUS
<1>3. /\ n \in 0..Len(s) /\ (n # 0 => s[n] # "/")
      /\ \A i \in 1..Len(s) : s[i] # "/" => i <= n
  <2>1. CASE I # {}
    <3>1. Max(I) \in I /\ \A m \in I : m <= Max(I)
      <4>1. I \in SUBSET (1..Len(s))
        OBVIOUS
      <4> HIDE DEF I, n
      <4> QED BY <1>2, <2>1, <4>1, Greatest
    <3>2. n = Max(I)
      BY <2>1
    <3> HIDE DEF n
    <3> QED BY <1>2, <3>1, <3>2
  <2>2. CASE I = {}
    <3>1. n = 0
      BY <2>2
    <3> HIDE DEF n
    <3> QED BY <1>2, <2>2, <3>1
  <2> QED BY <2>1, <2>2
<1> HIDE DEF n
<1> QED BY <1>1, <1>3

\* Where a string was put together, its parts are found again.
LEMMA Parts ==
  ASSUME NEW C, NEW s \in Seq(C), NEW c \in C, NEW t \in Seq(C)
  PROVE  LET u == s \o <<c>> \o t
         IN  /\ u \in Seq(C) /\ Len(u) = Len(s) + 1 + Len(t)
             /\ \A i \in 1..Len(s) : u[i] = s[i]
             /\ u[Len(s) + 1] = c
             /\ \A i \in 1..Len(t) : u[Len(s) + 1 + i] = t[i]
             /\ SubSeq(u, 1, Len(s)) = s /\ SubSeq(u, Len(s) + 2, Len(u)) = t
<1> DEFINE one == <<c>>
           v == s \o one
           u == v \o t
<1>1. one \in Seq(C) /\ Len(one) = 1 /\ one[1] = c
  OBVIOUS
<1> HIDE DEF one
<1>2. /\ v \in Seq(C) /\ Len(v) = Len(s) + 1
      /\ \A i \in 1..Len(s) + 1 : v[i] = IF i <= Len(s) THEN s[i] ELSE one[i - Len(s)]
  BY <1>1, ConcatProperties
<1>3. /\ u \in Seq(C) /\ Len(u) = Len(v) + Len(t)
      /\ \A i \in 1..Len(v) + Len(t) : u[i] = IF i <= Len(v) THEN v[i] ELSE t[i - Len(v)]
  <2> HIDE DEF v
  <2>1. v \in Seq(C)
    BY <1>2
  <2> QED BY <2>1, ConcatProperties
<1> HIDE DEF v, u
<1>4. Len(s) \in Nat /\ Len(t) \in Nat
  OBVIOUS
<1> DEFINE k == Len(s)
           m == Len(t)
<1>5. k \in Nat /\ m \in Nat /\ Len(v) = k + 1 /\ Len(u) = k + 1 + m
  BY <1>2, <1>3, <1>4
<1>6. \A i \in 1..k : u[i] = s[i]
  <2> SUFFICES ASSUME NEW i \in 1..k
               PROVE  u[i] = s[i]
    OBVIOUS
  <2> HIDE DEF k, m
  <2>1. i \in 1..Len(v) + m /\ i <= Len(v) /\ i \in 1..k + 1 /\ i <= k
    BY <1>5
  <2> QED BY <1>2, <1>3, <2>1 DEF k, m
<1>7. u[k + 1] = c
  <2>1. k + 1 \in 1..Len(v) + m /\ k + 1 <= Len(v) /\ k + 1 \in 1..k + 1 /\ ~(k + 1 <= k)
        /\ (k + 1) - k = 1
    <3> HIDE DEF k, m
    <3> QED BY <1>5
  <2> QED BY <1>1, <1>2, <1>3, <2>1
<1>8. \A i \in 1..m : u[k + 1 + i] = t[i]
  <2> SUFFICES ASSUME NEW i \in 1..m
               PROVE  u[k + 1 + i] = t[i]
    OBVIOUS
  <2>1. k + 1 + i \in 1..Len(v) + m /\ ~(k + 1 + i <= Len(v)) /\ (k + 1 + i) - Len(v) = i
    <3> HIDE DEF k, m
    <3> QED BY <1>5
  <2> QED BY <1>3, <2>1
<1>9. SubSeq(u, 1, k) = s
  <2>1. /\ SubSeq(u, 1, k) \in Seq(C) /\ Len(SubSeq(u, 1, k)) = k
        /\ \A i \in 1..k : SubSeq(u, 1, k)[i] = u[i]
    <3>1. 1 \in 1..Len(u) + 1 /\ k \in 0..Len(u)
      <4> HIDE DEF k, m
      <4> QED BY <1>5
    <3> HIDE DEF k, m
    <3> QED BY <1>3, <1>5, <3>1
  <2> QED BY <1>6, <2>1, SeqEqual
<1>10. SubSeq(u, k + 2, Len(u)) = t
  <2> DEFINE w == SubSeq(u, k + 2, Len(u))
  <2>1. w \in Seq(C) /\ Len(w) = m /\ \A i \in 1..m : w[i] = u[k + 1 + i]
    <3> HIDE DEF k, m
    <3>1. k + 2 \in Int /\ Len(u) \in Int /\ \A i \in k + 2..Len(u) : u[i] \in C
      BY <1>3, <1>5
    <3>2. /\ w \in Seq(C) /\ Len(w) = IF k + 2 <= Len(u) THEN Len(u) - (k + 2) + 1 ELSE 0
          /\ \A i \in 1..Len(u) - (k + 2) + 1 : w[i] = u[(k + 2) + i - 1]
      BY <3>1, SubSeqProperties
    <3>3. Len(u) - (k + 2) + 1 = m /\ Len(w) = m
      <4> HIDE DEF w
      <4> QED BY <1>5, <3>2
    <3>4. \A i \in 1..m : (k + 2) + i - 1 = k + 1 + i
      BY <1>5
    <3> HIDE DEF w
    <3> QED BY <3>2, <3>3, <3>4
  <2> HIDE DEF w
  <2>2. w = t
    BY <1>8, <2>1, SeqEqual
  <2> QED BY <2>2 DEF w
<1>11. u = s \o <<c>> \o t
  BY DEF u, v, one
<1> HIDE DEF k, m
<1> QED BY <1>3, <1>5, <1>6, <1>7, <1>8, <1>9, <1>10, <1>11 DEF k, m

\* A string that ends in no slash has nothing to trim.
LEMMA NothingToTrim ==
  ASSUME NEW C, NEW s \in Seq(C), s # <<>>, s[Len(s)] # "/"
  PROVE  TrimSlashes(s) = s
<1>1. PICK n \in 0..Len(s) : TrimSlashes(s) = SubSeq(s, 1, n)
                             /\ \A i \in 1..Len(s) : s[i] # "/" => i <= n
  BY Trimmed
<1>2. Len(s) \in Nat /\ Len(s) \in 1..Len(s)
  BY EmptySeq
<1>3. n = Len(s)
  BY <1>1, <1>2
<1> QED BY <1>1, <1>3, SubSeqFull

\* What comes after the last c is found again, and what comes before it.
LEMMA CutAtLast ==
  ASSUME NEW C, NEW s \in Seq(C), NEW c \in C, NEW t \in Seq(C), \A i \in 1..Len(t) : t[i] # c
  PROVE  LET u == s \o <<c>> \o t
         IN  LastIndexOf(u, c) = Len(s) + 1 /\ UpTo(u, c) = s /\ Beyond(u, c) = t
<1> DEFINE u == s \o <<c>> \o t
           k == Len(s)
           m == Len(t)
           n == LastIndexOf(u, c)
<1>1. k \in Nat /\ m \in Nat
  OBVIOUS
<1>2. /\ u \in Seq(C) /\ Len(u) = k + 1 + m /\ u[k + 1] = c
      /\ \A i \in 1..m : u[k + 1 + i] = t[i]
      /\ SubSeq(u, 1, k) = s /\ SubSeq(u, k + 2, Len(u)) = t
  BY Parts
<1> HIDE DEF u
<1>3. n \in 0..Len(u) /\ (n # 0 => u[n] = c) /\ \A i \in 1..Len(u) : u[i] = c => i <= n
  BY <1>2, LastIndex
<1> HIDE DEF k, m, n
<1>4. k + 1 <= n /\ k + 1 \in 1..Len(u)
  BY <1>1, <1>2, <1>3
<1>5. ASSUME n > k + 1
      PROVE  FALSE
  <2> DEFINE j == n - (k + 1)
  <2>1. j \in 1..m /\ n = k + 1 + j /\ n # 0
    BY <1>1, <1>2, <1>3, <1>5
  <2> HIDE DEF j
  <2>2. u[k + 1 + j] = t[j]
    BY <1>2, <2>1
  <2>3. u[n] = c
    BY <1>3, <2>1
  <2> QED BY <2>1, <2>2, <2>3 DEF m
<1>6. n = k + 1
  BY <1>1, <1>2, <1>3, <1>4, <1>5
<1>7. n - 1 = k /\ n + 1 = k + 2
  BY <1>1, <1>6
<1> QED BY <1>2, <1>6, <1>7 DEF n, k, u, UpTo, Beyond

\* joinPath, parentPath, baseName and the name of parseStat, for names and directories of any
\* length and any characters: the directory above a path is the one it was joined to, however
\* that was written, and its last part is the name it was joined with.
THEOREM PathParts ==
  ASSUME NEW C, "/" \in C, NEW dir \in Seq(C),
         NEW name \in Seq(C), name # <<>>, \A i \in 1..Len(name) : name[i] # "/"
  PROVE  LET file == joinPath(dir, name)
         IN  /\ parentPath(file) = IF TrimSlashes(dir) = <<>> THEN <<"/">> ELSE TrimSlashes(dir)
             /\ baseName(file) = name
             /\ StatName(file) = name
<1> DEFINE base == TrimSlashes(dir)
           file == base \o <<"/">> \o name
<1>1. base \in Seq(C)
  BY Trimmed
<1>2. joinPath(dir, name) = file
  <2>1. CASE dir = <<"/">>
    <3>1. PICK n \in 0..1 : base = SubSeq(dir, 1, n) /\ (n # 0 => dir[n] # "/")
      BY <2>1, Trimmed
    <3>2. base = <<>>
      BY <2>1, <3>1
    <3>3. file = <<"/">> \o name
      BY <3>2
    <3> QED BY <2>1, <3>3 DEF joinPath
  <2>2. CASE dir # <<"/">>
    BY <2>2 DEF joinPath
  <2> QED BY <2>1, <2>2
<1> HIDE DEF base
<1>3. UpTo(file, "/") = base /\ Beyond(file, "/") = name
  BY <1>1, CutAtLast
<1>4. TrimSlashes(file) = file
  <2>1. /\ file \in Seq(C) /\ Len(file) = Len(base) + 1 + Len(name)
        /\ \A i \in 1..Len(name) : file[Len(base) + 1 + i] = name[i]
    BY <1>1, Parts
  <2>2. Len(name) \in 1..Len(name) /\ Len(base) \in Nat /\ Len(name) \in Nat
    BY <1>1, EmptySeq
  <2> HIDE DEF file
  <2>3. file[Len(file)] # "/" /\ file # <<>>
    BY <2>1, <2>2
  <2> QED BY <2>1, <2>3, NothingToTrim
<1> HIDE DEF file
<1> QED BY <1>2, <1>3, <1>4 DEF parentPath, baseName, StatName, base

\* The name a suffix is put into: the extension stays, and a hidden file is hidden.
LEMMA SuffixedKeeps ==
  ASSUME NEW C, "." \in C, NEW name \in Seq(C), name # <<>>,
         NEW suffix \in Seq(C)
  PROVE  LET new == IF HasExtension(name)
                    THEN UpTo(name, ".") \o suffix \o <<".">> \o Beyond(name, ".")
                    ELSE name \o suffix
         IN  /\ Head(new) = Head(name)
             /\ HasExtension(name) => Beyond(new, ".") = Beyond(name, ".")
<1> DEFINE last == LastIndexOf(name, ".")
           stem == UpTo(name, ".")
           ext == Beyond(name, ".")
<1>2. Len(name) \in Nat \ {0}
  BY EmptySeq
<1>3. CASE ~HasExtension(name)
  <2> DEFINE new == name \o suffix
  <2>1. /\ new \in Seq(C) /\ Len(new) = Len(name) + Len(suffix)
        /\ \A i \in 1..Len(name) + Len(suffix) :
             new[i] = IF i <= Len(name) THEN name[i] ELSE suffix[i - Len(name)]
    BY ConcatProperties
  <2>2. Len(suffix) \in Nat
    OBVIOUS
  <2> HIDE DEF new
  <2>3. new[1] = name[1] /\ new # <<>>
    BY <1>2, <2>1, <2>2
  <2>4. Head(new) = Head(name)
    BY <2>1, <2>3
  <2> QED BY <1>3, <2>4 DEF new
<1>4. CASE HasExtension(name)
  <2>1. last \in 2..Len(name) /\ name[last] = "." /\ \A i \in 1..Len(name) : name[i] = "." => i <= last
    <3>1. /\ last \in 0..Len(name) /\ (last # 0 => name[last] = ".")
          /\ \A i \in 1..Len(name) : name[i] = "." => i <= last
      BY LastIndex
    <3>2. last > 1
      BY <1>4 DEF HasExtension
    <3> HIDE DEF last
    <3> QED BY <1>2, <3>1, <3>2
  <2>2. stem = SubSeq(name, 1, last - 1) /\ ext = SubSeq(name, last + 1, Len(name))
    BY DEF UpTo, Beyond
  <2> HIDE DEF last, stem, ext
  <2>3. stem \in Seq(C) /\ Len(stem) = last - 1 /\ stem[1] = name[1]
    BY <1>2, <2>1, <2>2
  <2>4. ext \in Seq(C) /\ \A i \in 1..Len(ext) : ext[i] # "."
    <3>1. last + 1 \in Int /\ Len(name) \in Int /\ \A i \in last + 1..Len(name) : name[i] \in C
      BY <1>2, <2>1
    <3>2. /\ ext \in Seq(C)
          /\ Len(ext) = IF last + 1 <= Len(name) THEN Len(name) - (last + 1) + 1 ELSE 0
          /\ \A i \in 1..Len(name) - (last + 1) + 1 : ext[i] = name[(last + 1) + i - 1]
      BY <2>2, <3>1, SubSeqProperties
    <3>3. ASSUME NEW i \in 1..Len(ext)
          PROVE  ext[i] # "."
      <4>1. /\ i \in 1..Len(name) - (last + 1) + 1
            /\ (last + 1) + i - 1 \in 1..Len(name) /\ ~((last + 1) + i - 1 <= last)
        BY <1>2, <2>1, <3>2
      <4> QED BY <2>1, <3>2, <4>1
    <3> QED BY <3>2, <3>3
  <2> DEFINE front == stem \o suffix
  <2>5. front \in Seq(C) /\ Len(front) > 0 /\ front[1] = name[1]
    <3>1. /\ front \in Seq(C) /\ Len(front) = Len(stem) + Len(suffix)
          /\ \A i \in 1..Len(stem) + Len(suffix) :
               front[i] = IF i <= Len(stem) THEN stem[i] ELSE suffix[i - Len(stem)]
      BY <2>3, ConcatProperties
    <3>2. Len(stem) \in Nat \ {0} /\ Len(suffix) \in Nat
      BY <1>2, <2>1, <2>3
    <3> HIDE DEF front
    <3>3. 1 \in 1..Len(stem) + Len(suffix) /\ 1 <= Len(stem) /\ Len(front) > 0
      BY <3>1, <3>2
    <3>4. front[1] = stem[1]
      BY <3>1, <3>3
    <3> QED BY <2>3, <3>1, <3>3, <3>4
  <2> HIDE DEF front
  <2> DEFINE new == front \o <<".">> \o ext
  <2>6. Beyond(new, ".") = ext
    BY <2>4, <2>5, CutAtLast
  <2>7. Head(new) = Head(name)
    <3>1. new \in Seq(C) /\ Len(new) = Len(front) + 1 + Len(ext) /\ \A i \in 1..Len(front) : new[i] = front[i]
      BY <2>4, <2>5, Parts
    <3>2. Len(front) \in Nat /\ Len(ext) \in Nat
      BY <2>4, <2>5
    <3> HIDE DEF new
    <3>3. new[1] = name[1] /\ Head(new) = new[1] /\ Head(name) = name[1]
      BY <1>2, <2>5, <3>1, <3>2
    <3> QED BY <3>3
  <2> QED BY <1>4, <2>6, <2>7 DEF ext, front, stem
<1> QED BY <1>3, <1>4

\* "Keep both": whatever names there are, the name uniqueName gives is of the kind of the one
\* it was asked for - hidden if it was, and with its extension.
THEOREM KindKept ==
  ASSUME NEW C, NEW name \in Seq(C), name # <<>>, NEW existing
  PROVE  LET new == UniqueName(name, existing)
         IN  /\ Head(new) = Head(name)
             /\ HasExtension(name) => Beyond(new, ".") = Beyond(name, ".")
<1>1. ASSUME NEW n
      PROVE  /\ Head(Suffixed(name, n)) = Head(name)
             /\ HasExtension(name) => Beyond(Suffixed(name, n), ".") = Beyond(name, ".")
  <2> DEFINE suffix == <<" ", "(", ToString(n), ")">>
             D == C \cup {".", " ", "(", ")", ToString(n)}
  <2>1. suffix \in Seq(D) /\ "." \in D /\ name \in Seq(D)
    <3>1. suffix \in Seq(D) /\ "." \in D
      OBVIOUS
    <3>2. C \subseteq D
      OBVIOUS
    <3> HIDE DEF D
    <3>3. Len(name) \in Nat /\ name \in [1..Len(name) -> C]
      BY LenProperties
    <3>4. name \in [1..Len(name) -> D]
      BY <3>2, <3>3
    <3>5. name \in Seq(D)
      BY <3>3, <3>4, IsASeq
    <3> QED BY <3>1, <3>5
  <2>2. Suffixed(name, n) = IF HasExtension(name)
                            THEN UpTo(name, ".") \o suffix \o <<".">> \o Beyond(name, ".")
                            ELSE name \o suffix
    BY DEF Suffixed
  <2> HIDE DEF suffix, D
  <2> QED BY <2>1, <2>2, SuffixedKeeps
<1>2. CASE name \notin existing
  BY <1>2 DEF UniqueName
<1>3. CASE name \in existing
  <2>1. PICK n : UniqueName(name, existing) = Suffixed(name, n)
    BY <1>3 DEF UniqueName
  <2> QED BY <1>1, <2>1
<1> QED BY <1>2, <1>3

(***************************************************************************)
(* Along, for the shell.                                                   *)
(***************************************************************************)

\* A shell that is in s before u is in t after it.
Goes(s, u, t) ==
  \E g : /\ g = [i \in 0..Len(u) |-> IF i = 0 THEN s ELSE Shell(g[i - 1], u[i])]
         /\ t = g[Len(u)]

LEMMA GoesAlong ==
  ASSUME NEW C, NEW u \in Seq(C), NEW s, NEW t, Goes(s, u, t)
  PROVE  ShellAfter(s, u) = t
<1> DEFINE Step(g) == [i \in 0..Len(u) |-> IF i = 0 THEN s ELSE Shell(g[i - 1], u[i])]
           f == CHOOSE g : g = Step(g)
<1>1. PICK g : g = Step(g) /\ t = g[Len(u)]
  BY DEF Goes
<1>2. f = Step(f)
  <2> HIDE DEF Step
  <2> QED BY <1>1
<1>3. ShellAfter(s, u) = f[Len(u)]
  BY DEF ShellAfter, Along
<1> HIDE DEF f
<1>4. Len(u) \in Nat
  OBVIOUS
<1> DEFINE n == Len(u)
<1>5. \A k \in 0..n : k \in {i \in 0..n : f[i] = g[i]}
  <2> DEFINE S == {i \in 0..n : f[i] = g[i]}
  <2>1. 0 \in S
    BY <1>1, <1>2, <1>4
  <2>2. ASSUME NEW k \in 0..n - 1, k \in S
        PROVE  k + 1 \in S
    <3>1. k + 1 \in 0..n /\ k + 1 # 0 /\ (k + 1) - 1 = k
      <4> HIDE DEF Step
      <4> QED BY <1>4
    <3>2. f[k + 1] = Shell(f[k], u[k + 1]) /\ g[k + 1] = Shell(g[k], u[k + 1])
      BY <1>1, <1>2, <3>1
    <3> QED BY <2>2, <3>1, <3>2
  <2> HIDE DEF S, Step
  <2>3. \A k \in 0..n : k \in S
    BY <1>4, <2>1, <2>2, UpToAll
  <2> QED BY <2>3 DEF S
<1> HIDE DEF Step
<1> QED BY <1>1, <1>3, <1>4, <1>5

LEMMA GoesNowhere ==
  ASSUME NEW s
  PROVE  Goes(s, <<>>, s)
<1> DEFINE g == [i \in 0..0 |-> s]
<1>1. g = [i \in 0..Len(<<>>) |-> IF i = 0 THEN s ELSE Shell(g[i - 1], <<>>[i])]
  OBVIOUS
<1>2. s = g[Len(<<>>)]
  OBVIOUS
<1> QED BY <1>1, <1>2 DEF Goes

LEMMA GoesOn ==
  ASSUME NEW C, NEW u \in Seq(C), NEW c \in C, NEW s, NEW t, Goes(s, u, t)
  PROVE  Goes(s, Append(u, c), Shell(t, c)) /\ Append(u, c) \in Seq(C)
<1> DEFINE n == Len(u)
           v == Append(u, c)
<1>1. PICK g : /\ g = [i \in 0..n |-> IF i = 0 THEN s ELSE Shell(g[i - 1], u[i])]
               /\ t = g[n]
  BY DEF Goes
<1>2. /\ n \in Nat /\ v \in Seq(C) /\ Len(v) = n + 1 /\ v[n + 1] = c
      /\ \A i \in 1..n : v[i] = u[i]
  BY AppendProperties
<1> HIDE DEF v, n
<1> DEFINE h == [i \in 0..n + 1 |-> IF i = n + 1 THEN Shell(t, c) ELSE g[i]]
<1>3. \A i \in 0..n + 1 : h[i] = IF i = 0 THEN s ELSE Shell(h[i - 1], v[i])
  <2> SUFFICES ASSUME NEW i \in 0..n + 1
               PROVE  h[i] = IF i = 0 THEN s ELSE Shell(h[i - 1], v[i])
    OBVIOUS
  <2>1. CASE i = 0
    <3>1. 0 \in 0..n + 1 /\ 0 \in 0..n /\ 0 # n + 1
      BY <1>2
    <3>2. g[0] = s
      BY <1>1, <3>1
    <3> QED BY <2>1, <3>1, <3>2
  <2>2. CASE i = n + 1
    <3>1. i - 1 \in 0..n + 1 /\ i - 1 # n + 1 /\ i - 1 = n /\ i # 0
      BY <1>2, <2>2
    <3> QED BY <1>1, <1>2, <2>2, <3>1
  <2>3. CASE i \in 1..n
    <3>1. i - 1 \in 0..n + 1 /\ i - 1 # n + 1 /\ i \in 0..n /\ i # 0 /\ i # n + 1
      BY <1>2, <2>3
    <3>2. g[i] = Shell(g[i - 1], u[i])
      BY <1>1, <3>1
    <3> QED BY <1>2, <2>3, <3>1, <3>2
  <2> QED BY <1>2, <2>1, <2>2, <2>3
<1>4. h = [i \in 0..Len(v) |-> IF i = 0 THEN s ELSE Shell(h[i - 1], v[i])]
  BY <1>2, <1>3
<1>5. h[Len(v)] = Shell(t, c)
  BY <1>2
<1> HIDE DEF h
<1>6. Goes(s, v, Shell(t, c))
  BY <1>4, <1>5 DEF Goes
<1> QED BY <1>2, <1>6 DEF v

(***************************************************************************)
(* Along, for concatenation.                                               *)
(***************************************************************************)

\* The first k of the parts make u.
Builds(parts, k, u) ==
  \E g : /\ g = [i \in 0..k |-> IF i = 0 THEN <<>> ELSE g[i - 1] \o parts[i]]
         /\ u = g[k]

LEMMA BuildsConcat ==
  ASSUME NEW C, NEW parts \in Seq(C), NEW u, Builds(parts, Len(parts), u)
  PROVE  Concat(parts) = u
<1> DEFINE n == Len(parts)
           Step(g) == [i \in 0..n |-> IF i = 0 THEN <<>> ELSE g[i - 1] \o parts[i]]
           f == CHOOSE g : g = Step(g)
<1>1. PICK g : g = Step(g) /\ u = g[n]
  BY DEF Builds
<1>2. f = Step(f)
  <2> HIDE DEF Step
  <2> QED BY <1>1
<1>3. Concat(parts) = f[n]
  BY DEF Concat, Along
<1> HIDE DEF f
<1>4. n \in Nat
  OBVIOUS
<1> HIDE DEF n
<1>5. \A k \in 0..n : k \in {i \in 0..n : f[i] = g[i]}
  <2> DEFINE S == {i \in 0..n : f[i] = g[i]}
  <2>1. 0 \in S
    BY <1>1, <1>2, <1>4
  <2>2. ASSUME NEW k \in 0..n - 1, k \in S
        PROVE  k + 1 \in S
    <3>1. k + 1 \in 0..n /\ k + 1 # 0 /\ (k + 1) - 1 = k
      <4> HIDE DEF Step
      <4> QED BY <1>4
    <3>2. f[k + 1] = f[k] \o parts[k + 1] /\ g[k + 1] = g[k] \o parts[k + 1]
      BY <1>1, <1>2, <3>1
    <3> QED BY <2>2, <3>1, <3>2
  <2> HIDE DEF S, Step
  <2>3. \A k \in 0..n : k \in S
    BY <1>4, <2>1, <2>2, UpToAll
  <2> QED BY <2>3 DEF S
<1> HIDE DEF Step
<1>6. n \in 0..n
  BY <1>4
<1> QED BY <1>1, <1>3, <1>5, <1>6

LEMMA BuildsNone ==
  ASSUME NEW parts
  PROVE  Builds(parts, 0, <<>>)
<1> DEFINE g == [i \in 0..0 |-> <<>>]
<1>1. g = [i \in 0..0 |-> IF i = 0 THEN <<>> ELSE g[i - 1] \o parts[i]]
  OBVIOUS
<1>2. <<>> = g[0]
  OBVIOUS
<1> QED BY <1>1, <1>2 DEF Builds

LEMMA BuildsOn ==
  ASSUME NEW parts, NEW k \in Nat, NEW j, j = k + 1, NEW u, Builds(parts, k, u)
  PROVE  Builds(parts, j, u \o parts[j])
<1>1. PICK g : /\ g = [i \in 0..k |-> IF i = 0 THEN <<>> ELSE g[i - 1] \o parts[i]]
               /\ u = g[k]
  BY DEF Builds
<1> DEFINE h == [i \in 0..k + 1 |-> IF i = k + 1 THEN u \o parts[k + 1] ELSE g[i]]
<1>2. \A i \in 0..k + 1 : h[i] = IF i = 0 THEN <<>> ELSE h[i - 1] \o parts[i]
  <2> SUFFICES ASSUME NEW i \in 0..k + 1
               PROVE  h[i] = IF i = 0 THEN <<>> ELSE h[i - 1] \o parts[i]
    OBVIOUS
  <2>1. CASE i = 0
    <3>1. 0 \in 0..k + 1 /\ 0 \in 0..k /\ 0 # k + 1
      OBVIOUS
    <3>2. g[0] = <<>>
      BY <1>1, <3>1
    <3> QED BY <2>1, <3>1, <3>2
  <2>2. CASE i = k + 1
    <3>1. i - 1 \in 0..k + 1 /\ i - 1 # k + 1 /\ i - 1 = k /\ i # 0
      BY <2>2
    <3> QED BY <1>1, <2>2, <3>1
  <2>3. CASE i \in 1..k
    <3>1. i - 1 \in 0..k + 1 /\ i - 1 # k + 1 /\ i \in 0..k /\ i # 0 /\ i # k + 1
      BY <2>3
    <3>2. g[i] = g[i - 1] \o parts[i]
      BY <1>1, <3>1
    <3> QED BY <2>3, <3>1, <3>2
  <2> QED BY <2>1, <2>2, <2>3
<1>3. h = [i \in 0..k + 1 |-> IF i = 0 THEN <<>> ELSE h[i - 1] \o parts[i]]
  BY <1>2
<1>4. h[k + 1] = u \o parts[k + 1]
  OBVIOUS
<1> HIDE DEF h
<1>5. Builds(parts, k + 1, u \o parts[k + 1])
  BY <1>3, <1>4 DEF Builds
<1> QED BY <1>5

(***************************************************************************)
(* The steps of the shell.                                                 *)
(***************************************************************************)

\* The states of the shell, and the characters it does not take as they are.
St(ws, w, m) == [words |-> ws, word |-> w, mode |-> m]
Plain == {"blank", "word"}
Special == {"'", "\\", " ", "|", ">", "$"}

\* A quote begins quoted text, a backslash an escape.
LEMMA ShellOpens ==
  ASSUME NEW ws, NEW w, NEW m \in Plain
  PROVE  /\ Shell(St(ws, w, m), "'") = St(ws, w, "quotes")
         /\ Shell(St(ws, w, m), "\\") = St(ws, w, "escape")
BY DEF Plain, St, Shell

\* A character in quotes or after a backslash is of the word, whatever it is.
LEMMA ShellTakes ==
  ASSUME NEW ws, NEW w, NEW c
  PROVE  /\ Shell(St(ws, w, "escape"), c) = St(ws, Append(w, c), "word")
         /\ c # "'" => Shell(St(ws, w, "quotes"), c) = St(ws, Append(w, c), "quotes")
BY DEF St, Shell

\* So is any other character that is not special.
LEMMA ShellReads ==
  ASSUME NEW ws, NEW w, NEW m \in Plain, NEW c, c \notin Special
  PROVE  Shell(St(ws, w, m), c) = St(ws, Append(w, c), "word")
BY DEF Plain, Special, St, Shell

\* Quoted text ends at a quote, a word at a blank.
LEMMA ShellEnds ==
  ASSUME NEW ws, NEW w
  PROVE  /\ Shell(St(ws, w, "quotes"), "'") = St(ws, w, "word")
         /\ Shell(St(ws, w, "word"), " ") = St(Append(ws, w), <<>>, "blank")
         /\ Shell(St(ws, w, "blank"), " ") = St(ws, <<>>, "blank")
BY DEF St, Shell

\* An operator at the start of a word is one by itself.
LEMMA ShellOperates ==
  ASSUME NEW ws, NEW w, NEW c \in {"|", ">"}
  PROVE  Shell(St(ws, w, "blank"), c) = St(Append(ws, <<"operator", c>>), <<>>, "blank")
BY DEF St, Shell

(***************************************************************************)
(* Short strings, character by character.                                  *)
(***************************************************************************)

\* A string made longer at its end.
LEMMA Longer ==
  ASSUME NEW C, NEW u \in Seq(C), NEW v \in Seq(C), NEW c \in C
  PROVE  /\ u \o Append(v, c) = Append(u \o v, c)
         /\ u \o <<c>> = Append(u, c)
<1>1. <<c>> \in Seq(C) /\ u \o v \in Seq(C)
  BY ConcatProperties
<1>2. Append(v, c) = v \o <<c>> /\ Append(u, c) = u \o <<c>>
  BY AppendIsConcat
<1>3. Append(u \o v, c) = (u \o v) \o <<c>>
  BY <1>1, AppendIsConcat
<1>4. u \o (v \o <<c>>) = (u \o v) \o <<c>>
  BY <1>1, ConcatAssociative
<1> QED BY <1>2, <1>3, <1>4

LEMMA OneOf ==
  ASSUME NEW C, NEW a \in C
  PROVE  <<a>> \in Seq(C) /\ <<a>> = Append(<<>>, a)
OBVIOUS

LEMMA TwoOf ==
  ASSUME NEW C, NEW a \in C, NEW b \in C
  PROVE  <<a, b>> \in Seq(C) /\ <<a, b>> = Append(Append(<<>>, a), b)
<1>1. <<a>> \in Seq(C) /\ <<a, b>> \in Seq(C) /\ <<a, b>> = Append(<<a>>, b)
  OBVIOUS
<1> QED BY <1>1, OneOf

LEMMA ThreeOf ==
  ASSUME NEW C, NEW a \in C, NEW b \in C, NEW c \in C
  PROVE  <<a, b, c>> \in Seq(C) /\ <<a, b, c>> = Append(Append(Append(<<>>, a), b), c)
<1>1. <<a, b>> \in Seq(C) /\ <<a, b, c>> \in Seq(C) /\ <<a, b, c>> = Append(<<a, b>>, c)
  OBVIOUS
<1> QED BY <1>1, TwoOf

LEMMA FourOf ==
  ASSUME NEW C, NEW a \in C, NEW b \in C, NEW c \in C, NEW d \in C
  PROVE  /\ <<a, b, c, d>> \in Seq(C)
         /\ <<a, b, c, d>> = Append(Append(Append(Append(<<>>, a), b), c), d)
<1>1. /\ <<a, b, c>> \in Seq(C) /\ <<a, b, c, d>> \in Seq(C)
      /\ <<a, b, c, d>> = Append(<<a, b, c>>, d)
  OBVIOUS
<1> QED BY <1>1, ThreeOf

LEMMA FourMore ==
  ASSUME NEW C, NEW u \in Seq(C), NEW a \in C, NEW b \in C, NEW c \in C, NEW d \in C
  PROVE  u \o <<a, b, c, d>> = Append(Append(Append(Append(u, a), b), c), d)
<1> DEFINE e1 == Append(<<>>, a)
           e2 == Append(e1, b)
           e3 == Append(e2, c)
<1>1. e1 \in Seq(C) /\ u \o e1 = Append(u, a)
  BY OneOf, Longer
<1> HIDE DEF e1
<1>2. e2 \in Seq(C) /\ u \o e2 = Append(Append(u, a), b)
  BY <1>1, Longer, AppendProperties
<1> HIDE DEF e2
<1>3. e3 \in Seq(C) /\ u \o e3 = Append(Append(Append(u, a), b), c)
  BY <1>2, Longer, AppendProperties
<1> HIDE DEF e3
<1>4. u \o Append(e3, d) = Append(Append(Append(Append(u, a), b), c), d)
  BY <1>3, Longer
<1>5. <<a, b, c, d>> = Append(e3, d)
  BY FourOf DEF e3, e2, e1
<1> QED BY <1>4, <1>5

(***************************************************************************)
(* quote.                                                                  *)
(***************************************************************************)

\* The shell takes what quote made of an argument for that argument, in the word it is at.
LEMMA QuotedIsRead ==
  ASSUME NEW C, Special \subseteq C, NEW arg, NEW s, NEW before, NEW ws, NEW w, NEW m \in Plain,
         arg \in Seq(C), before \in Seq(C), w \in Seq(C), Goes(s, before, St(ws, w, m))
  PROVE  /\ quote(arg) \in Seq(C) /\ before \o quote(arg) \in Seq(C)
         /\ Goes(s, before \o quote(arg), St(ws, w \o arg, "word"))
<1> DEFINE n == Len(arg)
           open == Append(before, "'")
           parts == [i \in 1..n |-> IF arg[i] = "'" THEN <<"'", "\\", "'", "'">> ELSE <<arg[i]>>]
           Upto(i) == SubSeq(arg, 1, i)
<1>1. /\ n \in Nat /\ open \in Seq(C) /\ parts \in Seq(Seq(C)) /\ Len(parts) = n
      /\ \A i \in 1..n : arg[i] \in C
      /\ \A i \in 1..n : parts[i] = IF arg[i] = "'" THEN <<"'", "\\", "'", "'">> ELSE <<arg[i]>>
      /\ "'" \in C /\ "\\" \in C
  <2>0. "'" \in C /\ "\\" \in C
    BY DEF Special
  <2>1. n \in Nat /\ "'" \in C /\ "\\" \in C /\ \A i \in 1..n : arg[i] \in C
    BY <2>0, ElementOfSeq, LenProperties
  <2>2. open \in Seq(C)
    BY <2>1, AppendProperties
  <2>3. \A i \in 1..n : (IF arg[i] = "'" THEN <<"'", "\\", "'", "'">> ELSE <<arg[i]>>) \in Seq(C)
    BY <2>1
  <2> HIDE DEF n
  <2>4. parts \in Seq(Seq(C)) /\ Len(parts) = n
    BY <2>1, <2>3
  <2>5. \A i \in 1..n : parts[i] = IF arg[i] = "'" THEN <<"'", "\\", "'", "'">> ELSE <<arg[i]>>
    OBVIOUS
  <2> HIDE DEF parts
  <2> QED BY <2>1, <2>2, <2>4, <2>5
<1>2. quote(arg) = <<"'">> \o Concat(parts) \o <<"'">>
  <2>1. DOMAIN arg = 1..n
    OBVIOUS
  <2> QED BY <2>1 DEF quote
<1>3. Goes(s, open, St(ws, w, "quotes"))
  <2>1. Shell(St(ws, w, m), "'") = St(ws, w, "quotes")
    BY ShellOpens
  <2> QED BY <1>1, <2>1, GoesOn
<1> HIDE DEF open, parts, n
<1> DEFINE Good(k, u) == /\ u \in Seq(C) /\ Builds(parts, k, u)
                         /\ Goes(s, open \o u, St(ws, w \o Upto(k), "quotes"))
<1>4. \E u : Good(0, u)
  <2>1. Upto(0) = <<>>
    BY SubSeqEmpty
  <2>2. w \o <<>> = w /\ open \o <<>> = open
    BY <1>1, ConcatEmptySeq
  <2>3. w \o Upto(0) = w
    BY <2>1, <2>2
  <2> HIDE DEF Upto
  <2>4. Good(0, <<>>)
    BY <1>3, <2>2, <2>3, BuildsNone, EmptySeq
  <2> HIDE DEF Good
  <2> QED BY <2>4
<1>5. ASSUME NEW k \in 0..n - 1, NEW u, Good(k, u)
      PROVE  Good(k + 1, u \o parts[k + 1])
  <2>1. k \in Nat /\ k + 1 \in 1..n /\ k <= n
    BY <1>1
  <2>2. arg[k + 1] \in C /\ w \o Upto(k) \in Seq(C) /\ open \o u \in Seq(C)
    BY <1>1, <1>5, <2>1 DEF n
  <2>3. w \o Upto(k + 1) = Append(w \o Upto(k), arg[k + 1])
    <3>1. Upto(k + 1) = Append(Upto(k), arg[k + 1]) /\ Upto(k) \in Seq(C)
      BY <1>1, <2>1, <2>2 DEF n
    <3> DEFINE v == Upto(k)
               c == arg[k + 1]
    <3>2. w \in Seq(C) /\ v \in Seq(C) /\ c \in C
      BY <2>2, <3>1
    <3> HIDE DEF Upto, v, c
    <3>3. w \o Append(v, c) = Append(w \o v, c)
      BY ONLY <3>2, Longer
    <3> QED BY <3>1, <3>3 DEF v, c
  <2>4. Goes(s, (open \o u) \o parts[k + 1], St(ws, Append(w \o Upto(k), arg[k + 1]), "quotes"))
    <3> DEFINE c == arg[k + 1]
               v == w \o Upto(k)
               line == open \o u
    <3>1. Goes(s, line, St(ws, v, "quotes")) /\ line \in Seq(C)
      BY <1>5, <2>2
    <3>2. c \in C /\ v \in Seq(C)
      BY <2>2
    <3>3. parts[k + 1] = IF c = "'" THEN <<"'", "\\", "'", "'">> ELSE <<c>>
      BY <1>1, <2>1
    <3> HIDE DEF c, v, line
    <3>4. ASSUME c = "'"
          PROVE  Goes(s, line \o parts[k + 1], St(ws, Append(v, c), "quotes"))
      <4>1. Goes(s, Append(line, "'"), St(ws, v, "word")) /\ Append(line, "'") \in Seq(C)
        <5>1. Shell(St(ws, v, "quotes"), "'") = St(ws, v, "word")
          BY ShellEnds
        <5> QED BY <1>1, <3>1, <5>1, GoesOn
      <4>2. /\ Goes(s, Append(Append(line, "'"), "\\"), St(ws, v, "escape"))
            /\ Append(Append(line, "'"), "\\") \in Seq(C)
        <5>1. Shell(St(ws, v, "word"), "\\") = St(ws, v, "escape")
          BY ShellOpens DEF Plain
        <5> QED BY <1>1, <4>1, <5>1, GoesOn
      <4>3. /\ Goes(s, Append(Append(Append(line, "'"), "\\"), "'"), St(ws, Append(v, "'"), "word"))
            /\ Append(Append(Append(line, "'"), "\\"), "'") \in Seq(C)
        <5>1. Shell(St(ws, v, "escape"), "'") = St(ws, Append(v, "'"), "word")
          BY ShellTakes
        <5> QED BY <1>1, <4>2, <5>1, GoesOn
      <4>4. Goes(s, Append(Append(Append(Append(line, "'"), "\\"), "'"), "'"),
                 St(ws, Append(v, "'"), "quotes"))
        <5>1. Shell(St(ws, Append(v, "'"), "word"), "'") = St(ws, Append(v, "'"), "quotes")
          BY ShellOpens DEF Plain
        <5> QED BY <1>1, <4>3, <5>1, GoesOn
      <4>5. line \o <<"'", "\\", "'", "'">>
              = Append(Append(Append(Append(line, "'"), "\\"), "'"), "'")
        <5>1. "'" \in C /\ "\\" \in C /\ line \in Seq(C)
          BY <1>1, <3>1
        <5> QED BY <5>1, FourMore
      <4> QED BY <3>3, <3>4, <4>4, <4>5
    <3>5. ASSUME c # "'"
          PROVE  Goes(s, line \o parts[k + 1], St(ws, Append(v, c), "quotes"))
      <4>1. Shell(St(ws, v, "quotes"), c) = St(ws, Append(v, c), "quotes")
        BY <3>5, ShellTakes
      <4>2. line \o <<c>> = Append(line, c)
        BY <3>1, <3>2, AppendIsConcat
      <4>3. Goes(s, Append(line, c), Shell(St(ws, v, "quotes"), c))
        BY <3>1, <3>2, GoesOn
      <4> QED BY <3>3, <3>5, <4>1, <4>2, <4>3
    <3>6. Goes(s, line \o parts[k + 1], St(ws, Append(v, c), "quotes"))
      BY <3>4, <3>5
    <3> QED BY <3>6 DEF c, v, line
  <2>5. open \o (u \o parts[k + 1]) = (open \o u) \o parts[k + 1]
    <3>1. parts[k + 1] \in Seq(C)
      BY <1>1, <2>1
    <3>2. open \in Seq(C) /\ u \in Seq(C)
      BY <1>1, <1>5
    <3> DEFINE part == parts[k + 1]
    <3>3. part \in Seq(C)
      BY <3>1
    <3> HIDE DEF Good, Upto, open, part
    <3>4. open \o (u \o part) = (open \o u) \o part
      BY ONLY <3>2, <3>3, ConcatAssociative
    <3> QED BY <3>4 DEF part
  <2>6. u \o parts[k + 1] \in Seq(C)
    BY <1>1, <1>5, <2>1, ConcatProperties
  <2>7. Builds(parts, k + 1, u \o parts[k + 1])
    BY <1>5, <2>1, BuildsOn
  <2> HIDE DEF Upto
  <2> QED BY <2>3, <2>4, <2>5, <2>6, <2>7
<1>6. PICK u : Good(n, u)
  <2> DEFINE S == {k \in 0..n : \E u : Good(k, u)}
  <2> HIDE DEF Good
  <2>1. 0 \in S
    BY <1>1, <1>4
  <2>2. ASSUME NEW k \in 0..n - 1, k \in S
        PROVE  k + 1 \in S
    <3>1. PICK u : Good(k, u)
      BY <2>2
    <3>2. k + 1 \in 0..n
      BY <1>1
    <3> QED BY <1>5, <3>1, <3>2
  <2> HIDE DEF S
  <2>3. \A k \in 0..n : k \in S
    BY <1>1, <2>1, <2>2, UpToAll
  <2>4. n \in S
    BY <1>1, <2>3
  <2> QED BY <2>4 DEF S
<1>7. Concat(parts) = u
  BY <1>1, <1>6, BuildsConcat
<1>8. w \o Upto(n) = w \o arg
  BY SubSeqFull DEF n
<1> HIDE DEF Upto
<1>9. before \o quote(arg) = Append(open \o u, "'") /\ quote(arg) \in Seq(C)
  <2>1. u \in Seq(C) /\ <<"'">> \in Seq(C)
    BY <1>1, <1>6
  <2>2. open = before \o <<"'">>
    BY <1>1, AppendIsConcat DEF open
  <2>3. quote(arg) = <<"'">> \o (u \o <<"'">>) /\ quote(arg) \in Seq(C)
    BY <1>2, <1>7, <2>1, ConcatAssociative, ConcatProperties
  <2>4. before \o quote(arg) = open \o (u \o <<"'">>)
    <3> DEFINE c == <<"'">>
               uc == u \o c
    <3>1. before \in Seq(C) /\ c \in Seq(C) /\ uc \in Seq(C)
      BY <2>1, ConcatProperties
    <3> HIDE DEF c, uc
    <3>2. before \o (c \o uc) = (before \o c) \o uc
      BY ONLY <3>1, ConcatAssociative
    <3> QED BY <2>2, <2>3, <3>2 DEF c, uc
  <2>5. open \o (u \o <<"'">>) = (open \o u) \o <<"'">>
    BY <1>1, <2>1, ConcatAssociative
  <2>6. (open \o u) \o <<"'">> = Append(open \o u, "'")
    BY <1>1, <2>1, ConcatProperties, AppendIsConcat
  <2> QED BY <2>3, <2>4, <2>5, <2>6
<1>10. /\ open \o u \in Seq(C) /\ Goes(s, open \o u, St(ws, w \o arg, "quotes"))
  BY <1>1, <1>6, <1>8, ConcatProperties
<1>11. Shell(St(ws, w \o arg, "quotes"), "'") = St(ws, w \o arg, "word")
  BY ShellEnds
<1>12. /\ Goes(s, Append(open \o u, "'"), St(ws, w \o arg, "word"))
       /\ Append(open \o u, "'") \in Seq(C)
  BY <1>1, <1>10, <1>11, GoesOn
<1> QED BY <1>9, <1>12

(***************************************************************************)
(* The command lines.                                                      *)
(***************************************************************************)

Start == St(<<>>, <<>>, "blank")

\* Words is what is left after the blank that ends the line.
LEMMA WordsOf ==
  ASSUME NEW C, " " \in C, NEW line \in Seq(C), NEW ws, NEW w,
         Goes(Start, line, St(ws, w, "word"))
  PROVE  Words(line) = Append(ws, w)
<1>1. Shell(St(ws, w, "word"), " ") = St(Append(ws, w), <<>>, "blank")
  BY ShellEnds
<1>2. Goes(Start, Append(line, " "), St(Append(ws, w), <<>>, "blank")) /\ Append(line, " ") \in Seq(C)
  BY <1>1, GoesOn
<1>3. line \o <<" ">> = Append(line, " ")
  BY Longer
<1>4. ShellAfter(Start, line \o <<" ">>) = St(Append(ws, w), <<>>, "blank")
  BY <1>2, <1>3, GoesAlong
<1> DEFINE t == ShellAfter(Start, line \o <<" ">>)
<1>5. Words(line) = IF t.mode = "blank" THEN t.words ELSE <<"unterminated">>
  BY DEF Words, Start, St
<1>6. t = St(Append(ws, w), <<>>, "blank")
  BY <1>4
<1> HIDE DEF t
<1>7. t.mode = "blank" /\ t.words = Append(ws, w)
  BY <1>6 DEF St
<1> QED BY <1>5, <1>7

\* A word of the adapter's own, and a blank.
LEMMA OwnWord ==
  ASSUME NEW C, Special \subseteq C, NEW c \in C \ Special, NEW line \in Seq(C), NEW ws,
         Goes(Start, line, St(ws, <<>>, "blank"))
  PROVE  /\ Append(line, c) \in Seq(C) /\ Append(Append(line, c), " ") \in Seq(C)
         /\ Goes(Start, Append(Append(line, c), " "), St(Append(ws, <<c>>), <<>>, "blank"))
<1>1. Shell(St(ws, <<>>, "blank"), c) = St(ws, <<c>>, "word")
  <2>1. "blank" \in Plain /\ c \notin Special
    BY DEF Plain
  <2>2. Append(<<>>, c) = <<c>>
    OBVIOUS
  <2>3. Shell(St(ws, <<>>, "blank"), c) = St(ws, Append(<<>>, c), "word")
    BY <2>1, ShellReads
  <2> QED BY <2>2, <2>3
<1>2. Goes(Start, Append(line, c), St(ws, <<c>>, "word")) /\ Append(line, c) \in Seq(C)
  BY <1>1, GoesOn
<1>3. Shell(St(ws, <<c>>, "word"), " ") = St(Append(ws, <<c>>), <<>>, "blank")
  BY ShellEnds
<1>4. " " \in C
  BY DEF Special
<1> QED BY <1>2, <1>3, <1>4, GoesOn

\* An operator, and a blank.
LEMMA Operator ==
  ASSUME NEW C, Special \subseteq C, NEW c \in {"|", ">"}, NEW line \in Seq(C), NEW ws,
         Goes(Start, line, St(ws, <<>>, "blank"))
  PROVE  /\ Append(line, c) \in Seq(C) /\ Append(Append(line, c), " ") \in Seq(C)
         /\ Goes(Start, Append(Append(line, c), " "), St(Append(ws, <<"operator", c>>), <<>>, "blank"))
<1>1. c \in C /\ " " \in C
  BY DEF Special
<1>2. Goes(Start, Append(line, c), St(Append(ws, <<"operator", c>>), <<>>, "blank"))
      /\ Append(line, c) \in Seq(C)
  <2>1. Shell(St(ws, <<>>, "blank"), c) = St(Append(ws, <<"operator", c>>), <<>>, "blank")
    BY ShellOperates
  <2> QED BY <1>1, <2>1, GoesOn
<1>3. Shell(St(Append(ws, <<"operator", c>>), <<>>, "blank"), " ")
        = St(Append(ws, <<"operator", c>>), <<>>, "blank")
  BY ShellEnds
<1> QED BY <1>1, <1>2, <1>3, GoesOn

\* A quoted argument at the start of a word.
LEMMA Argument ==
  ASSUME NEW C, Special \subseteq C, NEW arg \in Seq(C), NEW line \in Seq(C), NEW ws,
         Goes(Start, line, St(ws, <<>>, "blank"))
  PROVE  /\ quote(arg) \in Seq(C) /\ line \o quote(arg) \in Seq(C)
         /\ Goes(Start, line \o quote(arg), St(ws, arg, "word"))
<1>1. <<>> \in Seq(C) /\ "blank" \in Plain /\ <<>> \o arg = arg
  BY ConcatEmptySeq, EmptySeq DEF Plain
<1> QED BY <1>1, QuotedIsRead

LEMMA StartsBlank == Goes(Start, <<>>, St(<<>>, <<>>, "blank"))
BY GoesNowhere DEF Start

LEMMA TwoWordsAnd ==
  ASSUME NEW C, Special \subseteq C, NEW a \in C \ Special, NEW b \in C \ Special,
         NEW arg \in Seq(C)
  PROVE  Words(<<a, " ", b, " ">> \o quote(arg)) = <<<<a>>, <<b>>, arg>>
<1> DEFINE l1 == Append(Append(<<>>, a), " ")
           l2 == Append(Append(l1, b), " ")
           ws == Append(Append(<<>>, <<a>>), <<b>>)
<1>1. " " \in C
  BY DEF Special
<1>2. l1 \in Seq(C) /\ Goes(Start, l1, St(Append(<<>>, <<a>>), <<>>, "blank"))
  <2>1. <<>> \in Seq(C)
    BY EmptySeq
  <2> QED BY <2>1, StartsBlank, OwnWord
<1>3. l2 \in Seq(C) /\ Goes(Start, l2, St(ws, <<>>, "blank"))
  <2> HIDE DEF l1
  <2> QED BY <1>2, OwnWord
<1>4. <<a, " ", b, " ">> = l2
  <2> DEFINE blank == " "
  <2>1. a \in C /\ b \in C /\ blank \in C
    BY <1>1
  <2> HIDE DEF blank
  <2>2. <<a, blank, b, blank>> = Append(Append(Append(Append(<<>>, a), blank), b), blank)
    BY ONLY <2>1, FourOf
  <2> QED BY <2>2 DEF blank
<1> HIDE DEF l2, ws
<1>5. /\ l2 \o quote(arg) \in Seq(C) /\ Goes(Start, l2 \o quote(arg), St(ws, arg, "word"))
  BY <1>3, Argument
<1>6. Words(l2 \o quote(arg)) = Append(ws, arg)
  BY <1>1, <1>5, WordsOf
<1>7. Append(ws, arg) = <<<<a>>, <<b>>, arg>>
  <2> DEFINE wa == <<a>>
             wb == <<b>>
             S == Seq(C)
  <2>1. wa \in S /\ wb \in S /\ arg \in S
    BY OneOf
  <2> HIDE DEF wa, wb, S
  <2>2. <<wa, wb, arg>> = Append(Append(Append(<<>>, wa), wb), arg)
    BY <2>1, ThreeOf
  <2> QED BY <2>2 DEF ws, wa, wb
<1> QED BY <1>4, <1>6, <1>7

\* Under sudo (withElevation, run by the second shell) the command is one word: the line it
\* was, whatever the names in it - also when they are quoted in it already.
THEOREM ElevatedIsRead ==
  ASSUME NEW C, NEW line \in Seq(C)
  PROVE  Words(withElevation(line)) = <<<<"sudo -S -p ''">>, <<"sh -c">>, line>>
<1> DEFINE D == C \cup Special \cup {"sudo -S -p ''", "sh -c"}
<1>1. line \in Seq(D) /\ Special \subseteq D
  BY SeqMonotonic
<1>2. "sudo -S -p ''" \in D \ Special /\ "sh -c" \in D \ Special
  BY DEF Special
<1> HIDE DEF D
<1>3. \A a, b \in D \ Special : Words(<<a, " ", b, " ">> \o quote(line)) = <<<<a>>, <<b>>, line>>
  BY <1>1, TwoWordsAnd
<1> QED BY <1>2, <1>3 DEF withElevation

(***************************************************************************)
(* The commands of the adapter.                                            *)
(***************************************************************************)

LEMMA TailOfCons ==
  ASSUME NEW C, NEW c \in C, NEW r \in Seq(C)
  PROVE  Tail(<<c>> \o r) = r
<1> DEFINE u == <<c>> \o r
           n == Len(r)
<1>1. <<c>> \in Seq(C) /\ Len(<<c>>) = 1 /\ n \in Nat
  BY OneOf
<1>2. /\ u \in Seq(C) /\ Len(u) = 1 + n
      /\ \A i \in 1..1 + n : u[i] = IF i <= 1 THEN <<c>>[i] ELSE r[i - 1]
  <2>1. u \in Seq(C) /\ Len(u) = Len(<<c>>) + Len(r)
    BY <1>1, ConcatProperties
  <2>2. \A i \in 1..Len(<<c>>) + Len(r) : u[i] = IF i <= Len(<<c>>) THEN <<c>>[i] ELSE r[i - Len(<<c>>)]
    BY <1>1, ConcatProperties
  <2> QED BY <1>1, <2>1, <2>2
<1> HIDE DEF u
<1>3. u # <<>>
  BY <1>1, <1>2
<1>4. /\ Tail(u) \in Seq(C) /\ Len(Tail(u)) = n
      /\ \A i \in 1..n : Tail(u)[i] = u[i + 1]
  <2>1. /\ Tail(u) \in Seq(C) /\ Len(Tail(u)) = Len(u) - 1
        /\ \A i \in 1..Len(Tail(u)) : Tail(u)[i] = u[i + 1]
    BY <1>2, <1>3, HeadTailProperties
  <2> HIDE DEF n
  <2>2. Len(u) - 1 = n
    BY <1>1, <1>2
  <2> QED BY <2>1, <2>2
<1>5. \A i \in 1..n : Tail(u)[i] = r[i]
  <2> SUFFICES ASSUME NEW i \in 1..n
               PROVE  Tail(u)[i] = r[i]
    OBVIOUS
  <2> HIDE DEF n
  <2>1. i + 1 \in 1..1 + n /\ ~(i + 1 <= 1) /\ (i + 1) - 1 = i
    BY <1>1
  <2> QED BY <1>2, <1>4, <2>1
<1>6. Tail(u) = r
  BY <1>4, <1>5, SeqEqual
<1> QED BY <1>6 DEF u

\* A part, a character and a part.
LEMMA Spaced ==
  ASSUME NEW C, NEW u \in Seq(C), NEW c \in C, NEW v \in Seq(C)
  PROVE  u \o (<<c>> \o v) = Append(u, c) \o v /\ Append(u, c) \in Seq(C)
<1>1. <<c>> \in Seq(C)
  BY OneOf
<1>2. u \o (<<c>> \o v) = (u \o <<c>>) \o v
  BY <1>1, ConcatAssociative
<1>3. u \o <<c>> = Append(u, c) /\ Append(u, c) \in Seq(C)
  BY Longer, AppendProperties
<1> QED BY <1>2, <1>3

\* A separator and parts of a line, and one more of both.
LEMMA Shifted ==
  ASSUME NEW C, NEW c \in C, NEW v \in Seq(C), NEW p \in Seq(C)
  PROVE  /\ (<<c>> \o v) \o (<<c>> \o p) = <<c>> \o (Append(v, c) \o p)
         /\ Append(v, c) \o p \in Seq(C)
<1>1. <<c>> \in Seq(C) /\ <<c>> \o p \in Seq(C)
  BY OneOf, ConcatProperties
<1>2. (<<c>> \o v) \o (<<c>> \o p) = <<c>> \o (v \o (<<c>> \o p))
  BY <1>1, ConcatAssociative
<1>3. v \o (<<c>> \o p) = Append(v, c) \o p /\ Append(v, c) \in Seq(C)
  BY Spaced
<1> QED BY <1>2, <1>3, ConcatProperties

LEMMA TwoMore ==
  ASSUME NEW C, NEW a \in C, NEW b \in C, NEW c \in C, NEW d \in C
  PROVE  <<a, b>> \o <<c, d>> = <<a, b, c, d>>
<1> DEFINE u == <<a, b>>
           e1 == Append(<<>>, c)
<1>1. u \in Seq(C) /\ u = Append(Append(<<>>, a), b)
  BY TwoOf
<1> HIDE DEF u
<1>2. e1 \in Seq(C) /\ u \o e1 = Append(u, c)
  BY <1>1, OneOf, Longer
<1> HIDE DEF e1
<1>3. u \o Append(e1, d) = Append(Append(u, c), d)
  BY <1>1, <1>2, Longer
<1>4. <<c, d>> = Append(e1, d)
  BY TwoOf DEF e1
<1>5. <<a, b, c, d>> = Append(Append(u, c), d)
  BY <1>1, FourOf
<1> QED BY <1>3, <1>4, <1>5 DEF u

LEMMA JoinedFour ==
  ASSUME NEW C, NEW c \in C, NEW p \in Seq(Seq(C)), Len(p) = 4
  PROVE  Joined(p, c) = Append(Append(Append(p[1], c) \o p[2], c) \o p[3], c) \o p[4]
<1> DEFINE p1 == p[1]
           p2 == p[2]
           p3 == p[3]
           p4 == p[4]
           q == [i \in DOMAIN p |-> <<c>> \o p[i]]
           S == Seq(C)
           s1 == <<c>> \o p1
           s2 == <<c>> \o p2
           s3 == <<c>> \o p3
           s4 == <<c>> \o p4
           u2 == s1 \o s2
           u3 == u2 \o s3
           u4 == u3 \o s4
           v2 == Append(p1, c) \o p2
           v3 == Append(v2, c) \o p3
           v4 == Append(v3, c) \o p4
<1>0. /\ p1 \in Seq(C) /\ p2 \in Seq(C) /\ p3 \in Seq(C) /\ p4 \in Seq(C)
      /\ DOMAIN p = 1..4
      /\ \A i \in 1..4 : p[i] = IF i = 1 THEN p1 ELSE IF i = 2 THEN p2 ELSE IF i = 3 THEN p3 ELSE p4
  <2>1. DOMAIN p = 1..4 /\ \A i \in 1..4 : p[i] \in Seq(C)
    BY ElementOfSeq, LenProperties
  <2>2. \A i \in 1..4 : i # 1 /\ i # 2 /\ i # 3 => i = 4
    OBVIOUS
  <2> QED BY <2>1, <2>2
<1> HIDE DEF p1, p2, p3, p4
<1>1. s1 \in S /\ s2 \in S /\ s3 \in S /\ s4 \in S /\ <<>> \o s1 = s1
  BY <1>0, OneOf, ConcatProperties, ConcatEmptySeq
<1>2. Joined(p, c) = Tail(Concat(q))
  BY DEF Joined
<1>3. q = [i \in 1..4 |-> IF i = 1 THEN s1 ELSE IF i = 2 THEN s2 ELSE IF i = 3 THEN s3 ELSE s4]
  BY <1>0
<1>4. v2 \in S /\ u2 = <<c>> \o v2
  <2> HIDE DEF q, s3, s4, u3, u4, v3, v4
  <2>1. /\ (<<c>> \o p1) \o (<<c>> \o p2) = <<c>> \o (Append(p1, c) \o p2)
        /\ Append(p1, c) \o p2 \in Seq(C)
    BY <1>0, Shifted
  <2> QED BY <2>1
<1> HIDE DEF v2
<1>5. v3 \in S /\ u2 \o s3 = <<c>> \o v3
  <2> HIDE DEF u2
  <2>1. /\ (<<c>> \o v2) \o (<<c>> \o p3) = <<c>> \o (Append(v2, c) \o p3)
        /\ Append(v2, c) \o p3 \in Seq(C)
    BY <1>0, <1>4, Shifted
  <2> QED BY <1>4, <2>1
<1> HIDE DEF v3
<1>6. v4 \in S /\ u3 \o s4 = <<c>> \o v4
  <2> HIDE DEF u2
  <2>1. u3 = <<c>> \o v3
    BY <1>5
  <2>2. /\ (<<c>> \o v3) \o (<<c>> \o p4) = <<c>> \o (Append(v3, c) \o p4)
        /\ Append(v3, c) \o p4 \in Seq(C)
    BY <1>0, <1>5, Shifted
  <2> HIDE DEF u3
  <2> QED BY <2>1, <2>2
<1> HIDE DEF q, s1, s2, s3, s4, S, v4
<1>7. q \in Seq(S) /\ Len(q) = 4 /\ q[1] = s1 /\ q[2] = s2 /\ q[3] = s3 /\ q[4] = s4
  BY <1>1, <1>3
<1> HIDE DEF u2, u3, u4
<1>8. 0 \in Nat /\ 1 = 0 + 1 /\ 1 \in Nat /\ 2 = 1 + 1 /\ 2 \in Nat /\ 3 = 2 + 1
      /\ 3 \in Nat /\ 4 = 3 + 1
  OBVIOUS
<1>9. Builds(q, 1, s1)
  <2>1. Builds(q, 1, <<>> \o q[1])
    BY <1>8, BuildsNone, BuildsOn
  <2> QED BY <1>1, <1>7, <2>1
<1>10. Builds(q, 2, u2)
  <2>1. Builds(q, 2, s1 \o q[2])
    BY <1>8, <1>9, BuildsOn
  <2> QED BY <1>7, <2>1 DEF u2
<1>11. Builds(q, 3, u3)
  <2>1. Builds(q, 3, u2 \o q[3])
    BY <1>8, <1>10, BuildsOn
  <2> QED BY <1>7, <2>1 DEF u3
<1>12. Builds(q, 4, u4)
  <2>1. Builds(q, 4, u3 \o q[4])
    BY <1>8, <1>11, BuildsOn
  <2> QED BY <1>7, <2>1 DEF u4
<1>13. Concat(q) = u4
  BY <1>7, <1>12, BuildsConcat
<1>14. u4 = <<c>> \o v4
  BY <1>6 DEF u4
<1>15. Tail(<<c>> \o v4) = v4
  BY <1>6, TailOfCons DEF S
<1> QED BY <1>2, <1>13, <1>14, <1>15 DEF v4, v3, v2, p1, p2, p3, p4

\* A command of two words of the adapter's own and two files.
LEMMA CommandIsRead ==
  ASSUME NEW C, Special \subseteq C, NEW a \in C \ Special, NEW b \in C \ Special,
         NEW from \in Seq(C), NEW to \in Seq(C)
  PROVE  /\ FileCommand(<<a, b>>, <<from, to>>) \in Seq(C)
         /\ Words(FileCommand(<<a, b>>, <<from, to>>)) = <<<<a>>, <<b>>, from, to>>
<1> DEFINE line == FileCommand(<<a, b>>, <<from, to>>)
           l1 == Append(Append(<<>>, a), " ")
           l2 == Append(Append(l1, b), " ")
           l3 == l2 \o quote(from)
           l4 == Append(l3, " ")
           l5 == l4 \o quote(to)
           wa == <<a>>
           wb == <<b>>
           w2 == Append(Append(<<>>, wa), wb)
           w3 == Append(w2, from)
           parts == [i \in DOMAIN <<a, b>> |-> <<<<a, b>>[i]>>]
                      \o [i \in DOMAIN <<from, to>> |-> quote(<<from, to>>[i])]
<1>1. " " \in C
  BY DEF Special
<1>2. l1 \in Seq(C) /\ Goes(Start, l1, St(Append(<<>>, wa), <<>>, "blank"))
  <2>1. <<>> \in Seq(C)
    BY EmptySeq
  <2> QED BY <2>1, StartsBlank, OwnWord
<1>3. l2 \in Seq(C) /\ Goes(Start, l2, St(w2, <<>>, "blank"))
  <2> HIDE DEF l1
  <2> QED BY <1>2, OwnWord
<1> HIDE DEF w2
<1>4. quote(from) \in Seq(C) /\ l3 \in Seq(C) /\ Goes(Start, l3, St(w2, from, "word"))
  <2> HIDE DEF l2
  <2> QED BY <1>3, Argument
<1>5. l4 \in Seq(C) /\ Goes(Start, l4, St(w3, <<>>, "blank"))
  <2> HIDE DEF l3
  <2>1. Shell(St(w2, from, "word"), " ") = St(w3, <<>>, "blank")
    BY ShellEnds
  <2> QED BY <1>1, <1>4, <2>1, GoesOn
<1> HIDE DEF w3
<1>6. quote(to) \in Seq(C) /\ l5 \in Seq(C) /\ Goes(Start, l5, St(w3, to, "word"))
  <2> HIDE DEF l4
  <2> QED BY <1>5, Argument
<1>7. Words(l5) = Append(w3, to)
  <2> HIDE DEF l5
  <2> QED BY <1>1, <1>6, WordsOf
<1>8. line = l5
  <2> DEFINE qf == quote(from)
             qt == quote(to)
  <2>1. parts = <<wa, wb, qf, qt>>
    <3>1. [i \in DOMAIN <<a, b>> |-> <<<<a, b>>[i]>>] = <<wa, wb>>
      OBVIOUS
    <3>2. [i \in DOMAIN <<from, to>> |-> quote(<<from, to>>[i])] = <<qf, qt>>
      OBVIOUS
    <3> DEFINE S == Seq(C)
    <3>3. wa \in S /\ wb \in S /\ qf \in S /\ qt \in S
      BY <1>4, <1>6, OneOf
    <3> HIDE DEF wa, wb, qf, qt, S
    <3>4. <<wa, wb>> \o <<qf, qt>> = <<wa, wb, qf, qt>>
      BY ONLY <3>3, TwoMore
    <3> QED BY <3>1, <3>2, <3>4
  <2>2. wa \in Seq(C) /\ wb \in Seq(C) /\ qf \in Seq(C) /\ qt \in Seq(C)
    BY <1>4, <1>6, OneOf
  <2>3. line = Joined(parts, " ")
    BY DEF FileCommand
  <2>4. wa = Append(<<>>, a) /\ Append(wa, " ") = l1 /\ l1 \o wb = Append(l1, b)
    BY <1>2, OneOf, Longer
  <2> HIDE DEF parts, qf, qt, wa, wb, line
  <2>5. Joined(parts, " ") = Append(Append(Append(wa, " ") \o wb, " ") \o qf, " ") \o qt
    <3> DEFINE c == " "
    <3>1. c \in C
      BY <1>1
    <3> HIDE DEF c
    <3>2. parts \in Seq(Seq(C)) /\ Len(parts) = 4
      BY <2>1, <2>2
    <3>3. Joined(parts, c)
            = Append(Append(Append(parts[1], c) \o parts[2], c) \o parts[3], c) \o parts[4]
      BY <3>1, <3>2, JoinedFour
    <3>4. parts[1] = wa /\ parts[2] = wb /\ parts[3] = qf /\ parts[4] = qt
      BY <2>1
    <3> QED BY <3>3, <3>4 DEF c
  <2> QED BY <2>3, <2>4, <2>5 DEF qf, qt
<1>9. Append(w3, to) = <<wa, wb, from, to>>
  <2> DEFINE S == Seq(C)
  <2>1. wa \in S /\ wb \in S /\ from \in S /\ to \in S
    BY OneOf
  <2> HIDE DEF wa, wb, S
  <2>2. <<wa, wb, from, to>> = Append(Append(Append(Append(<<>>, wa), wb), from), to)
    BY <2>1, FourOf
  <2> QED BY <2>2 DEF w2, w3
<1> QED BY <1>6, <1>7, <1>8, <1>9

LEMMA SixOf ==
  ASSUME NEW C, NEW a \in C, NEW b \in C, NEW c \in C, NEW d \in C, NEW e \in C, NEW f \in C
  PROVE  /\ <<a, b, c, d, e, f>> \in Seq(C)
         /\ <<a, b, c, d, e, f>> = Append(Append(Append(Append(Append(Append(<<>>, a), b), c), d), e), f)
<1>1. /\ <<a, b, c, d>> \in Seq(C) /\ <<a, b, c, d, e>> \in Seq(C) /\ <<a, b, c, d, e, f>> \in Seq(C)
      /\ <<a, b, c, d, e>> = Append(<<a, b, c, d>>, e)
      /\ <<a, b, c, d, e, f>> = Append(<<a, b, c, d, e>>, f)
  OBVIOUS
<1> QED BY <1>1, FourOf

\* A pipeline of two commands of one word each, from a text into a file.
Pipeline(a, b, text, file) ==
  <<a, " ">> \o quote(text) \o <<" ", "|", " ", b, " ", ">", " ">> \o quote(file)
PipelineWords(a, b, text, file) ==
  <<<<a>>, text, <<"operator", "|">>, <<b>>, <<"operator", ">">>, file>>

\* writeFile: what printf writes, the pipe and the redirection.
LEMMA PipelineIsRead ==
  ASSUME NEW C, Special \subseteq C, "operator" \in C, NEW text \in Seq(C), NEW file \in Seq(C),
         NEW a \in C \ Special, NEW b \in C \ Special
  PROVE  /\ Pipeline(a, b, text, file) \in Seq(C)
         /\ Words(Pipeline(a, b, text, file)) = PipelineWords(a, b, text, file)
<1> DEFINE wa == <<a>>
           wb == <<b>>
           pipe == <<"operator", "|">>
           into == <<"operator", ">">>
           l1 == Append(Append(<<>>, a), " ")
           l2 == l1 \o quote(text)
           l3 == Append(l2, " ")
           l4 == Append(Append(l3, "|"), " ")
           l5 == Append(Append(l4, b), " ")
           l6 == Append(Append(l5, ">"), " ")
           l7 == l6 \o quote(file)
           w1 == Append(<<>>, wa)
           w2 == Append(w1, text)
           w3 == Append(w2, pipe)
           w4 == Append(w3, wb)
           w5 == Append(w4, into)
<1>1. " " \in C /\ "|" \in C /\ ">" \in C
  BY DEF Special
<1>2. l1 \in Seq(C) /\ Goes(Start, l1, St(w1, <<>>, "blank"))
  <2>1. <<>> \in Seq(C)
    BY EmptySeq
  <2> QED BY <2>1, StartsBlank, OwnWord
<1> HIDE DEF w1
<1>3. quote(text) \in Seq(C) /\ l2 \in Seq(C) /\ Goes(Start, l2, St(w1, text, "word"))
  <2> HIDE DEF l1
  <2> QED BY <1>2, Argument
<1>4. l3 \in Seq(C) /\ Goes(Start, l3, St(w2, <<>>, "blank"))
  <2> HIDE DEF l2
  <2>1. Shell(St(w1, text, "word"), " ") = St(w2, <<>>, "blank")
    BY ShellEnds
  <2> QED BY <1>1, <1>3, <2>1, GoesOn
<1> HIDE DEF w2
<1>5. l4 \in Seq(C) /\ Goes(Start, l4, St(w3, <<>>, "blank"))
  <2> HIDE DEF l3
  <2> QED BY <1>4, Operator
<1> HIDE DEF w3
<1>6. l5 \in Seq(C) /\ Goes(Start, l5, St(w4, <<>>, "blank"))
  <2> HIDE DEF l4
  <2> QED BY <1>5, OwnWord
<1> HIDE DEF w4
<1>7. l6 \in Seq(C) /\ Goes(Start, l6, St(w5, <<>>, "blank"))
  <2> HIDE DEF l5
  <2> QED BY <1>6, Operator
<1> HIDE DEF w5
<1>8. quote(file) \in Seq(C) /\ l7 \in Seq(C) /\ Goes(Start, l7, St(w5, file, "word"))
  <2> HIDE DEF l6
  <2> QED BY <1>7, Argument
<1>9. Words(l7) = Append(w5, file)
  <2> HIDE DEF l7
  <2> QED BY <1>1, <1>8, WordsOf
<1>10. <<a, " ">> = l1
  <2> DEFINE blank == " "
  <2>1. a \in C /\ blank \in C
    BY <1>1
  <2> HIDE DEF blank
  <2>2. <<a, blank>> = Append(Append(<<>>, a), blank)
    BY <2>1, TwoOf
  <2> QED BY <2>2 DEF blank
<1>11. l2 \o <<" ", "|", " ", b, " ", ">", " ">> = l6
  <2> DEFINE blank == " "
             bar == "|"
             greater == ">"
             u == l2
             f4 == <<blank, bar, blank, b>>
             f5 == Append(f4, blank)
             f6 == Append(f5, greater)
             f7 == Append(f6, blank)
             x4 == Append(Append(Append(Append(u, blank), bar), blank), b)
             x5 == Append(x4, blank)
             x6 == Append(x5, greater)
             x7 == Append(x6, blank)
  <2>1. blank \in C /\ bar \in C /\ greater \in C /\ b \in C /\ u \in Seq(C)
    BY <1>1, <1>3
  <2>2. x7 = l6 /\ <<" ", "|", " ", b, " ", ">", " ">> = <<blank, bar, blank, b, blank, greater, blank>>
    OBVIOUS
  <2> HIDE DEF blank, bar, greater, u
  <2>3. f4 \in Seq(C) /\ u \o f4 = x4
    BY <2>1, FourMore
  <2>4. f7 = <<blank, bar, blank, b, blank, greater, blank>>
    <3>1. /\ <<blank, bar, blank, b>> \in Seq(C)
          /\ <<blank, bar, blank, b, blank>> \in Seq(C)
          /\ <<blank, bar, blank, b, blank, greater>> \in Seq(C)
          /\ <<blank, bar, blank, b, blank>> = Append(<<blank, bar, blank, b>>, blank)
          /\ <<blank, bar, blank, b, blank, greater>> = Append(<<blank, bar, blank, b, blank>>, greater)
          /\ <<blank, bar, blank, b, blank, greater, blank>>
               = Append(<<blank, bar, blank, b, blank, greater>>, blank)
      BY <2>1
    <3> QED BY <3>1
  <2> HIDE DEF f4, x4
  <2>5. f5 \in Seq(C) /\ u \o f5 = x5
    BY <2>1, <2>3, Longer, AppendProperties
  <2> HIDE DEF f5, x5
  <2>6. f6 \in Seq(C) /\ u \o f6 = x6
    BY <2>1, <2>5, Longer, AppendProperties
  <2> HIDE DEF f6, x6
  <2>7. u \o f7 = x7
    BY <2>1, <2>6, Longer
  <2> HIDE DEF f7, x7
  <2> QED BY <2>2, <2>4, <2>7 DEF u
<1>12. Append(w5, file) = <<wa, text, pipe, wb, into, file>>
  <2> DEFINE S == Seq(C)
  <2>1. wa \in S /\ wb \in S /\ text \in S /\ file \in S
    BY OneOf
  <2>2. pipe \in S /\ into \in S
    BY <1>1, TwoOf
  <2> HIDE DEF wa, wb, pipe, into, S
  <2>3. <<wa, text, pipe, wb, into, file>>
          = Append(Append(Append(Append(Append(Append(<<>>, wa), text), pipe), wb), into), file)
    BY <2>1, <2>2, SixOf
  <2> QED BY <2>3 DEF w1, w2, w3, w4, w5
<1>13. Pipeline(a, b, text, file) = l7 /\ PipelineWords(a, b, text, file) = Append(w5, file)
  <2>1. Pipeline(a, b, text, file)
          = ((<<a, " ">> \o quote(text)) \o <<" ", "|", " ", b, " ", ">", " ">>) \o quote(file)
    BY DEF Pipeline
  <2> HIDE DEF w5, l1, l6
  <2> QED BY <2>1, <1>10, <1>11, <1>12 DEF PipelineWords
<1> HIDE DEF l7, w5
<1> QED BY <1>8, <1>9, <1>13

\* What writeFile means its command to be taken for.
WriteWords(text, file) ==
  <<<<"printf %s">>, text, <<"operator", "|">>, <<"base64 -d">>, <<"operator", ">">>, file>>

\* The words that the adapter's commands are made of.
Own == {"mv", "-n", "printf %s", "base64 -d", "operator"}

\* move: the shell takes the command for mv, its option and the two paths, whatever their
\* characters and length - as the user, and under sudo.
THEOREM MovesAreRead ==
  ASSUME NEW C, NEW from \in Seq(C), NEW to \in Seq(C)
  PROVE  Reads(FileCommand(<<"mv", "-n">>, <<from, to>>), <<<<"mv">>, <<"-n">>, from, to>>)
<1> DEFINE D == C \cup Special \cup Own
           line == FileCommand(<<"mv", "-n">>, <<from, to>>)
<1>1. from \in Seq(D) /\ to \in Seq(D) /\ Special \subseteq D
  BY SeqMonotonic
<1>2. "mv" \in D \ Special /\ "-n" \in D \ Special
  BY DEF Special, Own
<1> HIDE DEF D
<1>3. \A a, b \in D \ Special :
        /\ FileCommand(<<a, b>>, <<from, to>>) \in Seq(D)
        /\ Words(FileCommand(<<a, b>>, <<from, to>>)) = <<<<a>>, <<b>>, from, to>>
  <2> HIDE DEF line
  <2>1. ASSUME NEW a \in D \ Special, NEW b \in D \ Special
        PROVE  /\ FileCommand(<<a, b>>, <<from, to>>) \in Seq(D)
               /\ Words(FileCommand(<<a, b>>, <<from, to>>)) = <<<<a>>, <<b>>, from, to>>
    BY ONLY <1>1, a \in D \ Special, b \in D \ Special, CommandIsRead
  <2> QED BY <2>1
<1>4. line \in Seq(D) /\ Words(line) = <<<<"mv">>, <<"-n">>, from, to>>
  BY <1>2, <1>3
<1> HIDE DEF line
<1> QED BY <1>4, ElevatedIsRead DEF Reads, line

\* writeFile: one text goes to one file, through the two commands meant and no other, whatever
\* the characters of the text and the path.
THEOREM WritesAreRead ==
  ASSUME NEW C, NEW file \in Seq(C), NEW text \in Seq(C)
  PROVE  Reads(WriteCommand(text, file), WriteWords(text, file))
<1> DEFINE D == C \cup Special \cup Own
           line == WriteCommand(text, file)
<1>1. file \in Seq(D) /\ text \in Seq(D) /\ Special \subseteq D
  BY SeqMonotonic
<1>2. "printf %s" \in D \ Special /\ "base64 -d" \in D \ Special /\ "operator" \in D
  BY DEF Special, Own
<1> HIDE DEF D
<1>3. \A a, b \in D \ Special : /\ Pipeline(a, b, text, file) \in Seq(D)
                                 /\ Words(Pipeline(a, b, text, file)) = PipelineWords(a, b, text, file)
  BY <1>1, <1>2, PipelineIsRead
<1>4. line \in Seq(D) /\ Words(line) = WriteWords(text, file)
  <2>1. line = Pipeline("printf %s", "base64 -d", text, file)
    BY DEF WriteCommand, Pipeline
  <2>2. PipelineWords("printf %s", "base64 -d", text, file) = WriteWords(text, file)
    BY DEF PipelineWords, WriteWords
  <2> HIDE DEF line
  <2> QED BY <1>2, <1>3, <2>1, <2>2
<1> HIDE DEF line
<1> QED BY <1>4, ElevatedIsRead DEF Reads, line
=============================================================================
