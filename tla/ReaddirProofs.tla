---------------------------- MODULE ReaddirProofs ----------------------------
(***************************************************************************)
(* Proofs about Readdir: for every set of keys a listing passes nothing    *)
(* over that stays, and lists no name twice, however the folder changes    *)
(* meanwhile.                                                              *)
(***************************************************************************)
EXTENDS Readdir, FiniteSetTheorems, SequenceTheorems, WellFoundedInduction, TLAPS

-----------------------------------------------------------------------------
(***************************************************************************)
(* The order of the keys.                                                  *)
(***************************************************************************)
\* A set of numbers has a least one.
LEMMA LeastNumber ==
    ASSUME NEW S \in SUBSET Nat, S # {}
    PROVE  \E n \in S : \A m \in S : n <= m
  <1> DEFINE R == OpToRel(<, Nat)
  <1>1. IsWellFoundedOn(R, Nat)
    BY NatLessThanWellFounded
  <1>2. \A x, y \in Nat : x < y => <<x, y>> \in R
    BY DEF OpToRel
  <1> HIDE DEF R
  <1>3. PICK n \in S : \A m \in S : <<m, n>> \notin R
    BY <1>1, WFMin, Zenon
  <1>4. ASSUME NEW m \in S PROVE n <= m
    <2>1. n \in Nat /\ m \in Nat
      OBVIOUS
    <2>2. ~(m < n)
      BY <1>2, <1>3, <2>1, Zenon
    <2> QED BY <2>1, <2>2
  <1> QED BY <1>4

\* Two keys are the same as far as they agree, and there one ends or differs.
LEMMA FirstDifference ==
    ASSUME NEW s \in Seq(Nat), NEW t \in Seq(Nat), s # t
    PROVE  \E i \in Nat \ {0} :
              /\ \A j \in 1 .. i - 1 : j \in DOMAIN s /\ j \in DOMAIN t /\ s[j] = t[j]
              /\ \/ i \in DOMAIN s /\ i \in DOMAIN t /\ s[i] # t[i]
                 \/ i \in DOMAIN s /\ i \notin DOMAIN t
                 \/ i \notin DOMAIN s /\ i \in DOMAIN t
  <1> DEFINE Agree(i) == i \in DOMAIN s /\ i \in DOMAIN t /\ s[i] = t[i]
             D == {i \in Nat \ {0} : ~Agree(i)}
  <1>1. Len(s) \in Nat /\ DOMAIN s = 1 .. Len(s) /\ Len(t) \in Nat /\ DOMAIN t = 1 .. Len(t)
    BY LenProperties
  <1>2. Len(s) + 1 \in D
    BY <1>1
  <1>3. D \in SUBSET Nat
    OBVIOUS
  <1>4. PICK i \in D : \A j \in D : i <= j
    BY <1>2, <1>3, LeastNumber
  <1>5. \A j \in 1 .. i - 1 : Agree(j)
    <2>1. ASSUME NEW j \in 1 .. i - 1, ~Agree(j) PROVE FALSE
      BY <1>4, <2>1
    <2> QED BY <2>1
  <1>6. CASE i \notin DOMAIN s /\ i \notin DOMAIN t
    <2>1. Len(s) = i - 1 /\ Len(t) = i - 1
      <3>1. \A j \in 1 .. i - 1 : j <= Len(s) /\ j <= Len(t)
        BY <1>1, <1>5
      <3>2. i > Len(s) /\ i > Len(t)
        BY <1>1, <1>6
      <3>3. i - 1 \in Nat
        BY <1>4
      <3>4. i - 1 <= Len(s) /\ i - 1 <= Len(t)
        <4>1. CASE i - 1 = 0
          BY <1>1, <4>1
        <4>2. CASE i - 1 # 0
          <5>1. i - 1 \in 1 .. i - 1
            BY <3>3, <4>2
          <5> QED BY <3>1, <5>1
        <4> QED BY <4>1, <4>2
      <3> QED BY <1>1, <3>2, <3>3, <3>4
    <2>2. \A j \in 1 .. Len(s) : s[j] = t[j]
      BY <1>5, <2>1
    <2>3. s = t
      BY <2>1, <2>2, SeqEqual
    <2> QED BY <2>3
  <1>7. CASE i \in DOMAIN s \/ i \in DOMAIN t
    BY <1>4, <1>5, <1>7
  <1> QED BY <1>6, <1>7

\* Keys are totally ordered.
LEMMA BelowIsTotal ==
    ASSUME NEW s \in Seq(Nat), NEW t \in Seq(Nat), s # t
    PROVE  Below(s, t) \/ Below(t, s)
  <1>1. PICK i \in Nat \ {0} :
              /\ \A j \in 1 .. i - 1 : j \in DOMAIN s /\ j \in DOMAIN t /\ s[j] = t[j]
              /\ \/ i \in DOMAIN s /\ i \in DOMAIN t /\ s[i] # t[i]
                 \/ i \in DOMAIN s /\ i \notin DOMAIN t
                 \/ i \notin DOMAIN s /\ i \in DOMAIN t
    BY FirstDifference
  <1>2. CASE i \in DOMAIN s /\ i \in DOMAIN t
    <2>1. s[i] \in Nat /\ t[i] \in Nat /\ s[i] # t[i]
      BY <1>1, <1>2, LenProperties
    <2>2. s[i] < t[i] \/ t[i] < s[i]
      BY <2>1
    <2> QED BY <1>1, <1>2, <2>2 DEF Below
  <1>3. CASE i \in DOMAIN s /\ i \notin DOMAIN t
    BY <1>1, <1>3 DEF Below
  <1>4. CASE i \notin DOMAIN s /\ i \in DOMAIN t
    BY <1>1, <1>4 DEF Below
  <1> QED BY <1>1, <1>2, <1>3, <1>4

\* No key is below itself.
LEMMA BelowIsIrreflexive ==
    ASSUME NEW s \in Seq(Nat), Below(s, s)
    PROVE  FALSE
  <1>1. PICK i \in DOMAIN s : s[i] < s[i]
    BY DEF Below
  <1>2. s[i] \in Nat
    BY LenProperties
  <1> QED BY <1>1, <1>2

\* What is below a key is below what that one is below.
LEMMA BelowIsTransitive ==
    ASSUME NEW s \in Seq(Nat), NEW t \in Seq(Nat), NEW u \in Seq(Nat),
           Below(s, t), Below(t, u)
    PROVE  Below(s, u)
  <1>1. PICK i \in DOMAIN t :
           /\ \A j \in 1 .. i - 1 : j \in DOMAIN s /\ s[j] = t[j]
           /\ i \in DOMAIN s => s[i] < t[i]
    BY DEF Below
  <1>2. PICK k \in DOMAIN u :
           /\ \A j \in 1 .. k - 1 : j \in DOMAIN t /\ t[j] = u[j]
           /\ k \in DOMAIN t => t[k] < u[k]
    BY DEF Below
  <1>3. /\ i \in Nat \ {0} /\ k \in Nat \ {0}
        /\ DOMAIN u = 1 .. Len(u) /\ Len(u) \in Nat
        /\ \A j \in DOMAIN s : s[j] \in Nat
        /\ \A j \in DOMAIN t : t[j] \in Nat
        /\ \A j \in DOMAIN u : u[j] \in Nat
    BY LenProperties, SMTT(30)
  <1>4. CASE i < k
    <2>0. i \in 1 .. k - 1
      BY <1>3, <1>4
    <2>1. i \in DOMAIN u /\ t[i] = u[i]
      BY <1>2, <1>3, <1>4, <2>0
    <2>2. \A j \in 1 .. i - 1 : j \in DOMAIN s /\ s[j] = u[j]
      BY <1>1, <1>2, <1>3, <1>4
    <2> QED BY <1>1, <2>1, <2>2 DEF Below
  <1>5. CASE i = k
    <2>1. \A j \in 1 .. i - 1 : j \in DOMAIN s /\ s[j] = u[j]
      BY <1>1, <1>2, <1>5
    <2>2. i \in DOMAIN s => s[i] < u[i]
      BY <1>1, <1>2, <1>3, <1>5
    <2> QED BY <1>2, <1>5, <2>1, <2>2 DEF Below
  <1>6. CASE k < i
    <2>0. k \in 1 .. i - 1 /\ \A j \in 1 .. k - 1 : j \in 1 .. i - 1
      BY <1>3, <1>6
    <2>1. \A j \in 1 .. k - 1 : j \in DOMAIN s /\ s[j] = u[j]
      BY <1>1, <1>2, <2>0
    <2>2. k \in DOMAIN s /\ s[k] = t[k]
      BY <1>1, <2>0
    <2>3. k \in DOMAIN t
      <3>1. DOMAIN t = 1 .. Len(t) /\ Len(t) \in Nat
        BY LenProperties
      <3> QED BY <1>3, <1>6, <3>1
    <2> QED BY <1>2, <2>1, <2>2, <2>3 DEF Below
  <1> QED BY <1>3, <1>4, <1>5, <1>6

\* A finite set of keys has a first one, and that is what peek() finds.
LEMMA PeekIsFirst ==
    ASSUME NEW S \in SUBSET Keys, IsFiniteSet(S), S # {}
    PROVE  /\ Peek(S) \in S
           /\ \A k \in S : k = Peek(S) \/ Below(Peek(S), k)
  <1> DEFINE Before(k) == {j \in S : Below(j, k)}
             Counts == {Cardinality(Before(k)) : k \in S}
  <1>1. ASSUME NEW k \in S
        PROVE  Before(k) \in SUBSET S /\ IsFiniteSet(Before(k)) /\ Cardinality(Before(k)) \in Nat
    BY FS_Subset, FS_CardinalityType
  <1>2. Counts \in SUBSET Nat /\ Counts # {}
    BY <1>1
  <1>3. PICK n \in Counts : \A m \in Counts : n <= m
    BY <1>2, LeastNumber
  <1>4. PICK k \in S : \A j \in S : Cardinality(Before(k)) <= Cardinality(Before(j))
    BY <1>3
  <1>5. ASSUME NEW j \in S, Below(j, k) PROVE FALSE
    <2>1. \A x \in S : x \in Seq(Nat)
      BY KeysAssumption
    <2>2. Before(j) \in SUBSET Before(k)
      BY <1>5, <2>1, BelowIsTransitive
    <2>3. j \in Before(k) /\ j \notin Before(j)
      BY <1>5, <2>1, BelowIsIrreflexive
    <2>4. IsFiniteSet(Before(k)) /\ Cardinality(Before(k)) \in Nat /\ Cardinality(Before(j)) \in Nat
      BY <1>1
    <2> HIDE DEF Before
    <2>5. /\ Cardinality(Before(j)) <= Cardinality(Before(k))
          /\ Cardinality(Before(j)) # Cardinality(Before(k))
      BY <2>2, <2>3, <2>4, FS_Subset
    <2> QED BY <1>4, <2>4, <2>5
  <1>6. \A j \in S : j = k \/ Below(k, j)
    BY <1>5, BelowIsTotal, KeysAssumption
  <1>7. S \subseteq Following[k] \cup {k}
    BY <1>6 DEF Following
  <1>8. Peek(S) \in S /\ S \subseteq Following[Peek(S)] \cup {Peek(S)}
    BY <1>7 DEF Peek
  <1> QED BY <1>8 DEF Following

-----------------------------------------------------------------------------
(***************************************************************************)
(* Names and bounds.                                                       *)
(***************************************************************************)
\* The path below the folder is the key from its second character on.
LEMMA SuffixIs ==
    ASSUME NEW k \in Keys
    PROVE  /\ Suffix(k) \in Seq(Nat) /\ Len(k) \in Nat \ {0} /\ DOMAIN k = 1 .. Len(k)
           /\ Len(Suffix(k)) = Len(k) - 1 /\ DOMAIN Suffix(k) = 1 .. Len(k) - 1
           /\ \A i \in 1 .. Len(k) - 1 : Suffix(k)[i] = k[i + 1]
           /\ k \in Seq(Nat)
  <1>1. k \in Seq(Nat) /\ k # << >>
    BY KeysAssumption
  <1>2. Len(k) \in Nat \ {0} /\ DOMAIN k = 1 .. Len(k) /\ \A i \in 1 .. Len(k) : k[i] \in Nat
    BY <1>1, LenProperties
  <1>3. \A i \in 2 .. Len(k) : k[i] \in Nat
    BY <1>2
  <1>4. /\ Suffix(k) \in Seq(Nat)
        /\ Len(Suffix(k)) = IF 2 <= Len(k) THEN Len(k) - 2 + 1 ELSE 0
        /\ \A i \in 1 .. Len(k) - 2 + 1 : Suffix(k)[i] = k[2 + i - 1]
    <2>1. 2 \in Int /\ Len(k) \in Int
      BY <1>2
    <2> QED BY <1>3, <2>1, SubSeqProperties DEF Suffix
  <1>5. Len(Suffix(k)) = Len(k) - 1 /\ Len(k) - 2 + 1 = Len(k) - 1
    <2>1. Len(k) \in Nat \ {0}
      BY <1>2
    <2>2. CASE 2 <= Len(k)
      BY <1>4, <2>1, <2>2
    <2>3. CASE Len(k) = 1
      BY <1>4, <2>3
    <2>4. \A n \in Nat \ {0} : 2 <= n \/ n = 1
      OBVIOUS
    <2> QED BY <2>1, <2>2, <2>3, <2>4, Zenon
  <1>6. \A i \in 1 .. Len(k) - 1 : 2 + i - 1 = i + 1
    OBVIOUS
  <1>7. DOMAIN Suffix(k) = 1 .. Len(k) - 1
    BY <1>4, <1>5, LenProperties
  <1> QED BY <1>1, <1>2, <1>4, <1>5, <1>6, <1>7

\* m is the name that follows the folder in k: what comes before the next slash.
Named(k, m) ==
    /\ m \in Seq(Nat) /\ \A i \in 1 .. Len(m) : m[i] # Slash
    /\ \A i \in 1 .. Len(m) : i + 1 \in DOMAIN k /\ k[i + 1] = m[i]
    /\ IF InDirectory(k) THEN Len(m) + 2 \in DOMAIN k /\ k[Len(m) + 2] = Slash
       ELSE Len(k) = Len(m) + 1

LEMMA NameIs ==
    ASSUME NEW k \in Keys
    PROVE  Named(k, Name[k])
  <1>1. /\ Suffix(k) \in Seq(Nat) /\ Len(k) \in Nat \ {0} /\ DOMAIN k = 1 .. Len(k)
        /\ Len(Suffix(k)) = Len(k) - 1 /\ DOMAIN Suffix(k) = 1 .. Len(k) - 1
        /\ \A i \in 1 .. Len(k) - 1 : Suffix(k)[i] = k[i + 1]
    BY SuffixIs
  <1>2. CASE ~InDirectory(k)
    <2>1. Name[k] = Suffix(k)
      BY <1>2 DEF Name
    <2>2. \A i \in 1 .. Len(k) - 1 : Suffix(k)[i] # Slash
      BY <1>1, <1>2 DEF InDirectory, Slashes
    <2>3. Len(Suffix(k)) + 1 = Len(k)
      BY <1>1
    <2>4. \A i \in 1 .. Len(k) - 1 : i + 1 \in 1 .. Len(k)
      BY <1>1
    <2> QED BY <1>1, <1>2, <2>1, <2>2, <2>3, <2>4 DEF Named
  <1>3. CASE InDirectory(k)
    <2>1. Slashes(k) \in SUBSET Nat /\ Slashes(k) # {}
      BY <1>1, <1>3 DEF Slashes, InDirectory
    <2> DEFINE c == CHOOSE i \in Slashes(k) : \A j \in Slashes(k) : i <= j
    <2>2. c \in Slashes(k) /\ \A j \in Slashes(k) : c <= j
      BY <2>1, LeastNumber
    <2>3. Name[k] = SubSeq(Suffix(k), 1, c - 1)
      BY <1>3 DEF Name
    <2> HIDE DEF c
    <2>4. c \in 1 .. Len(k) - 1 /\ Suffix(k)[c] = Slash
      BY <1>1, <2>2 DEF Slashes
    <2>5. \A i \in 1 .. c - 1 : i \in DOMAIN Suffix(k) /\ Suffix(k)[i] \in Nat /\ Suffix(k)[i] # Slash
      <3>1. ASSUME NEW i \in 1 .. c - 1 PROVE i \in 1 .. Len(k) - 1 /\ ~(c <= i)
        BY <1>1, <2>4
      <3>2. \A i \in 1 .. Len(k) - 1 : Suffix(k)[i] \in Nat
        BY <1>1, LenProperties
      <3> QED BY <1>1, <2>2, <3>1, <3>2 DEF Slashes
    <2>6. /\ Name[k] \in Seq(Nat)
          /\ Len(Name[k]) = IF 1 <= c - 1 THEN c - 1 - 1 + 1 ELSE 0
          /\ \A i \in 1 .. c - 1 - 1 + 1 : Name[k][i] = Suffix(k)[1 + i - 1]
      <3>1. 1 \in Int /\ c - 1 \in Int
        BY <2>4
      <3> QED BY <2>3, <2>5, <3>1, SubSeqProperties
    <2>7. Len(Name[k]) = c - 1 /\ c - 1 - 1 + 1 = c - 1
      BY <2>4, <2>6
    <2>8. \A i \in 1 .. c - 1 : Name[k][i] = Suffix(k)[i]
      <3>1. \A i \in 1 .. c - 1 : 1 + i - 1 = i
        OBVIOUS
      <3> QED BY <2>6, <2>7, <3>1
    <2>9. \A i \in 1 .. c - 1 : i + 1 \in DOMAIN k /\ k[i + 1] = Name[k][i]
      <3>1. \A i \in 1 .. c - 1 : i \in 1 .. Len(k) - 1 /\ i + 1 \in 1 .. Len(k)
        BY <1>1, <2>4
      <3> QED BY <1>1, <2>8, <3>1
    <2>10. c + 1 \in DOMAIN k /\ k[c + 1] = Slash /\ Len(Name[k]) + 2 = c + 1
      BY <1>1, <2>4, <2>7
    <2> QED BY <1>3, <2>5, <2>6, <2>7, <2>8, <2>9, <2>10 DEF Named
  <1> QED BY <1>2, <1>3

\* A key has one name: whatever begins with a name and a slash has that name.
LEMMA NameIsOnly ==
    ASSUME NEW k \in Keys, NEW m \in Seq(Nat),
           \A i \in 1 .. Len(m) : m[i] # Slash,
           \A i \in 1 .. Len(m) : i + 1 \in DOMAIN k /\ k[i + 1] = m[i],
           Len(m) + 2 \in DOMAIN k, k[Len(m) + 2] = Slash
    PROVE  InDirectory(k) /\ Name[k] = m
  <1>1. /\ Suffix(k) \in Seq(Nat) /\ Len(k) \in Nat \ {0} /\ DOMAIN k = 1 .. Len(k)
        /\ Len(Suffix(k)) = Len(k) - 1 /\ DOMAIN Suffix(k) = 1 .. Len(k) - 1
        /\ \A i \in 1 .. Len(k) - 1 : Suffix(k)[i] = k[i + 1]
    BY SuffixIs
  <1> DEFINE n == Name[k]
  <1>2. Len(m) \in Nat
    BY LenProperties
  <1>3. InDirectory(k)
    <2>1. Len(m) + 1 \in 1 .. Len(k) - 1 /\ Len(m) + 1 + 1 = Len(m) + 2
      BY <1>1, <1>2
    <2>2. Suffix(k)[Len(m) + 1] = Slash
      BY <1>1, <2>1
    <2> QED BY <1>1, <2>1, <2>2 DEF InDirectory, Slashes
  <1>4. Named(k, n) /\ n \in Seq(Nat) /\ Len(n) \in Nat
    BY NameIs, LenProperties DEF Named
  <1> HIDE DEF n
  <1>5. Len(n) = Len(m)
    <2>1. CASE Len(n) < Len(m)
      <3>1. Len(n) + 1 \in 1 .. Len(m) /\ Len(n) + 1 + 1 = Len(n) + 2
        BY <1>2, <1>4, <2>1
      <3>2. k[Len(n) + 2] = m[Len(n) + 1] /\ m[Len(n) + 1] # Slash
        BY <3>1
      <3> QED BY <1>3, <1>4, <3>2 DEF Named
    <2>2. CASE Len(m) < Len(n)
      <3>1. Len(m) + 1 \in 1 .. Len(n) /\ Len(m) + 1 + 1 = Len(m) + 2
        BY <1>2, <1>4, <2>2
      <3>2. k[Len(m) + 2] = n[Len(m) + 1] /\ n[Len(m) + 1] # Slash
        BY <1>4, <3>1 DEF Named
      <3> QED BY <3>2
    <2> QED BY <1>2, <1>4, <2>1, <2>2
  <1>6. \A i \in 1 .. Len(n) : n[i] = m[i]
    BY <1>4, <1>5 DEF Named
  <1>7. n = m
    BY <1>4, <1>5, <1>6, SeqEqual
  <1> QED BY <1>3, <1>7 DEF n

\* The bounds of a name, character by character.
FileEnd(m) == <<Slash>> \o m
DirectoryEnd(m) == <<Slash>> \o m \o <<Zero>>

LEMMA EndsAre ==
    ASSUME NEW m \in Seq(Nat)
    PROVE  /\ Len(m) \in Nat
           /\ FileEnd(m) \in Seq(Nat)
           /\ Len(FileEnd(m)) = Len(m) + 1 /\ DOMAIN FileEnd(m) = 1 .. Len(m) + 1
           /\ FileEnd(m)[1] = Slash /\ \A i \in 1 .. Len(m) : FileEnd(m)[i + 1] = m[i]
           /\ DirectoryEnd(m) \in Seq(Nat)
           /\ Len(DirectoryEnd(m)) = Len(m) + 2 /\ DOMAIN DirectoryEnd(m) = 1 .. Len(m) + 2
           /\ DirectoryEnd(m)[1] = Slash
           /\ \A i \in 1 .. Len(m) : DirectoryEnd(m)[i + 1] = m[i]
           /\ DirectoryEnd(m)[Len(m) + 2] = Zero
  <1>1. <<Slash>> \in Seq(Nat) /\ Len(<<Slash>>) = 1 /\ <<Slash>>[1] = Slash
    BY DEF Slash
  <1>2. <<Zero>> \in Seq(Nat) /\ Len(<<Zero>>) = 1 /\ <<Zero>>[1] = Zero
    BY DEF Zero
  <1>3. Len(m) \in Nat
    BY LenProperties
  <1>4. /\ FileEnd(m) \in Seq(Nat) /\ Len(FileEnd(m)) = 1 + Len(m)
        /\ \A i \in 1 .. 1 + Len(m) : FileEnd(m)[i] = IF i <= 1 THEN <<Slash>>[i] ELSE m[i - 1]
    BY <1>1, ConcatProperties DEF FileEnd
  <1>5. /\ DirectoryEnd(m) \in Seq(Nat) /\ Len(DirectoryEnd(m)) = 1 + Len(m) + 1
        /\ \A i \in 1 .. 1 + Len(m) + 1 :
              DirectoryEnd(m)[i] = IF i <= 1 + Len(m) THEN FileEnd(m)[i]
                                   ELSE <<Zero>>[i - (1 + Len(m))]
    <2>1. DirectoryEnd(m) = FileEnd(m) \o <<Zero>>
      BY DEF DirectoryEnd, FileEnd
    <2> QED BY <1>2, <1>4, <2>1, ConcatProperties
  <1>6. FileEnd(m)[1] = Slash
    BY <1>1, <1>3, <1>4
  <1>7. \A i \in 1 .. Len(m) : FileEnd(m)[i + 1] = m[i]
    <2>1. ASSUME NEW i \in 1 .. Len(m)
          PROVE  i + 1 \in 1 .. 1 + Len(m) /\ ~(i + 1 <= 1) /\ i + 1 - 1 = i
      BY <1>3
    <2> QED BY <1>4, <2>1
  <1>8. DirectoryEnd(m)[1] = Slash
    <2>1. 1 \in 1 .. 1 + Len(m) + 1 /\ 1 <= 1 + Len(m)
      BY <1>3
    <2> QED BY <1>5, <1>6, <2>1
  <1>9. \A i \in 1 .. Len(m) : DirectoryEnd(m)[i + 1] = m[i]
    <2>1. ASSUME NEW i \in 1 .. Len(m)
          PROVE  i + 1 \in 1 .. 1 + Len(m) + 1 /\ i + 1 <= 1 + Len(m)
      BY <1>3
    <2> QED BY <1>5, <1>7, <2>1
  <1>10. DirectoryEnd(m)[Len(m) + 2] = Zero
    <2>1. /\ Len(m) + 2 \in 1 .. 1 + Len(m) + 1 /\ ~(Len(m) + 2 <= 1 + Len(m))
          /\ Len(m) + 2 - (1 + Len(m)) = 1
      BY <1>3
    <2> QED BY <1>2, <1>5, <2>1
  <1>11. 1 + Len(m) + 1 = Len(m) + 2 /\ 1 + Len(m) = Len(m) + 1
    BY <1>3
  <1>12. DOMAIN FileEnd(m) = 1 .. Len(m) + 1 /\ DOMAIN DirectoryEnd(m) = 1 .. Len(m) + 2
    BY <1>4, <1>5, <1>11, LenProperties
  <1> QED BY <1>3, <1>4, <1>5, <1>6, <1>7, <1>8, <1>9, <1>10, <1>11, <1>12

\* The bound behind a file is below the one behind a directory of its name.
LEMMA EndsInOrder ==
    ASSUME NEW m \in Seq(Nat)
    PROVE  Below(FileEnd(m), DirectoryEnd(m))
  <1> DEFINE f == FileEnd(m)
             d == DirectoryEnd(m)
             L == Len(m) + 2
  <1>1. /\ Len(m) \in Nat /\ DOMAIN f = 1 .. Len(m) + 1 /\ DOMAIN d = 1 .. L
        /\ f[1] = Slash /\ d[1] = Slash
        /\ \A j \in 1 .. Len(m) : f[j + 1] = m[j] /\ d[j + 1] = m[j]
    BY EndsAre
  <1> HIDE DEF f, d
  <1>2. ASSUME NEW j \in 1 .. Len(m) + 1 PROVE f[j] = d[j]
    <2>1. CASE j = 1
      BY <1>1, <2>1
    <2>2. CASE j # 1
      <3>1. j - 1 \in 1 .. Len(m) /\ j - 1 + 1 = j
        BY <1>1, <2>2
      <3> QED BY <1>1, <3>1
    <2> QED BY <2>1, <2>2
  <1>3. L \in DOMAIN d /\ L \notin DOMAIN f
    BY <1>1
  <1>4. ASSUME NEW j \in 1 .. L - 1 PROVE j \in DOMAIN f /\ f[j] = d[j]
    <2>1. j \in 1 .. Len(m) + 1
      BY <1>1
    <2> QED BY <1>1, <1>2, <2>1
  <1>5. \E i \in DOMAIN d :
           /\ \A j \in 1 .. i - 1 : j \in DOMAIN f /\ f[j] = d[j]
           /\ i \in DOMAIN f => f[i] < d[i]
    <2> HIDE DEF L
    <2> QED BY <1>3, <1>4
  <1> QED BY <1>5 DEF Below, f, d

\* The bounds of a key are those of its name.
LEMMA BoundsAre ==
    ASSUME NEW k \in Keys
    PROVE  /\ FileBound(k) = FileEnd(Name[k])
           /\ DirectoryBound(k) = DirectoryEnd(Name[k])
           /\ Name[k] \in Seq(Nat)
  BY NameIs DEF FileBound, DirectoryBound, FileEnd, DirectoryEnd, Named

\* A bound begins with a slash.
LEMMA BoundsBegin ==
    ASSUME NEW b \in Bounds
    PROVE  b \in Seq(Nat) /\ 1 \in DOMAIN b /\ b[1] = Slash
  <1>1. CASE b = <<Slash>>
    BY <1>1 DEF Slash
  <1>2. ASSUME NEW k \in Keys, b = FileBound(k) \/ b = DirectoryBound(k)
        PROVE  b \in Seq(Nat) /\ 1 \in DOMAIN b /\ b[1] = Slash
    <2> DEFINE m == Name[k]
    <2>1. m \in Seq(Nat) /\ (b = FileEnd(m) \/ b = DirectoryEnd(m))
      BY <1>2, BoundsAre
    <2> HIDE DEF m
    <2>2. 1 \in 1 .. Len(m) + 1 /\ 1 \in 1 .. Len(m) + 2
      <3>1. \A n \in Nat : 1 \in 1 .. n + 1 /\ 1 \in 1 .. n + 2
        OBVIOUS
      <3>2. Len(m) \in Nat
        BY <2>1, EndsAre
      <3> QED BY <3>1, <3>2, Zenon
    <2> QED BY <2>1, <2>2, EndsAre
  <1> QED BY <1>1, <1>2 DEF Bounds

\* What lies between a bound and the folder's end is in the folder, and what is
\* in the folder lies before its end.
LEMMA FolderIsRange ==
    ASSUME NEW k \in Keys
    PROVE  /\ InFolder(k) => Below(k, <<Zero>>)
           /\ \A b \in Bounds : Below(b, k) /\ Below(k, <<Zero>>) => InFolder(k)
  <1>1. /\ Len(k) \in Nat \ {0} /\ DOMAIN k = 1 .. Len(k) /\ 1 \in DOMAIN k /\ k[1] \in Nat
    <2>1. Len(k) \in Nat \ {0} /\ DOMAIN k = 1 .. Len(k) /\ k \in Seq(Nat)
      BY SuffixIs
    <2>2. \A n \in Nat \ {0} : 1 \in 1 .. n
      OBVIOUS
    <2>3. \A i \in 1 .. Len(k) : k[i] \in Nat
      BY <2>1, LenProperties
    <2> QED BY <2>1, <2>2, <2>3
  <1>2. DOMAIN <<Zero>> = {1} /\ <<Zero>>[1] = 48
    BY DEF Zero
  <1>3. InFolder(k) => Below(k, <<Zero>>)
    <2>1. ASSUME InFolder(k) PROVE Below(k, <<Zero>>)
      <3>1. k[1] < 48
        BY <2>1 DEF InFolder, Slash
      <3> QED BY <1>2, <3>1 DEF Below
    <2> QED BY <2>1
  <1>4. ASSUME NEW b \in Bounds, Below(b, k), Below(k, <<Zero>>) PROVE InFolder(k)
    <2>1. k[1] < 48
      BY <1>1, <1>2, <1>4 DEF Below
    <2>2. 1 \in DOMAIN b /\ b[1] = 47
      BY BoundsBegin DEF Slash
    <2>3. PICK i \in DOMAIN k :
             /\ \A j \in 1 .. i - 1 : j \in DOMAIN b /\ b[j] = k[j]
             /\ i \in DOMAIN b => b[i] < k[i]
      BY <1>4 DEF Below
    <2>4. i \in Nat \ {0}
      BY <1>1
    <2>5. CASE i = 1
      BY <1>1, <2>1, <2>2, <2>3, <2>5
    <2>6. CASE i # 1
      <3>1. 1 \in 1 .. i - 1
        BY <2>4, <2>6
      <3> QED BY <2>2, <2>3, <3>1 DEF InFolder, Slash
    <2> QED BY <2>5, <2>6
  <1> QED BY <1>3, <1>4

\* The bound a read moves to is the key it found, or follows it.
LEMMA BoundIsPast ==
    ASSUME NEW k \in Keys, InFolder(k)
    PROVE  /\ Bound(k) \in Bounds
           /\ IF InDirectory(k) THEN Bound(k) = DirectoryEnd(Name[k]) /\ Below(k, Bound(k))
              ELSE Bound(k) = FileEnd(Name[k]) /\ Bound(k) = k
  <1>1. Bound(k) \in Bounds
    BY DEF Bound, Bounds
  <1> DEFINE m == Name[k]
             f == FileEnd(m)
             d == DirectoryEnd(m)
  <1>2. Named(k, m) /\ k \in Seq(Nat) /\ DOMAIN k = 1 .. Len(k) /\ Len(k) \in Nat \ {0}
    BY NameIs, SuffixIs
  <1>3. Bound(k) = IF InDirectory(k) THEN d ELSE f
    BY BoundsAre DEF Bound
  <1> HIDE DEF m
  <1>4. m \in Seq(Nat)
    BY <1>2 DEF Named
  <1>5. /\ Len(m) \in Nat
        /\ f \in Seq(Nat) /\ Len(f) = Len(m) + 1
        /\ f[1] = Slash /\ \A i \in 1 .. Len(m) : f[i + 1] = m[i]
        /\ DOMAIN d = 1 .. Len(m) + 2
        /\ d[1] = Slash /\ \A i \in 1 .. Len(m) : d[i + 1] = m[i]
        /\ d[Len(m) + 2] = Zero
    BY <1>4, EndsAre
  <1> HIDE DEF f, d
  <1>6. CASE InDirectory(k)
    <2>1. Len(m) + 2 \in DOMAIN k /\ k[Len(m) + 2] = Slash
      BY <1>2, <1>6 DEF Named
    <2>2. ASSUME NEW j \in 1 .. Len(m) + 1 PROVE j \in DOMAIN k /\ k[j] = d[j]
      <3>1. CASE j = 1
        BY <1>2, <1>5, <3>1 DEF InFolder
      <3>2. CASE j # 1
        <4>1. PICK i \in 1 .. Len(m) : j = i + 1
          <5>1. j - 1 \in 1 .. Len(m) /\ j = j - 1 + 1
            BY <1>5, <3>2
          <5> QED BY <5>1
        <4> QED BY <1>2, <1>5, <4>1 DEF Named
      <3> QED BY <3>1, <3>2
    <2>3. k[Len(m) + 2] < d[Len(m) + 2]
      BY <1>5, <2>1 DEF Slash, Zero
    <2>4. Len(m) + 2 \in DOMAIN d /\ Len(m) + 2 - 1 = Len(m) + 1
      BY <1>5
    <2>5. Below(k, d)
      BY <2>2, <2>3, <2>4 DEF Below
    <2> QED BY <1>1, <1>3, <1>6, <2>5 DEF m, d
  <1>7. CASE ~InDirectory(k)
    <2>1. Len(k) = Len(m) + 1
      BY <1>2, <1>7 DEF Named
    <2>2. ASSUME NEW j \in 1 .. Len(m) + 1 PROVE k[j] = f[j]
      <3>1. CASE j = 1
        BY <1>2, <1>5, <3>1 DEF InFolder
      <3>2. CASE j # 1
        <4>1. PICK i \in 1 .. Len(m) : j = i + 1
          <5>1. j - 1 \in 1 .. Len(m) /\ j = j - 1 + 1
            BY <1>5, <3>2
          <5> QED BY <5>1
        <4> QED BY <1>2, <1>5, <4>1 DEF Named
      <3> QED BY <3>1, <3>2
    <2>3. k = f
      BY <1>2, <1>5, <2>1, <2>2, SeqEqual
    <2> QED BY <1>1, <1>3, <1>7, <2>3 DEF m, f
  <1> QED BY <1>6, <1>7

\* The bound past a directory skips nothing else: whatever follows a key of the
\* directory and has another name follows the bound, or is the bound.
LEMMA GapIsEmpty ==
    ASSUME NEW p \in Keys, NEW k \in Keys, InFolder(p), InFolder(k), InDirectory(p),
           Below(p, k), Name[k] # Name[p]
    PROVE  k = DirectoryBound(p) \/ Below(DirectoryBound(p), k)
  <1> DEFINE m == Name[p]
             d == DirectoryEnd(m)
             L == Len(m) + 2
  <1>1. Named(p, m) /\ Name[k] # m
    BY NameIs
  <1>2. /\ k \in Seq(Nat) /\ DOMAIN k = 1 .. Len(k) /\ Len(k) \in Nat \ {0}
        /\ \A i \in DOMAIN k : k[i] \in Nat
        /\ p \in Seq(Nat) /\ DOMAIN p = 1 .. Len(p) /\ Len(p) \in Nat \ {0}
    BY SuffixIs, LenProperties
  <1>3. DirectoryBound(p) = d
    BY BoundsAre
  <1> HIDE DEF m
  <1>4. m \in Seq(Nat)
    BY <1>1 DEF Named
  <1>5. /\ Len(m) \in Nat
        /\ d \in Seq(Nat) /\ Len(d) = L /\ DOMAIN d = 1 .. L
        /\ d[1] = Slash /\ \A i \in 1 .. Len(m) : d[i + 1] = m[i]
        /\ d[L] = Zero
    BY <1>4, EndsAre
  <1> HIDE DEF d
  <1>6. L \in DOMAIN p /\ p[L] = Slash
    BY <1>1 DEF Named
  <1>7. ASSUME NEW j \in 1 .. Len(m) + 1 PROVE j \in DOMAIN p /\ p[j] = d[j]
    <2>1. CASE j = 1
      BY <1>2, <1>5, <2>1 DEF InFolder
    <2>2. CASE j # 1
      <3>1. PICK i \in 1 .. Len(m) : j = i + 1
        <4>1. j - 1 \in 1 .. Len(m) /\ j = j - 1 + 1
          BY <1>5, <2>2
        <4> QED BY <4>1
      <3> QED BY <1>1, <1>5, <3>1 DEF Named
    <2> QED BY <2>1, <2>2
  <1>8. PICK i \in DOMAIN k :
           /\ \A j \in 1 .. i - 1 : j \in DOMAIN p /\ p[j] = k[j]
           /\ i \in DOMAIN p => p[i] < k[i]
    BY DEF Below
  <1>9. i \in Nat \ {0}
    BY <1>2
  <1>10. CASE i < L
    <2>1. i \in 1 .. Len(m) + 1 /\ i \in DOMAIN d
      BY <1>5, <1>9, <1>10
    <2>2. d[i] < k[i]
      BY <1>7, <1>8, <2>1
    <2>3. \A j \in 1 .. i - 1 : j \in DOMAIN d /\ j \in 1 .. Len(m) + 1
      BY <1>5, <1>9, <1>10
    <2>4. \A j \in 1 .. i - 1 : j \in DOMAIN d /\ d[j] = k[j]
      BY <1>7, <1>8, <2>3
    <2>5. Below(d, k)
      BY <2>2, <2>4 DEF Below
    <2> QED BY <1>3, <2>5
  <1>11. CASE i = L
    <2>1. 47 < k[L] /\ L \in DOMAIN k /\ k[L] \in Nat
      BY <1>2, <1>6, <1>8, <1>11 DEF Slash
    <2>2. \A j \in 1 .. L - 1 : j \in DOMAIN d /\ j \in 1 .. Len(m) + 1
      BY <1>5
    <2>3. \A j \in 1 .. L - 1 : j \in DOMAIN d /\ d[j] = k[j]
      BY <1>7, <1>8, <1>11, <2>2
    <2>4. CASE k[L] > 48
      <3>1. d[L] < k[L]
        BY <1>5, <2>4 DEF Zero
      <3>2. Below(d, k)
        BY <2>1, <2>3, <3>1 DEF Below
      <3> QED BY <1>3, <3>2
    <2>5. CASE k[L] = 48
      <3>1. \A j \in 1 .. L : j \in DOMAIN d /\ d[j] = k[j]
        <4>1. \A j \in 1 .. L : j \in 1 .. L - 1 \/ j = L
          BY <1>5
        <4>2. L \in DOMAIN d
          BY <1>5
        <4> QED BY <1>5, <2>3, <2>5, <4>1, <4>2 DEF Zero
      <3>2. CASE Len(k) = L
        <4>1. k = d
          BY <1>2, <1>5, <3>1, <3>2, SeqEqual
        <4> QED BY <1>3, <4>1
      <3>3. CASE Len(k) # L
        <4>1. L + 1 \in DOMAIN k /\ L + 1 \notin DOMAIN d /\ L + 1 - 1 = L
          <5>1. \A a \in Nat \ {0}, b \in Nat : b \in 1 .. a /\ a # b =>
                   b + 1 \in 1 .. a /\ b + 1 \notin 1 .. b /\ b + 1 - 1 = b
            OBVIOUS
          <5>2. L \in Nat
            BY <1>5
          <5>3. L \in 1 .. Len(k) /\ Len(k) # L
            BY <1>2, <2>1, <3>3
          <5> HIDE DEF L
          <5>4. L + 1 \in 1 .. Len(k) /\ L + 1 \notin 1 .. L /\ L + 1 - 1 = L
            BY <1>2, <5>1, <5>2, <5>3
          <5> QED BY <1>2, <1>5, <5>4
        <4>2. Below(d, k)
          BY <3>1, <4>1 DEF Below
        <4> QED BY <1>3, <4>2
      <3> QED BY <3>2, <3>3
    <2> QED BY <2>1, <2>4, <2>5
  <1>12. CASE L < i
    <2>1. \A j \in 1 .. L : j \in 1 .. i - 1 /\ j \in DOMAIN k
      <3>1. \A a \in Nat, b \in Nat, c \in Nat : a < b /\ b \in 1 .. c =>
                 \A j \in 1 .. a : j \in 1 .. b - 1 /\ j \in 1 .. c
        OBVIOUS
      <3>2. L \in Nat /\ i \in 1 .. Len(k)
        BY <1>2, <1>5, <1>8
      <3> HIDE DEF L
      <3> QED BY <1>2, <1>9, <1>12, <3>1, <3>2
    <2>2. \A j \in 1 .. L : p[j] = k[j] /\ j \in DOMAIN k
      BY <1>8, <2>1
    <2>3. L \in 1 .. L
      BY <1>5
    <2>4. k[L] = Slash /\ L \in DOMAIN k
      BY <1>6, <2>2, <2>3
    <2>5. \A j \in 1 .. Len(m) : j + 1 \in 1 .. L
      BY <1>5
    <2>6. \A j \in 1 .. Len(m) : j + 1 \in DOMAIN k /\ k[j + 1] = m[j] /\ m[j] # Slash
      BY <1>1, <2>2, <2>5 DEF Named
    <2>7. Name[k] = m
      BY <1>4, <2>4, <2>6, NameIsOnly
    <2> QED BY <1>1, <2>7
  <1> QED BY <1>5, <1>9, <1>10, <1>11, <1>12

-----------------------------------------------------------------------------
(***************************************************************************)
(* The invariant of a listing.                                             *)
(***************************************************************************)
AtOrBelow(s, t) == s = t \/ Below(s, t)

Names == {Name[k] : k \in Keys}

\* The variables have their types, and the stream stands at a bound.
StreamInv ==
    /\ TypeOK
    /\ IsFiniteSet(files) /\ pushed \in Seq(Names)
    /\ prev \in Bounds
    /\ prevName = << >> \/ Listed(prevName)

\* Who has been there from the start is listed or still to come.
PassedInv ==
    /\ \A k \in always :
          InFolder(k) /\ ~HiddenBy(ever, k) => Listed(Name[k]) \/ Below(prev, k)
    /\ ended => PrefixRange(prev) = {}

\* The stream is past the bound of everything it listed.
ListedInv ==
    /\ \A i \in DOMAIN pushed :
          \/ Directory(ever, pushed[i]) /\ AtOrBelow(DirectoryEnd(pushed[i]), prev)
          \/ FileNamed(ever, pushed[i]) /\ AtOrBelow(FileEnd(pushed[i]), prev)
    /\ NamesListedOnce

ReaddirInv == StreamInv /\ PassedInv /\ ListedInv

\* A listing begins with nothing listed and everything to come.
LEMMA ReaddirInit == Init => ReaddirInv
  <1> SUFFICES ASSUME Init PROVE ReaddirInv
    OBVIOUS
  <1> USE DEF Init
  <1>1. pushed \in Seq(Names) /\ DOMAIN pushed = {}
    OBVIOUS
  <1>2. StreamInv
    BY <1>1 DEF StreamInv, TypeOK, Bounds
  <1>3. ASSUME NEW k \in Keys, InFolder(k) PROVE Below(<<Slash>>, k)
    <2> DEFINE m == Name[k]
    <2>1. Named(k, m) /\ m # << >> /\ m \in Seq(Nat)
      BY <1>3, NameIs, NamesAssumption DEF Named
    <2>2. Len(m) \in Nat /\ Len(m) # 0
      BY <2>1, LenProperties
    <2> HIDE DEF m
    <2>3. 1 \in 1 .. Len(m)
      <3>1. \A n \in Nat : n # 0 => 1 \in 1 .. n
        OBVIOUS
      <3> QED BY <2>2, <3>1
    <2>4. 1 + 1 = 2 /\ 1 .. 2 - 1 = {1} /\ DOMAIN <<Slash>> = {1} /\ <<Slash>>[1] = Slash
      OBVIOUS
    <2>5. 2 \in DOMAIN k /\ 2 \notin DOMAIN <<Slash>>
      BY <2>1, <2>3, <2>4 DEF Named
    <2> QED BY <1>3, <2>4, <2>5 DEF Below, InFolder
  <1>4. PassedInv
    BY <1>3 DEF PassedInv
  <1>5. ListedInv
    BY <1>1 DEF ListedInv, NamesListedOnce
  <1> QED BY <1>2, <1>4, <1>5 DEF ReaddirInv

-----------------------------------------------------------------------------
(***************************************************************************)
(* A read.                                                                 *)
(***************************************************************************)
\* What peek() finds: a file of the folder, before all others past prev.
LEMMA PeekFinds ==
    ASSUME ReaddirInv, NEW k, k = Peek(PrefixRange(prev)), PrefixRange(prev) # {}
    PROVE  /\ k \in files /\ k \in Keys /\ k \in Seq(Nat) /\ InFolder(k) /\ Below(prev, k)
           /\ \A j \in files : InFolder(j) /\ Below(prev, j) => j = k \/ Below(k, j)
           /\ prev \in Seq(Nat)
           /\ Bound(k) \in Bounds /\ Bound(k) \in Seq(Nat) /\ Below(prev, Bound(k))
  <1> DEFINE R == PrefixRange(prev)
  <1>1. /\ files \subseteq Keys /\ IsFiniteSet(files) /\ prev \in Bounds
    BY DEF ReaddirInv, StreamInv, TypeOK
  <1>2. \A j \in Keys : j \in R <=> j \in files /\ Below(prev, j) /\ Below(j, <<Zero>>)
    BY <1>1 DEF PrefixRange, Beyond
  <1>3. R \in SUBSET files /\ R \in SUBSET Keys
    BY <1>1 DEF PrefixRange
  <1>4. IsFiniteSet(R)
    BY <1>1, <1>3, FS_Subset
  <1> HIDE DEF R
  <1>5. R # {} /\ k = Peek(R)
    BY DEF R
  <1>6. k \in R /\ \A j \in R : j = k \/ Below(k, j)
    BY <1>3, <1>4, <1>5, PeekIsFirst
  <1>7. k \in files /\ k \in Keys /\ Below(prev, k) /\ Below(k, <<Zero>>)
    BY <1>2, <1>3, <1>6
  <1>8. InFolder(k) /\ k \in Seq(Nat) /\ prev \in Seq(Nat)
    BY <1>1, <1>7, FolderIsRange, BoundsBegin, SuffixIs
  <1>9. \A j \in files : InFolder(j) /\ Below(prev, j) => j \in R
    BY <1>1, <1>2, FolderIsRange
  <1>10. Bound(k) \in Bounds /\ (Bound(k) = k \/ Below(k, Bound(k)))
    BY <1>7, <1>8, BoundIsPast
  <1>11. Bound(k) \in Seq(Nat)
    BY <1>10, BoundsBegin
  <1>12. Below(prev, Bound(k))
    BY <1>7, <1>8, <1>10, <1>11, BelowIsTransitive
  <1> QED BY <1>6, <1>7, <1>8, <1>9, <1>10, <1>11, <1>12

\* What is pushed comes after what was pushed before.
LEMMA PushedIs ==
    ASSUME pushed \in Seq(Names), NEW k \in Keys,
           pushed' = IF Name[k] = prevName THEN pushed ELSE Append(pushed, Name[k])
    PROVE  /\ pushed' \in Seq(Names)
           /\ \A i \in DOMAIN pushed : i \in DOMAIN pushed' /\ pushed'[i] = pushed[i]
           /\ \A i \in DOMAIN pushed' :
                 \/ i \in DOMAIN pushed
                 \/ i = Len(pushed) + 1 /\ pushed'[i] = Name[k] /\ Name[k] # prevName
           /\ Name[k] # prevName => \E i \in DOMAIN pushed' : pushed'[i] = Name[k]
  <1>1. Len(pushed) \in Nat /\ DOMAIN pushed = 1 .. Len(pushed)
    BY LenProperties
  <1>2. CASE Name[k] = prevName
    BY <1>2
  <1>3. CASE Name[k] # prevName
    <2>1. Name[k] \in Names
      BY DEF Names
    <2>2. pushed' = Append(pushed, Name[k])
      BY <1>3
    <2>3. /\ pushed' \in Seq(Names) /\ Len(pushed') = Len(pushed) + 1
          /\ \A i \in 1 .. Len(pushed) : pushed'[i] = pushed[i]
          /\ pushed'[Len(pushed) + 1] = Name[k]
      BY <2>1, <2>2, AppendProperties
    <2>4. DOMAIN pushed' = 1 .. Len(pushed) + 1
      BY <2>3, LenProperties
    <2>5. \A i \in 1 .. Len(pushed) + 1 : i \in 1 .. Len(pushed) \/ i = Len(pushed) + 1
      BY <1>1
    <2>6. \A i \in 1 .. Len(pushed) : i \in 1 .. Len(pushed) + 1
      BY <1>1
    <2>7. Len(pushed) + 1 \in 1 .. Len(pushed) + 1
      BY <1>1
    <2> QED BY <1>1, <1>3, <2>3, <2>4, <2>5, <2>6, <2>7
  <1> QED BY <1>2, <1>3

\* A read that finds a file keeps all three parts of the invariant.
LEMMA ReadStep ==
    ASSUME ReaddirInv, Read, PrefixRange(prev) # {}
    PROVE  ReaddirInv'
  <1>1. PICK k : k = Peek(PrefixRange(prev))
    OBVIOUS
  <1>2. /\ prev' = Bound(k) /\ prevName' = Name[k]
        /\ pushed' = IF Name[k] = prevName THEN pushed ELSE Append(pushed, Name[k])
        /\ UNCHANGED <<ended, files, always, ever>> /\ ended = FALSE
    BY <1>1 DEF Read, Advance, ReaddirInv, StreamInv, TypeOK
  <1>3. /\ k \in files /\ k \in Keys /\ k \in Seq(Nat) /\ InFolder(k) /\ Below(prev, k)
        /\ \A j \in files : InFolder(j) /\ Below(prev, j) => j = k \/ Below(k, j)
        /\ prev \in Seq(Nat)
        /\ Bound(k) \in Bounds /\ Bound(k) \in Seq(Nat) /\ Below(prev, Bound(k))
    BY <1>1, PeekFinds
  <1>4. /\ TypeOK /\ pushed \in Seq(Names) /\ IsFiniteSet(files)
        /\ prevName = << >> \/ Listed(prevName)
    BY DEF ReaddirInv, StreamInv
  <1>5. /\ pushed' \in Seq(Names)
        /\ \A i \in DOMAIN pushed : i \in DOMAIN pushed' /\ pushed'[i] = pushed[i]
        /\ \A i \in DOMAIN pushed' :
              \/ i \in DOMAIN pushed
              \/ i = Len(pushed) + 1 /\ pushed'[i] = Name[k] /\ Name[k] # prevName
        /\ Name[k] # prevName => \E i \in DOMAIN pushed' : pushed'[i] = Name[k]
    BY <1>2, <1>3, <1>4, PushedIs
  <1>6. \A x : Listed(x) => Listed(x)'
    BY <1>5 DEF Listed
  <1>7. Listed(Name[k])'
    <2>1. Name[k] # << >>
      BY <1>3, NamesAssumption
    <2>2. CASE Name[k] = prevName
      BY <1>4, <1>6, <2>1, <2>2
    <2>3. CASE Name[k] # prevName
      BY <1>5, <2>3 DEF Listed
    <2> QED BY <2>2, <2>3
  <1>8. StreamInv'
    <2>1. TypeOK'
      <3>1. \A i \in DOMAIN pushed' : \E j \in ever : InFolder(j) /\ Name[j] = pushed'[i]
        <4>1. k \in ever
          BY <1>3, <1>4 DEF TypeOK
        <4>2. \A i \in DOMAIN pushed : \E j \in ever : InFolder(j) /\ Name[j] = pushed[i]
          BY <1>4 DEF TypeOK
        <4> QED BY <1>3, <1>5, <4>1, <4>2
      <3> QED BY <1>2, <1>4, <3>1 DEF TypeOK
    <2>2. Listed(prevName)'
      BY <1>2, <1>7 DEF Listed
    <2> QED BY <1>2, <1>3, <1>4, <1>5, <2>1, <2>2 DEF StreamInv
  <1>9. PassedInv'
    <2>1. ASSUME NEW j \in always, InFolder(j), ~HiddenBy(ever, j)
          PROVE  Listed(Name[j])' \/ Below(Bound(k), j)
      <3>1. j \in files /\ j \in Keys
        BY <1>4 DEF TypeOK
      <3>2. CASE Listed(Name[j])
        BY <1>6, <3>2
      <3>3. CASE Below(prev, j)
        <4>1. j = k \/ Below(k, j)
          BY <1>3, <2>1, <3>1, <3>3
        <4>2. CASE j = k
          BY <1>7, <4>2
        <4>3. CASE Name[j] = Name[k]
          BY <1>7, <4>3
        <4>4. CASE Below(k, j) /\ Name[j] # Name[k]
          <5>1. CASE ~InDirectory(k)
            BY <1>3, <4>4, <5>1, BoundIsPast
          <5>2. CASE InDirectory(k)
            <6>1. j = DirectoryBound(k) \/ Below(DirectoryBound(k), j)
              BY <1>3, <2>1, <3>1, <4>4, <5>2, GapIsEmpty
            <6>2. j # DirectoryBound(k)
              BY <1>3, <1>4, <2>1, <5>2 DEF HiddenBy, TypeOK
            <6> QED BY <5>2, <6>1, <6>2 DEF Bound
          <5> QED BY <5>1, <5>2
        <4> QED BY <4>1, <4>2, <4>3, <4>4
      <3> QED BY <2>1, <3>2, <3>3 DEF ReaddirInv, PassedInv
    <2>2. \A j \in always' : InFolder(j) /\ ~HiddenBy(ever', j) =>
             Listed(Name[j])' \/ Below(prev', j)
      BY <1>2, <2>1
    <2> QED BY <1>2, <2>2 DEF PassedInv
  <1>10. ListedInv'
    <2> DEFINE m == Name[k]
    <2>1. m \in Seq(Nat) /\ k \in ever
      BY <1>3, <1>4, BoundsAre DEF TypeOK
    <2>2. IF InDirectory(k)
          THEN Directory(ever, m) /\ Bound(k) = DirectoryEnd(m) /\ Below(k, DirectoryEnd(m))
          ELSE FileNamed(ever, m) /\ Bound(k) = FileEnd(m) /\ k = FileEnd(m)
      BY <1>3, <2>1, BoundIsPast DEF Directory, FileNamed, FileEnd
    <2>3. \A s \in Seq(Nat) : AtOrBelow(s, prev) => Below(s, Bound(k)) /\ Below(s, k)
      BY <1>3, BelowIsTransitive DEF AtOrBelow
    <2>4. \A i \in DOMAIN pushed : pushed[i] \in Seq(Nat)
      <3>1. \A x \in Names : x \in Seq(Nat)
        BY BoundsAre DEF Names
      <3>2. \A i \in DOMAIN pushed : pushed[i] \in Names
        BY <1>4, LenProperties
      <3> QED BY <3>1, <3>2
    <2>5. \A i \in DOMAIN pushed :
             \/ Directory(ever, pushed[i]) /\ AtOrBelow(DirectoryEnd(pushed[i]), prev)
             \/ FileNamed(ever, pushed[i]) /\ AtOrBelow(FileEnd(pushed[i]), prev)
      BY DEF ReaddirInv, ListedInv
    <2>6. ASSUME NEW i \in DOMAIN pushed'
          PROVE  \/ Directory(ever, pushed'[i]) /\ AtOrBelow(DirectoryEnd(pushed'[i]), Bound(k))
                 \/ FileNamed(ever, pushed'[i]) /\ AtOrBelow(FileEnd(pushed'[i]), Bound(k))
      <3>1. CASE i \in DOMAIN pushed
        <4>1. pushed'[i] = pushed[i] /\ pushed[i] \in Seq(Nat)
          BY <1>5, <2>4, <3>1
        <4>2. DirectoryEnd(pushed[i]) \in Seq(Nat) /\ FileEnd(pushed[i]) \in Seq(Nat)
          BY <4>1, EndsAre
        <4> QED BY <2>3, <2>5, <3>1, <4>1, <4>2 DEF AtOrBelow
      <3>2. CASE pushed'[i] = m
        BY <2>2, <3>2 DEF AtOrBelow
      <3> QED BY <1>5, <3>1, <3>2
    \* A name that is listed again was that of a file first, then of a directory.
    <2>7. ASSUME NEW i \in DOMAIN pushed, pushed[i] = m
          PROVE  Directory(ever, m) /\ FileNamed(ever, m)
      <3>1. /\ DirectoryEnd(m) \in Seq(Nat) /\ FileEnd(m) \in Seq(Nat)
            /\ Below(FileEnd(m), DirectoryEnd(m))
        BY <2>1, EndsAre, EndsInOrder
      <3>2. Directory(ever, m) /\ AtOrBelow(DirectoryEnd(m), prev)
              => Below(DirectoryEnd(m), k)
        BY <2>3, <3>1
      <3>3. FileNamed(ever, m) /\ AtOrBelow(FileEnd(m), prev) => Below(FileEnd(m), k)
        BY <2>3, <3>1
      <3>4. \/ Directory(ever, m) /\ AtOrBelow(DirectoryEnd(m), prev)
            \/ FileNamed(ever, m) /\ AtOrBelow(FileEnd(m), prev)
        BY <2>5, <2>7
      <3>5. ~Below(k, k)
        BY <1>3, BelowIsIrreflexive
      <3>6. CASE InDirectory(k)
        <4>1. ~Below(DirectoryEnd(m), k)
          BY <1>3, <2>2, <3>1, <3>5, <3>6, BelowIsTransitive
        <4> QED BY <2>2, <3>2, <3>4, <3>6, <4>1
      <3>7. CASE ~InDirectory(k)
        <4>1. k = FileEnd(m) /\ ~Below(DirectoryEnd(m), k) /\ ~Below(FileEnd(m), k)
          <5>1. k = FileEnd(m)
            BY <2>2, <3>7
          <5>2. ~Below(DirectoryEnd(m), k)
            BY <1>3, <3>1, <3>5, <5>1, BelowIsTransitive
          <5> QED BY <3>5, <5>1, <5>2
        <4> QED BY <3>2, <3>3, <3>4, <4>1
      <3> QED BY <3>6, <3>7
    <2>8. ASSUME NEW i \in DOMAIN pushed', NEW j \in DOMAIN pushed', pushed'[i] = pushed'[j], i # j
          PROVE  Directory(ever, pushed'[i]) /\ FileNamed(ever, pushed'[i])
      <3>1. CASE i \in DOMAIN pushed /\ j \in DOMAIN pushed
        BY <1>5, <2>8, <3>1 DEF ReaddirInv, ListedInv, NamesListedOnce
      <3>2. CASE i \in DOMAIN pushed /\ j \notin DOMAIN pushed
        BY <1>5, <2>7, <2>8, <3>2
      <3>3. CASE i \notin DOMAIN pushed /\ j \in DOMAIN pushed
        BY <1>5, <2>7, <2>8, <3>3
      <3>4. CASE i \notin DOMAIN pushed /\ j \notin DOMAIN pushed
        BY <1>5, <2>8, <3>4
      <3> QED BY <3>1, <3>2, <3>3, <3>4
    <2> HIDE DEF m
    <2> QED BY <1>2, <2>6, <2>8 DEF ListedInv, NamesListedOnce, Directory, FileNamed
  <1> QED BY <1>8, <1>9, <1>10 DEF ReaddirInv

\* A read that finds nothing ends the stream.
LEMMA LastRead ==
    ASSUME ReaddirInv, Read, PrefixRange(prev) = {}
    PROVE  ReaddirInv'
  <1>1. ended' = TRUE /\ UNCHANGED <<prev, prevName, pushed, files, always, ever>>
    BY DEF Read
  <1>2. StreamInv'
    BY <1>1 DEF ReaddirInv, StreamInv, TypeOK, Listed
  <1>3. PassedInv'
    BY <1>1 DEF ReaddirInv, PassedInv, PrefixRange, Listed
  <1>4. ListedInv'
    BY <1>1 DEF ReaddirInv, ListedInv, NamesListedOnce
  <1> QED BY <1>2, <1>3, <1>4 DEF ReaddirInv

\* What comes or goes meanwhile was not there from the start, or is no longer.
LEMMA UpdateStep ==
    ASSUME ReaddirInv, Update
    PROVE  ReaddirInv'
  <1>1. PICK k \in Keys :
           /\ files' = IF k \in files THEN files \ {k} ELSE files \cup {k}
           /\ always' = always \cap files' /\ ever' = ever \cup files'
    BY DEF Update
  <1>2. UNCHANGED <<prev, prevName, pushed, ended>> /\ ~ended
    BY DEF Update
  <1>3. IsFiniteSet(files')
    BY <1>1, FS_AddElement, FS_RemoveElement DEF ReaddirInv, StreamInv
  <1>4. files' \subseteq Keys /\ always' \subseteq always /\ ever \subseteq ever' /\ ever' \subseteq Keys
    BY <1>1 DEF ReaddirInv, StreamInv, TypeOK
  <1>5. StreamInv'
    <2>1. TypeOK'
      BY <1>1, <1>2, <1>4 DEF ReaddirInv, StreamInv, TypeOK
    <2> QED BY <1>2, <1>3, <2>1 DEF ReaddirInv, StreamInv, Listed
  <1>6. PassedInv'
    <2>1. \A j : HiddenBy(ever, j) => HiddenBy(ever', j)
      BY <1>4 DEF HiddenBy
    <2>2. \A j \in always : InFolder(j) /\ ~HiddenBy(ever, j) => Listed(Name[j]) \/ Below(prev, j)
      BY DEF ReaddirInv, PassedInv
    <2>3. \A j \in always' : InFolder(j) /\ ~HiddenBy(ever', j) => Listed(Name[j])' \/ Below(prev', j)
      BY <1>2, <1>4, <2>1, <2>2 DEF Listed
    <2> QED BY <1>2, <2>3 DEF PassedInv
  <1>7. ListedInv'
    <2>1. \A x : (Directory(ever, x) => Directory(ever', x)) /\ (FileNamed(ever, x) => FileNamed(ever', x))
      BY <1>4 DEF Directory, FileNamed
    <2> QED BY <1>2, <2>1 DEF ReaddirInv, ListedInv, NamesListedOnce
  <1> QED BY <1>5, <1>6, <1>7 DEF ReaddirInv

\* Every step keeps the invariant of a listing.
LEMMA ReaddirNext == ReaddirInv /\ [Next]_vars => ReaddirInv'
  <1> SUFFICES ASSUME ReaddirInv, [Next]_vars PROVE ReaddirInv'
    OBVIOUS
  <1>1. CASE UNCHANGED vars
    BY <1>1 DEF vars, ReaddirInv, StreamInv, PassedInv, ListedInv, TypeOK, Listed, PrefixRange,
                NamesListedOnce
  <1> QED BY <1>1, ReadStep, LastRead, UpdateStep DEF Next

-----------------------------------------------------------------------------
(***************************************************************************)
(* The theorems.                                                           *)
(***************************************************************************)
\* The invariant of a listing holds throughout: what has been there from the
\* start is listed or still to come, and the stream is past all it has listed.
THEOREM ReaddirInvariance == Spec => []ReaddirInv
  BY ReaddirInit, ReaddirNext, PTL DEF Spec

\* The variables of a listing have their types: whatever readdir() lists was in
\* the folder at some time since it began.
THEOREM ReaddirTypeCorrect == Spec => []TypeOK
  <1>1. ReaddirInv => TypeOK
    BY DEF ReaddirInv, StreamInv
  <1> QED BY <1>1, ReaddirInvariance, PTL

\* readdir() passes over nothing that stays in the folder while it lists, for
\* every set of keys and all that comes and goes meanwhile, except for a file
\* whose key is the bound past a directory.
THEOREM ListingIsComplete == Spec => []NothingPassedOver
  <1>1. ReaddirInv => NothingPassedOver
    <2> SUFFICES ASSUME ReaddirInv, ended, NEW k \in always, InFolder(k), ~HiddenBy(ever, k)
                 PROVE  Listed(Name[k])
      BY DEF NothingPassedOver
    <2>1. k \in Keys /\ k \in files /\ prev \in Bounds
      BY DEF ReaddirInv, StreamInv, TypeOK
    <2>2. CASE Below(prev, k)
      <3>1. k \in PrefixRange(prev)
        BY <2>1, <2>2, FolderIsRange DEF PrefixRange, Beyond
      <3> QED BY <3>1 DEF ReaddirInv, PassedInv
    <2> QED BY <2>2 DEF ReaddirInv, PassedInv
  <1> QED BY <1>1, ReaddirInvariance, PTL

\* readdir() lists no name twice, unless it was that of a file and of a
\* directory.
THEOREM ListingHasNoRepeats == Spec => []NamesListedOnce
  <1>1. ReaddirInv => NamesListedOnce
    BY DEF ReaddirInv, ListedInv
  <1> QED BY <1>1, ReaddirInvariance, PTL

\* Whatever comes and goes between two reads, each goes on strictly behind the
\* last one or ends the listing.
THEOREM ReadsGoOn == Spec => ReadsMoveOn
  <1>1. ReaddirInv /\ [Next]_vars => [Read => ended' \/ Below(prev, prev')]_vars
    <2> SUFFICES ASSUME ReaddirInv, Read, ~ended' PROVE Below(prev, prev')
      OBVIOUS
    <2> DEFINE k == Peek(PrefixRange(prev))
    <2>1. PrefixRange(prev) # {} /\ prev' = Bound(k)
      BY DEF Read, Advance
    <2>2. Below(prev, Bound(k))
      BY <2>1, PeekFinds
    <2> QED BY <2>1, <2>2
  <1> QED BY <1>1, ReaddirInvariance, PTL DEF Spec, ReadsMoveOn
=============================================================================
