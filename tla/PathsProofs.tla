---------------------------- MODULE PathsProofs ----------------------------
(***************************************************************************)
(* What Strip and Matches do to paths of any length.                       *)
(***************************************************************************)
EXTENDS Paths, SequenceTheorems, WellFoundedInduction, TLAPS

\* Of numbers that are bounded, one is the largest.
LEMMA LargestExists ==
  ASSUME NEW b \in Nat, NEW S \in SUBSET (0 .. b), S # {}
  PROVE  \E n \in S : \A m \in S : m <= n
<1> DEFINE R == {p \in Nat \X Nat : p[1] < p[2]}
           T == {k \in Nat : k <= b /\ b - k \in S}
<1>1. IsWellFoundedOn(R, Nat)
  BY NatLessThanWellFounded DEF OpToRel
<1>2. T \subseteq Nat /\ T # {}
  <2>1. PICK s \in S : TRUE
    OBVIOUS
  <2>2. b - s \in T
    BY <2>1
  <2> QED BY <2>2
<1>3. PICK k \in T : \A l \in T : <<l, k>> \notin R
  <2> HIDE DEF R, T
  <2> QED BY <1>1, <1>2, WFMin
<1>4. b - k \in S
  BY <1>3
<1>5. ASSUME NEW m \in S PROVE m <= b - k
  <2>1. m \in 0 .. b /\ k \in Nat /\ b - m \in Nat
    BY <1>3
  <2>2. b - m \in T
    BY <2>1
  <2>3. ~(b - m < k)
    <3>1. SUFFICES ASSUME b - m < k PROVE FALSE
      OBVIOUS
    <3>2. <<b - m, k>> \in R
      BY <2>1, <3>1
    <3> QED BY <1>3, <2>2, <3>2
  <2> QED BY <2>1, <2>3
<1> QED BY <1>4, <1>5

\* Strip returns a path that the given one begins with, and no empty one of
\* one that is not empty: the dispatcher pops the slashes at the end but one.
LEMMA StripIsPrefix ==
  ASSUME NEW S, NEW path \in Seq(S)
  PROVE  /\ Strip(path) \in Seq(S) /\ Len(Strip(path)) <= Len(path)
         /\ \A i \in 1 .. Len(Strip(path)) : Strip(path)[i] = path[i]
         /\ path # <<>> => Strip(path) # <<>> /\ Strip(path)[1] = path[1]
<1>1. CASE path = <<>>
  BY <1>1 DEF Strip
<1>2. CASE path # <<>>
  <2> DEFINE ends == {n \in 1 .. Len(path) : n = 1 \/ path[n] # "/"}
             last == CHOOSE n \in ends : \A m \in ends : m <= n
             prefix == SubSeq(path, 1, last)
  <2>1. Len(path) \in Nat \ {0}
    BY <1>2, EmptySeq
  <2>2. ends \in SUBSET (0 .. Len(path)) /\ ends # {}
    BY <2>1
  <2>3. last \in ends
    <3> HIDE DEF ends
    <3> QED BY <2>1, <2>2, LargestExists
  <2>4. last \in 1 .. Len(path)
    <3> HIDE DEF last
    <3> QED BY <2>3
  <2> HIDE DEF last
  <2>5. \A i \in 1 .. last : path[i] \in S
    BY <2>1, <2>4, ElementOfSeq
  <2>6. /\ prefix \in Seq(S)
        /\ Len(prefix) = IF 1 <= last THEN last - 1 + 1 ELSE 0
        /\ \A i \in 1 .. last - 1 + 1 : prefix[i] = path[1 + i - 1]
    BY <2>4, <2>5, SubSeqProperties, 1 \in Int, last \in Int
  <2> HIDE DEF prefix
  <2>7. Len(prefix) = last
    BY <2>4, <2>6
  <2>8. \A i \in 1 .. last : prefix[i] = path[i]
    <3> SUFFICES ASSUME NEW i \in 1 .. last PROVE prefix[i] = path[i]
      OBVIOUS
    <3>1. i \in 1 .. last - 1 + 1 /\ 1 + i - 1 = i
      BY <2>4
    <3> QED BY <2>6, <3>1
  <2>9. Strip(path) = prefix
    BY <1>2 DEF Strip, prefix, last
  <2>10. Len(Strip(path)) = last /\ last <= Len(path) /\ 1 \in 1 .. last
    BY <2>1, <2>4, <2>7, <2>9
  <2> QED BY <2>6, <2>8, <2>9, <2>10
<1> QED BY <1>1, <1>2

\* The first element of a sequence, as a sequence.
LEMMA FirstAlone ==
  ASSUME NEW S, NEW s \in Seq(S), s # <<>>
  PROVE  SubSeq(s, 1, 1) = <<s[1]>>
<1>1. Len(s) \in Nat \ {0}
  BY EmptySeq
<1>2. \A i \in 1 .. 1 : s[i] \in S
  BY <1>1, ElementOfSeq
<1> DEFINE first == SubSeq(s, 1, 1)
<1>3. /\ first \in Seq(S) /\ Len(first) = IF 1 <= 1 THEN 1 - 1 + 1 ELSE 0
      /\ \A i \in 1 .. 1 - 1 + 1 : first[i] = s[1 + i - 1]
  BY <1>2, SubSeqProperties, 1 \in Int
<1> HIDE DEF first
<1>4. Len(first) = 1 /\ first[1] = s[1]
  BY <1>3
<1>5. first = <<s[1]>>
  BY <1>3, <1>4
<1> QED BY <1>5 DEF first

\* The 404 handler's "/" matches whatever begins with a slash.
LEMMA RootMatches ==
  ASSUME NEW S, NEW path \in Seq(S), path # <<>>, path[1] = "/"
  PROVE  Matches(Root, path)
<1>1. Len(path) \in Nat \ {0}
  BY EmptySeq
<1>2. SubSeq(path, 1, 1) = <<"/">>
  BY FirstAlone
<1>3. Len(<<"/">>) = 1
  OBVIOUS
<1> QED BY <1>1, <1>2, <1>3 DEF Matches, Root

\* What matches a path is no longer than it.
LEMMA MatchIsNoLonger ==
  ASSUME NEW key, NEW path, Matches(key, path)
  PROVE  Len(key) <= Len(path)
  BY DEF Matches

\* A part of a sequence, within its bounds.
LEMMA PartOfSeq ==
  ASSUME NEW S, NEW s \in Seq(S), NEW m \in Nat \ {0}, NEW n \in Nat, m <= n + 1, n <= Len(s)
  PROVE  /\ SubSeq(s, m, n) \in Seq(S) /\ Len(SubSeq(s, m, n)) = n - m + 1
         /\ \A i \in 1 .. n - m + 1 : SubSeq(s, m, n)[i] = s[m + i - 1]
<1>1. m \in Int /\ n \in Int /\ Len(s) \in Nat
  OBVIOUS
<1>2. \A i \in m .. n : s[i] \in S
  <2> SUFFICES ASSUME NEW i \in m .. n PROVE s[i] \in S
    OBVIOUS
  <2>1. i \in 1 .. Len(s)
    BY <1>1
  <2> QED BY <2>1, ElementOfSeq
<1>3. /\ SubSeq(s, m, n) \in Seq(S) /\ Len(SubSeq(s, m, n)) = IF m <= n THEN n - m + 1 ELSE 0
      /\ \A i \in 1 .. n - m + 1 : SubSeq(s, m, n)[i] = s[m + i - 1]
  BY <1>1, <1>2, SubSeqProperties
<1>4. (IF m <= n THEN n - m + 1 ELSE 0) = n - m + 1
  BY <1>1
<1> QED BY <1>3, <1>4

\* The key that the dispatcher finds for a stripped target is what the target
\* itself begins with, slashes at its end or not.
LEMMA MatchIsPrefix ==
  ASSUME NEW S, NEW key \in Seq(S), NEW path \in Seq(S), Matches(key, Strip(path))
  PROVE  Len(key) <= Len(path) /\ \A i \in 1 .. Len(key) : path[i] = key[i]
<1> DEFINE stripped == Strip(path)
<1>1. /\ stripped \in Seq(S) /\ Len(stripped) <= Len(path)
      /\ \A i \in 1 .. Len(stripped) : stripped[i] = path[i]
  BY StripIsPrefix
<1>2. Len(key) <= Len(stripped) /\ SubSeq(stripped, 1, Len(key)) = key
  BY DEF Matches
<1> HIDE DEF stripped
<1>3. Len(key) \in Nat /\ Len(stripped) \in Nat /\ Len(path) \in Nat
  BY <1>1
<1>4. \A i \in 1 .. Len(key) - 1 + 1 : SubSeq(stripped, 1, Len(key))[i] = stripped[1 + i - 1]
  BY <1>1, <1>2, <1>3, PartOfSeq, 1 \in Nat \ {0}, 1 <= Len(key) + 1
<1>5. ASSUME NEW i \in 1 .. Len(key) PROVE path[i] = key[i]
  <2>1. i \in 1 .. Len(key) - 1 + 1 /\ 1 + i - 1 = i /\ i \in 1 .. Len(stripped)
    BY <1>2, <1>3
  <2> QED BY <1>1, <1>2, <1>4, <2>1
<1> QED BY <1>1, <1>2, <1>3, <1>5

\* A sequence is what it begins with, followed by the rest.
LEMMA PrefixAndRest ==
  ASSUME NEW S, NEW key \in Seq(S), NEW path \in Seq(S), Len(key) <= Len(path),
         \A i \in 1 .. Len(key) : path[i] = key[i]
  PROVE  /\ path = key \o SubSeq(path, Len(key) + 1, Len(path))
         /\ Len(SubSeq(path, Len(key) + 1, Len(path))) = Len(path) - Len(key)
         /\ \A i \in 1 .. Len(path) - Len(key) :
              SubSeq(path, Len(key) + 1, Len(path))[i] = path[Len(key) + i]
<1> DEFINE k == Len(key)
           n == Len(path)
           rest == SubSeq(path, k + 1, n)
<1>1. k \in Nat /\ n \in Nat /\ k <= n
  OBVIOUS
<1> HIDE DEF k, n
<1>2. /\ rest \in Seq(S) /\ Len(rest) = n - (k + 1) + 1
      /\ \A i \in 1 .. n - (k + 1) + 1 : rest[i] = path[k + 1 + i - 1]
  BY <1>1, PartOfSeq, k + 1 \in Nat \ {0}, k + 1 <= n + 1, n <= Len(path) DEF n
<1> HIDE DEF rest
<1>3. Len(rest) = n - k /\ \A i \in 1 .. n - k : rest[i] = path[k + i]
  <2>1. n - (k + 1) + 1 = n - k /\ \A i \in 1 .. n - k : k + 1 + i - 1 = k + i
    BY <1>1
  <2> QED BY <1>2, <2>1
<1>4. /\ key \o rest \in Seq(S) /\ Len(key \o rest) = k + Len(rest)
      /\ \A i \in 1 .. k + Len(rest) :
           (key \o rest)[i] = IF i <= k THEN key[i] ELSE rest[i - k]
  <2>1. Len(key) = k
    BY DEF k
  <2> QED BY <1>2, <2>1, ConcatProperties
<1> DEFINE whole == key \o rest
<1> HIDE DEF whole
<1>5. Len(path) = Len(whole)
  BY <1>1, <1>3, <1>4 DEF whole, n
<1>6. ASSUME NEW i \in 1 .. Len(path) PROVE path[i] = whole[i]
  <2>1. i \in Int /\ 1 <= i /\ i <= n /\ i \in 1 .. k + Len(rest)
    BY <1>1, <1>3 DEF n
  <2>2. CASE i <= k
    <3>1. i \in 1 .. k
      BY <1>1, <2>1, <2>2
    <3> QED BY <1>4, <2>1, <2>2, <3>1 DEF whole, k
  <2>3. CASE ~(i <= k)
    <3>1. i - k \in 1 .. n - k /\ k + (i - k) = i
      BY <1>1, <2>1, <2>3
    <3> QED BY <1>3, <1>4, <2>1, <2>3, <3>1 DEF whole
  <2> QED BY <2>2, <2>3
<1>7. path = whole
  <2>1. whole \in Seq(S)
    BY <1>4 DEF whole
  <2> QED BY <1>5, <1>6, <2>1, SeqEqual
<1> QED BY <1>3, <1>7 DEF whole, rest, k, n
=============================================================================
