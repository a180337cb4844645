--------------------------- MODULE Matcher_proofs ---------------------------
(***************************************************************************)
(* Proofs about Matcher, for every keyword and every name, of any length   *)
(* and over any characters: what find_matches_in_memory says it does ("all *)
(* words regardless of order", matcher.py:47) and its tests try on a few   *)
(* examples.                                                               *)
(***************************************************************************)
EXTENDS Matcher, SequenceTheorems, NaturalsInduction, WellFoundedInduction, TLAPS

----------------------------------------------------------------------------
(* Texts.                                                                  *)

WordsOf(t) ==
    {SubSeq(t, p[1], p[2]) : p \in {q \in (1..Len(t)) \X (1..Len(t)) : IsWord(t, q[1], q[2])}}

\* Two texts with a character between them.
Joined(a, c, b) == a \o <<c>> \o b

LEMMA TextFacts ==
  ASSUME NEW t \in Text
  PROVE  /\ Len(t) \in Nat /\ DOMAIN t = 1..Len(t)
         /\ \A n \in 1..Len(t) : t[n] \in Chars
  BY LenProperties, ElementOfSeq DEF Text

LEMMA LowerFacts ==
  ASSUME NEW t \in Text
  PROVE  /\ LowerText(t) \in Text /\ Len(LowerText(t)) = Len(t)
         /\ \A n \in 1..Len(t) : LowerText(t)[n] = Lower[t[n]]
         /\ LowerText(LowerText(t)) = LowerText(t)
  <1>1. Len(t) \in Nat /\ \A n \in 1..Len(t) : t[n] \in Chars
    BY TextFacts
  <1>2. LowerText(t) \in [1..Len(t) -> Chars]
    BY <1>1, MatcherAssumption DEF LowerText, MatcherAssumption
  <1>3. LowerText(t) \in Text
    BY <1>1, <1>2, SeqDef DEF Text
  <1>4. Len(LowerText(t)) = Len(t)
    BY <1>1, <1>2, <1>3, LenProperties DEF Text
  <1>5. LowerText(LowerText(t)) = [n \in 1..Len(t) |-> Lower[LowerText(t)[n]]]
    BY <1>4 DEF LowerText
  <1>6. \A n \in 1..Len(t) : LowerText(t)[n] = Lower[t[n]]
    BY DEF LowerText
  <1>7. \A n \in 1..Len(t) : Lower[LowerText(t)[n]] = Lower[t[n]]
    BY <1>1, <1>6, MatcherAssumption DEF MatcherAssumption
  <1>8. LowerText(LowerText(t)) = LowerText(t)
    BY <1>5, <1>7 DEF LowerText
  <1>9. QED
    BY <1>3, <1>4, <1>6, <1>8

LEMMA JoinedFacts ==
  ASSUME NEW a \in Text, NEW b \in Text, NEW c \in Chars
  PROVE  /\ Joined(a, c, b) \in Text /\ Len(Joined(a, c, b)) = Len(a) + 1 + Len(b)
         /\ Len(a) \in Nat /\ Len(b) \in Nat
         /\ \A n \in 1..Len(a) : Joined(a, c, b)[n] = a[n]
         /\ Joined(a, c, b)[Len(a) + 1] = c
         /\ \A n \in 1..Len(b) : Joined(a, c, b)[Len(a) + 1 + n] = b[n]
  <1> DEFINE ac == a \o <<c>>
  <1>1. <<c>> \in Seq(Chars) /\ Len(<<c>>) = 1 /\ <<c>>[1] = c
    OBVIOUS
  <1>2. Len(a) \in Nat /\ Len(b) \in Nat
    BY TextFacts
  <1>3. /\ ac \in Seq(Chars) /\ Len(ac) = Len(a) + 1
        /\ \A n \in 1..(Len(a) + 1) : ac[n] = IF n <= Len(a) THEN a[n] ELSE <<c>>[n - Len(a)]
    BY <1>1, ConcatProperties DEF Text
  <1>4. /\ ac \o b \in Seq(Chars) /\ Len(ac \o b) = Len(ac) + Len(b)
        /\ \A n \in 1..(Len(ac) + Len(b)) : (ac \o b)[n] = IF n <= Len(ac) THEN ac[n] ELSE b[n - Len(ac)]
    BY <1>3, ConcatProperties DEF Text
  <1>5. \A n \in 1..Len(a) : (ac \o b)[n] = a[n]
    <2> SUFFICES ASSUME NEW n \in 1..Len(a) PROVE (ac \o b)[n] = a[n]
      OBVIOUS
    <2>1. n \in 1..(Len(a) + 1) /\ n <= Len(a) /\ n \in 1..(Len(ac) + Len(b)) /\ n <= Len(ac)
      BY <1>2, <1>3
    <2>2. QED
      BY <1>3, <1>4, <2>1
  <1>6. (ac \o b)[Len(a) + 1] = c
    <2>1. Len(a) + 1 \in 1..(Len(a) + 1) /\ ~(Len(a) + 1 <= Len(a)) /\ (Len(a) + 1) - Len(a) = 1
          /\ Len(a) + 1 \in 1..(Len(ac) + Len(b)) /\ Len(a) + 1 <= Len(ac)
      BY <1>2, <1>3
    <2>2. QED
      BY <1>1, <1>3, <1>4, <2>1
  <1>7. \A n \in 1..Len(b) : (ac \o b)[Len(a) + 1 + n] = b[n]
    <2> SUFFICES ASSUME NEW n \in 1..Len(b) PROVE (ac \o b)[Len(a) + 1 + n] = b[n]
      OBVIOUS
    <2>1. Len(a) + 1 + n \in 1..(Len(ac) + Len(b)) /\ ~(Len(a) + 1 + n <= Len(ac))
          /\ (Len(a) + 1 + n) - Len(ac) = n
      BY <1>2, <1>3
    <2>2. QED
      BY <1>4, <2>1
  <1>8. QED
    BY <1>2, <1>3, <1>4, <1>5, <1>6, <1>7 DEF Joined, Text

\* Lower case, character by character.
LEMMA LowerJoined ==
  ASSUME NEW a \in Text, NEW b \in Text, NEW c \in Chars
  PROVE  LowerText(Joined(a, c, b)) = Joined(LowerText(a), Lower[c], LowerText(b))
  <1> DEFINE j == Joined(a, c, b)
             la == LowerText(a)
             lb == LowerText(b)
             lc == Lower[c]
             x == LowerText(j)
             y == Joined(la, lc, lb)
  <1>1. lc \in Chars
    BY MatcherAssumption DEF MatcherAssumption
  <1>2. /\ j \in Text /\ Len(j) = Len(a) + 1 + Len(b) /\ Len(a) \in Nat /\ Len(b) \in Nat
        /\ \A n \in 1..Len(a) : j[n] = a[n]
        /\ j[Len(a) + 1] = c
        /\ \A n \in 1..Len(b) : j[Len(a) + 1 + n] = b[n]
    BY JoinedFacts
  <1>3. /\ la \in Text /\ Len(la) = Len(a) /\ \A n \in 1..Len(a) : la[n] = Lower[a[n]]
        /\ lb \in Text /\ Len(lb) = Len(b) /\ \A n \in 1..Len(b) : lb[n] = Lower[b[n]]
    BY LowerFacts
  <1>0. lc = Lower[c]
    OBVIOUS
  <1> HIDE DEF j, la, lb, lc
  <1>4. x \in Text /\ Len(x) = Len(j) /\ \A n \in 1..Len(j) : x[n] = Lower[j[n]]
    BY <1>2, LowerFacts
  <1>5. /\ y \in Text /\ Len(y) = Len(la) + 1 + Len(lb)
        /\ \A n \in 1..Len(la) : y[n] = la[n]
        /\ y[Len(la) + 1] = lc
        /\ \A n \in 1..Len(lb) : y[Len(la) + 1 + n] = lb[n]
    <2>1. la \in Text /\ lb \in Text /\ lc \in Chars
      BY <1>1, <1>3
    <2>2. QED
      BY <2>1, JoinedFacts
  <1> HIDE DEF x, y
  <1>6. ASSUME NEW n \in 1..Len(x) PROVE x[n] = y[n]
    <2>1. n \in 1..Len(a) \/ n = Len(a) + 1 \/ \E k \in 1..Len(b) : n = Len(a) + 1 + k
      <3>1. n - (Len(a) + 1) \in 1..Len(b) => n = Len(a) + 1 + (n - (Len(a) + 1))
        BY <1>2, <1>4
      <3>2. n \in 1..Len(a) \/ n = Len(a) + 1 \/ n - (Len(a) + 1) \in 1..Len(b)
        BY <1>2, <1>4
      <3>3. QED
        BY <3>1, <3>2
    <2>2. x[n] = Lower[j[n]]
      BY <1>4
    <2>3. CASE n \in 1..Len(a)
      <3>1. y[n] = la[n]
        BY <1>3, <1>5, <2>3
      <3>2. QED
        BY <1>2, <1>3, <2>2, <2>3, <3>1
    <2>4. CASE n = Len(a) + 1
      <3>1. y[n] = lc
        BY <1>3, <1>5, <2>4
      <3>2. QED
        BY <1>0, <1>2, <2>2, <2>4, <3>1
    <2>5. ASSUME NEW k \in 1..Len(b), n = Len(a) + 1 + k
          PROVE  x[n] = y[n]
      <3>1. y[n] = lb[k]
        BY <1>3, <1>5, <2>5
      <3>2. QED
        BY <1>2, <1>3, <2>2, <2>5, <3>1
    <2>6. QED
      BY <2>1, <2>3, <2>4, <2>5
  <1>7. Len(x) = Len(y)
    BY <1>2, <1>3, <1>4, <1>5
  <1>8. x = y
    BY <1>4, <1>5, <1>6, <1>7, SeqEqual DEF Text
  <1>9. QED
    BY <1>8 DEF x, y, j, la, lb, lc

----------------------------------------------------------------------------
(* Words.                                                                  *)

LEMMA WordFacts ==
  ASSUME NEW t \in Text, NEW i \in 1..Len(t), NEW j \in 1..Len(t), IsWord(t, i, j)
  PROVE  /\ SubSeq(t, i, j) \in Text /\ Len(SubSeq(t, i, j)) = j - i + 1 /\ i <= j
         /\ \A n \in 1..(j - i + 1) : SubSeq(t, i, j)[n] = t[i + n - 1] /\ t[i + n - 1] \notin Space
  <1>1. Len(t) \in Nat /\ i \in Int /\ j \in Int /\ i <= j
    BY TextFacts DEF IsWord
  <1>2. \A n \in i..j : t[n] \in Chars
    BY <1>1, TextFacts
  <1>3. /\ SubSeq(t, i, j) \in Seq(Chars) /\ Len(SubSeq(t, i, j)) = j - i + 1
        /\ \A n \in 1..(j - i + 1) : SubSeq(t, i, j)[n] = t[i + n - 1]
    BY <1>1, <1>2, SubSeqProperties
  <1>4. \A n \in 1..(j - i + 1) : i + n - 1 \in i..j
    BY <1>1
  <1>5. QED
    BY <1>1, <1>3, <1>4 DEF Text, IsWord

\* What WordsOf holds.
LEMMA WordsOfFacts ==
  ASSUME NEW t \in Text, NEW w
  PROVE  w \in WordsOf(t) <=> \E i, j \in 1..Len(t) : IsWord(t, i, j) /\ w = SubSeq(t, i, j)
  <1> DEFINE Pairs == {q \in (1..Len(t)) \X (1..Len(t)) : IsWord(t, q[1], q[2])}
  <1>1. ASSUME w \in WordsOf(t)
        PROVE  \E i, j \in 1..Len(t) : IsWord(t, i, j) /\ w = SubSeq(t, i, j)
    <2>1. PICK p \in Pairs : w = SubSeq(t, p[1], p[2])
      BY <1>1 DEF WordsOf
    <2>2. p[1] \in 1..Len(t) /\ p[2] \in 1..Len(t) /\ IsWord(t, p[1], p[2])
      OBVIOUS
    <2>3. QED
      BY <2>1, <2>2
  <1>2. ASSUME NEW i \in 1..Len(t), NEW j \in 1..Len(t), IsWord(t, i, j), w = SubSeq(t, i, j)
        PROVE  w \in WordsOf(t)
    <2>1. <<i, j>> \in Pairs /\ <<i, j>>[1] = i /\ <<i, j>>[2] = j
      BY <1>2
    <2>2. QED
      BY <1>2, <2>1 DEF WordsOf
  <1>3. QED
    BY <1>1, <1>2

LEMMA WordsAreOf ==
  ASSUME NEW k \in Text
  PROVE  Words(k) = WordsOf(LowerText(k))
  BY DEF Words, WordsOf

\* The same stretch of two texts.
LEMMA SameStretch ==
  ASSUME NEW s \in Text, NEW t \in Text, NEW d \in Int,
         NEW i \in 1..Len(s), NEW j \in 1..Len(s), i <= j, i + d \in 1..Len(t), j + d \in 1..Len(t),
         \A n \in i..j : s[n] = t[n + d]
  PROVE  SubSeq(s, i, j) = SubSeq(t, i + d, j + d)
  <1>1. Len(s) \in Nat /\ Len(t) \in Nat
    BY TextFacts
  <1>2. \A n \in i..j : s[n] \in Chars
    BY <1>1, TextFacts
  <1>3. \A n \in (i + d)..(j + d) : t[n] \in Chars
    BY <1>1, TextFacts
  <1>4. /\ SubSeq(s, i, j) \in Seq(Chars) /\ Len(SubSeq(s, i, j)) = j - i + 1
        /\ \A n \in 1..(j - i + 1) : SubSeq(s, i, j)[n] = s[i + n - 1]
    BY <1>1, <1>2, SubSeqProperties
  <1>5. /\ SubSeq(t, i + d, j + d) \in Seq(Chars) /\ Len(SubSeq(t, i + d, j + d)) = (j + d) - (i + d) + 1
        /\ \A n \in 1..((j + d) - (i + d) + 1) : SubSeq(t, i + d, j + d)[n] = t[(i + d) + n - 1]
    <2>1. i + d \in Int /\ j + d \in Int /\ i + d <= j + d
      BY <1>1
    <2>2. QED
      BY <1>3, <2>1, SubSeqProperties
  <1>6. (j + d) - (i + d) + 1 = j - i + 1
    BY <1>1
  <1>7. ASSUME NEW n \in 1..(j - i + 1)
        PROVE  SubSeq(s, i, j)[n] = SubSeq(t, i + d, j + d)[n]
    <2>1. i + n - 1 \in i..j /\ (i + d) + n - 1 = (i + n - 1) + d
      BY <1>1
    <2>2. QED
      BY <1>4, <1>5, <1>6, <2>1
  <1> DEFINE x == SubSeq(s, i, j)
             y == SubSeq(t, i + d, j + d)
  <1>8. x \in Seq(Chars) /\ y \in Seq(Chars) /\ Len(x) = Len(y) /\ \A n \in 1..Len(x) : x[n] = y[n]
    BY <1>4, <1>5, <1>6, <1>7
  <1> HIDE DEF x, y
  <1>9. x = y
    BY <1>8, SeqEqual
  <1>10. QED
    BY <1>9 DEF x, y

\* A keyword of two parts has the words of both.
LEMMA WordsOfJoined ==
  ASSUME NEW a \in Text, NEW b \in Text, NEW c \in Space
  PROVE  WordsOf(Joined(a, c, b)) = WordsOf(a) \cup WordsOf(b)
  <1> DEFINE t == Joined(a, c, b)
             m == Len(a) + 1
  <1>1. c \in Chars
    BY MatcherAssumption DEF MatcherAssumption
  <1>2. /\ t \in Text /\ Len(t) = m + Len(b) /\ Len(a) \in Nat /\ Len(b) \in Nat
        /\ \A n \in 1..Len(a) : t[n] = a[n]
        /\ t[m] \in Space
        /\ \A n \in 1..Len(b) : t[m + n] = b[n]
    BY <1>1, JoinedFacts
  <1> HIDE DEF t
  \* A word of either part is one of the whole.
  <1>3. ASSUME NEW i \in 1..Len(a), NEW j \in 1..Len(a), i <= j
        PROVE  /\ IsWord(a, i, j) <=> IsWord(t, i, j)
               /\ SubSeq(a, i, j) = SubSeq(t, i, j)
    <2>1. i \in 1..Len(t) /\ j \in 1..Len(t) /\ i + 0 = i /\ j + 0 = j /\ 0 \in Int
      BY <1>2
    <2>2. \A n \in i..j : a[n] = t[n + 0] /\ a[n] = t[n]
      BY <1>2
    <2>3. SubSeq(a, i, j) = SubSeq(t, i, j)
      BY <1>2, <1>3, <2>1, <2>2, SameStretch
    <2>4. i > 1 => a[i - 1] = t[i - 1]
      BY <1>2
    <2>5. CASE j < Len(a)
      <3>1. a[j + 1] = t[j + 1] /\ j < Len(t)
        BY <1>2, <2>5
      <3>2. QED
        BY <2>2, <2>3, <2>4, <2>5, <3>1 DEF IsWord
    <2>6. CASE j = Len(a)
      <3>1. j + 1 = m /\ j < Len(t)
        BY <1>2, <2>6
      <3>2. t[j + 1] \in Space /\ ~(j < Len(a))
        BY <1>2, <2>6, <3>1
      <3>3. QED
        BY <2>2, <2>3, <2>4, <3>2 DEF IsWord
    <2>7. QED
      BY <1>2, <2>5, <2>6
  <1>4. ASSUME NEW i \in 1..Len(b), NEW j \in 1..Len(b), i <= j
        PROVE  /\ i + m \in 1..Len(t) /\ j + m \in 1..Len(t)
               /\ IsWord(b, i, j) <=> IsWord(t, i + m, j + m)
               /\ SubSeq(b, i, j) = SubSeq(t, i + m, j + m)
    <2>1. i + m \in 1..Len(t) /\ j + m \in 1..Len(t) /\ m \in Int /\ i + m <= j + m /\ i + m > 1
      BY <1>2, <1>4
    <2>2. \A n \in i..j : b[n] = t[n + m]
      <3> SUFFICES ASSUME NEW n \in i..j PROVE b[n] = t[n + m]
        OBVIOUS
      <3>1. n \in 1..Len(b) /\ m + n = n + m
        BY <1>2
      <3>2. QED
        BY <1>2, <3>1
    <2>3. SubSeq(b, i, j) = SubSeq(t, i + m, j + m)
      BY <1>2, <1>4, <2>1, <2>2, SameStretch
    <2>4. (\A n \in i..j : b[n] \notin Space) <=> (\A n \in (i + m)..(j + m) : t[n] \notin Space)
      <3>1. \A n \in (i + m)..(j + m) : n - m \in i..j /\ (n - m) + m = n
        BY <1>2
      <3>2. \A n \in i..j : n + m \in (i + m)..(j + m)
        BY <1>2
      <3>3. QED
        BY <2>2, <3>1, <3>2
    <2>5. (i > 1 => b[i - 1] \in Space) <=> t[(i + m) - 1] \in Space
      <3>1. CASE i = 1
        <4>1. (i + m) - 1 = m
          BY <1>2, <3>1
        <4>2. QED
          BY <1>2, <3>1, <4>1
      <3>2. CASE i > 1
        <4>1. i - 1 \in 1..Len(b) /\ (i + m) - 1 = m + (i - 1)
          BY <1>2, <3>2
        <4>2. QED
          BY <1>2, <3>2, <4>1
      <3>3. QED
        BY <3>1, <3>2
    <2>6. (j < Len(b) => b[j + 1] \in Space) <=> (j + m < Len(t) => t[(j + m) + 1] \in Space)
      <3>1. j < Len(b) <=> j + m < Len(t)
        BY <1>2
      <3>2. j < Len(b) => j + 1 \in 1..Len(b) /\ (j + m) + 1 = m + (j + 1)
        BY <1>2
      <3>3. QED
        BY <1>2, <3>1, <3>2
    <2>7. QED
      BY <1>4, <2>1, <2>3, <2>4, <2>5, <2>6 DEF IsWord
  \* A word of the whole does not reach over the space.
  <1>5. ASSUME NEW w \in WordsOf(t) PROVE w \in WordsOf(a) \cup WordsOf(b)
    <2>1. PICK i \in 1..Len(t), j \in 1..Len(t) : IsWord(t, i, j) /\ w = SubSeq(t, i, j)
      BY <1>2, WordsOfFacts
    <2>2. i <= j /\ m \notin i..j
      BY <1>2, <2>1 DEF IsWord
    <2>3. CASE j <= Len(a)
      <3>1. i \in 1..Len(a) /\ j \in 1..Len(a)
        BY <1>2, <2>2, <2>3
      <3>2. QED
        BY <1>3, <2>1, <2>2, <3>1, WordsOfFacts
    <2>4. CASE i > m
      <3>1. i - m \in 1..Len(b) /\ j - m \in 1..Len(b) /\ i - m <= j - m /\ (i - m) + m = i /\ (j - m) + m = j
        BY <1>2, <2>2, <2>4
      <3>2. IsWord(b, i - m, j - m) /\ w = SubSeq(b, i - m, j - m)
        BY <1>4, <2>1, <3>1
      <3>3. QED
        BY <3>1, <3>2, WordsOfFacts
    <2>5. QED
      BY <1>2, <2>2, <2>3, <2>4
  <1>6. ASSUME NEW w \in WordsOf(a) PROVE w \in WordsOf(t)
    <2>1. PICK i \in 1..Len(a), j \in 1..Len(a) : IsWord(a, i, j) /\ w = SubSeq(a, i, j)
      BY WordsOfFacts
    <2>2. i <= j /\ i \in 1..Len(t) /\ j \in 1..Len(t)
      BY <1>2, <2>1 DEF IsWord
    <2>3. QED
      BY <1>2, <1>3, <2>1, <2>2, WordsOfFacts
  <1>7. ASSUME NEW w \in WordsOf(b) PROVE w \in WordsOf(t)
    <2>1. PICK i \in 1..Len(b), j \in 1..Len(b) : IsWord(b, i, j) /\ w = SubSeq(b, i, j)
      BY WordsOfFacts
    <2>2. i <= j
      BY <2>1 DEF IsWord
    <2>3. QED
      BY <1>2, <1>4, <2>1, <2>2, WordsOfFacts
  <1>8. QED
    BY <1>5, <1>6, <1>7 DEF t
----------------------------------------------------------------------------
(* Keywords.                                                               *)

\* "Regardless of order": a keyword of two parts asks for what both parts
\* ask for, so the parts may change places, and a longer keyword never finds
\* more.
THEOREM KeywordIsItsParts ==
  ASSUME NEW a \in Text, NEW b \in Text, NEW c \in Chars, Lower[c] \in Space, NEW name \in Text
  PROVE  /\ KeywordMatches(Joined(a, c, b), name) <=> KeywordMatches(a, name) /\ KeywordMatches(b, name)
         /\ KeywordMatches(Joined(a, c, b), name) <=> KeywordMatches(Joined(b, c, a), name)
  <1>1. ASSUME NEW x \in Text, NEW y \in Text
        PROVE  Words(Joined(x, c, y)) = Words(x) \cup Words(y)
    <2>1. Joined(x, c, y) \in Text /\ LowerText(x) \in Text /\ LowerText(y) \in Text
      BY JoinedFacts, LowerFacts
    <2>2. LowerText(Joined(x, c, y)) = Joined(LowerText(x), Lower[c], LowerText(y))
      BY LowerJoined
    <2>3. WordsOf(Joined(LowerText(x), Lower[c], LowerText(y))) = WordsOf(LowerText(x)) \cup WordsOf(LowerText(y))
      BY <2>1, WordsOfJoined
    <2>4. QED
      BY <2>1, <2>2, <2>3, WordsAreOf
  <1>2. QED
    BY <1>1 DEF KeywordMatches

\* A keyword without a space is one word, and no search by words: it may
\* stand anywhere in the name.
THEOREM OneWordIsContained ==
  ASSUME NEW k \in Text, k # <<>>, \A n \in 1..Len(k) : Lower[k[n]] \notin Space, NEW name \in Text
  PROVE  KeywordMatches(k, name) <=> Contains(LowerText(name), LowerText(k))
  <1> DEFINE t == LowerText(k)
  <1>1. t \in Text /\ Len(t) = Len(k) /\ Len(t) \in Nat \ {0} /\ \A n \in 1..Len(t) : t[n] \notin Space
    BY LowerFacts, EmptySeq DEF Text
  <1> HIDE DEF t
  <1>2. IsWord(t, 1, Len(t)) /\ SubSeq(t, 1, Len(t)) = t
    BY <1>1, SubSeqFull DEF IsWord, Text
  <1>3. \A i, j \in 1..Len(t) : IsWord(t, i, j) => i = 1 /\ j = Len(t)
    <2> SUFFICES ASSUME NEW i \in 1..Len(t), NEW j \in 1..Len(t), IsWord(t, i, j)
                 PROVE  i = 1 /\ j = Len(t)
      OBVIOUS
    <2>1. i > 1 => i - 1 \in 1..Len(t)
      BY <1>1
    <2>2. j < Len(t) => j + 1 \in 1..Len(t)
      BY <1>1
    <2>3. QED
      BY <1>1, <2>1, <2>2 DEF IsWord
  <1>4. 1 \in 1..Len(t) /\ Len(t) \in 1..Len(t)
    BY <1>1
  <1>5. \A w : w \in WordsOf(t) <=> w = t
    BY <1>1, <1>2, <1>3, <1>4, WordsOfFacts
  <1>6. QED
    BY <1>5, WordsAreOf DEF KeywordMatches, t

----------------------------------------------------------------------------
(* Where a word is found.                                                  *)

\* What is found is found with all its words.
LEMMA WordsWithin ==
  ASSUME NEW x \in Text, NEW t \in Text, Contains(x, t), NEW w \in WordsOf(t)
  PROVE  Contains(x, w)
  <1>1. PICK i \in 1..Len(t), j \in 1..Len(t) : IsWord(t, i, j) /\ w = SubSeq(t, i, j)
    BY WordsOfFacts
  <1>2. /\ w \in Text /\ Len(w) = j - i + 1 /\ i <= j /\ Len(t) \in Nat /\ Len(x) \in Nat
        /\ \A n \in 1..(j - i + 1) : w[n] = t[i + n - 1]
    BY <1>1, WordFacts, TextFacts
  <1>3. PICK n \in 0..(Len(x) - Len(t)) : \A m \in 1..Len(t) : x[n + m] = t[m]
    BY DEF Contains
  <1>4. n + (i - 1) \in 0..(Len(x) - Len(w))
    BY <1>2
  <1>5. ASSUME NEW m \in 1..Len(w) PROVE x[(n + (i - 1)) + m] = w[m]
    <2>1. i + m - 1 \in 1..Len(t) /\ (n + (i - 1)) + m = n + (i + m - 1) /\ m \in 1..(j - i + 1)
      BY <1>2
    <2>2. QED
      BY <1>2, <1>3, <2>1
  <1>6. QED
    BY <1>4, <1>5 DEF Contains

\* A search for a phrase finds every name with that phrase in it, in upper or
\* lower case, and so every name that is the phrase.
THEOREM PhraseMatches ==
  ASSUME NEW k \in Text, NEW name \in Text
  PROVE  /\ Contains(LowerText(name), LowerText(k)) => KeywordMatches(k, name)
         /\ KeywordMatches(k, k)
  <1>1. ASSUME NEW x \in Text, Contains(LowerText(x), LowerText(k)) PROVE KeywordMatches(k, x)
    <2>1. LowerText(x) \in Text /\ LowerText(k) \in Text
      BY LowerFacts
    <2>2. QED
      BY <1>1, <2>1, WordsWithin, WordsAreOf DEF KeywordMatches
  <1>2. Contains(LowerText(k), LowerText(k))
    <2> DEFINE t == LowerText(k)
    <2>1. t \in Text /\ Len(t) \in Nat
      BY LowerFacts, TextFacts
    <2> HIDE DEF t
    <2>2. 0 \in 0..(Len(t) - Len(t)) /\ \A i \in 1..Len(t) : 0 + i = i
      BY <2>1
    <2>3. Contains(t, t)
      BY <2>2 DEF Contains
    <2>4. QED
      BY <2>3 DEF t
  <1>3. QED
    BY <1>1, <1>2

\* A word is found in a name of two parts iff it is found in one of them: no
\* word reaches over a space.
LEMMA FoundInPart ==
  ASSUME NEW a \in Text, NEW b \in Text, NEW c \in Space,
         NEW w \in Text, Len(w) > 0, \A n \in 1..Len(w) : w[n] \notin Space
  PROVE  Contains(Joined(a, c, b), w) <=> Contains(a, w) \/ Contains(b, w)
  <1> DEFINE t == Joined(a, c, b)
             m == Len(a) + 1
  <1>1. c \in Chars
    BY MatcherAssumption DEF MatcherAssumption
  <1>2. /\ t \in Text /\ Len(t) = m + Len(b) /\ Len(a) \in Nat /\ Len(b) \in Nat
        /\ \A n \in 1..Len(a) : t[n] = a[n]
        /\ t[m] \in Space
        /\ \A n \in 1..Len(b) : t[m + n] = b[n]
    BY <1>1, JoinedFacts
  <1>3. Len(w) \in Nat \ {0}
    BY TextFacts
  <1> HIDE DEF t
  <1>4. ASSUME Contains(t, w) PROVE Contains(a, w) \/ Contains(b, w)
    <2>1. PICK n \in 0..(Len(t) - Len(w)) : \A i \in 1..Len(w) : t[n + i] = w[i]
      BY <1>4 DEF Contains
    <2>2. m \notin (n + 1)..(n + Len(w))
      <3>1. ASSUME m \in (n + 1)..(n + Len(w)) PROVE FALSE
        <4>1. m - n \in 1..Len(w) /\ n + (m - n) = m
          BY <1>2, <1>3, <3>1
        <4>2. QED
          BY <1>2, <2>1, <4>1
      <3>2. QED
        BY <3>1
    <2>3. CASE n + Len(w) < m
      <3>1. n \in 0..(Len(a) - Len(w)) /\ \A i \in 1..Len(w) : n + i \in 1..Len(a)
        BY <1>2, <1>3, <2>3
      <3>2. \A i \in 1..Len(w) : a[n + i] = w[i]
        BY <1>2, <2>1, <3>1
      <3>3. QED
        BY <3>1, <3>2 DEF Contains
    <2>4. CASE n >= m
      <3>1. /\ n - m \in 0..(Len(b) - Len(w))
            /\ \A i \in 1..Len(w) : (n - m) + i \in 1..Len(b) /\ m + ((n - m) + i) = n + i
        BY <1>2, <1>3, <2>4
      <3>2. \A i \in 1..Len(w) : b[(n - m) + i] = w[i]
        BY <1>2, <2>1, <3>1
      <3>3. QED
        BY <3>1, <3>2 DEF Contains
    <2>5. QED
      BY <1>2, <1>3, <2>2, <2>3, <2>4
  <1>5. ASSUME Contains(a, w) PROVE Contains(t, w)
    <2>1. PICK n \in 0..(Len(a) - Len(w)) : \A i \in 1..Len(w) : a[n + i] = w[i]
      BY <1>5 DEF Contains
    <2>2. n \in 0..(Len(t) - Len(w)) /\ \A i \in 1..Len(w) : n + i \in 1..Len(a)
      BY <1>2, <1>3
    <2>3. \A i \in 1..Len(w) : t[n + i] = w[i]
      BY <1>2, <2>1, <2>2
    <2>4. QED
      BY <2>2, <2>3 DEF Contains
  <1>6. ASSUME Contains(b, w) PROVE Contains(t, w)
    <2>1. PICK n \in 0..(Len(b) - Len(w)) : \A i \in 1..Len(w) : b[n + i] = w[i]
      BY <1>6 DEF Contains
    <2>2. m + n \in 0..(Len(t) - Len(w)) /\ \A i \in 1..Len(w) : n + i \in 1..Len(b) /\ (m + n) + i = m + (n + i)
      BY <1>2, <1>3
    <2>3. \A i \in 1..Len(w) : t[(m + n) + i] = w[i]
      BY <1>2, <2>1, <2>2
    <2>4. QED
      BY <2>2, <2>3 DEF Contains
  <1>7. QED
    BY <1>4, <1>5, <1>6 DEF t

\* The words of a keyword are words.
LEMMA WordsFacts ==
  ASSUME NEW k \in Text, NEW w \in Words(k)
  PROVE  w \in Text /\ Len(w) \in Nat \ {0} /\ \A n \in 1..Len(w) : w[n] \notin Space
  <1> DEFINE t == LowerText(k)
  <1>1. t \in Text /\ w \in WordsOf(t)
    BY LowerFacts, WordsAreOf
  <1> HIDE DEF t
  <1>2. PICK i \in 1..Len(t), j \in 1..Len(t) : IsWord(t, i, j) /\ w = SubSeq(t, i, j)
    BY <1>1, WordsOfFacts
  <1>3. /\ w \in Text /\ Len(w) = j - i + 1 /\ i <= j
        /\ \A n \in 1..(j - i + 1) : w[n] = t[i + n - 1] /\ t[i + n - 1] \notin Space
    BY <1>1, <1>2, WordFacts
  <1>4. QED
    BY <1>3

\* A name of two parts is found by a keyword whose words are spread over the
\* parts in any way, and by no other: to say more in a name never loses a
\* buyer, and no word is found across a space.
THEOREM NameIsItsParts ==
  ASSUME NEW a \in Text, NEW b \in Text, NEW c \in Chars, Lower[c] \in Space, NEW k \in Text
  PROVE  /\ KeywordMatches(k, Joined(a, c, b)) <=>
                \A w \in Words(k) : Contains(LowerText(a), w) \/ Contains(LowerText(b), w)
         /\ KeywordMatches(k, a) \/ KeywordMatches(k, b) => KeywordMatches(k, Joined(a, c, b))
  <1>1. LowerText(Joined(a, c, b)) = Joined(LowerText(a), Lower[c], LowerText(b))
    BY LowerJoined
  <1>2. LowerText(a) \in Text /\ LowerText(b) \in Text
    BY LowerFacts
  <1>3. ASSUME NEW w \in Words(k)
        PROVE  Contains(LowerText(Joined(a, c, b)), w) <=> Contains(LowerText(a), w) \/ Contains(LowerText(b), w)
    <2>1. w \in Text /\ Len(w) > 0 /\ \A n \in 1..Len(w) : w[n] \notin Space
      BY WordsFacts
    <2>2. QED
      BY <1>1, <1>2, <2>1, FoundInPart
  <1>4. QED
    BY <1>3 DEF KeywordMatches

----------------------------------------------------------------------------
(* Splitting loses nothing.                                                *)

\* The least number of a set.
LEMMA LeastNumber ==
  ASSUME NEW T \in SUBSET Nat, T # {}
  PROVE  \E x \in T : \A y \in T : x <= y
  <1> DEFINE R == {p \in Nat \X Nat : p[1] < p[2]}
  <1>1. IsWellFoundedOn(R, Nat)
    <2>1. R = OpToRel(<, Nat)
      BY DEF OpToRel
    <2>2. QED
      BY <2>1, NatLessThanWellFounded
  <1> HIDE DEF R
  <1>2. PICK x \in T : \A y \in Nat : <<y, x>> \in R => y \notin T
    BY <1>1, WFMin
  <1>3. \A y \in T : ~(y < x)
    BY <1>2 DEF R
  <1>4. QED
    BY <1>2, <1>3

\* Every letter of a keyword is in one of its words, and in only one: to the
\* right a word goes on up to the last letter before a space or the end, to
\* the left likewise.
THEOREM EveryLetterInOneWord ==
  ASSUME NEW t \in Text, NEW n \in 1..Len(t), t[n] \notin Space
  PROVE  /\ \E i, j \in 1..Len(t) : IsWord(t, i, j) /\ n \in i..j
         /\ \A i, j, k, l \in 1..Len(t) :
                IsWord(t, i, j) /\ n \in i..j /\ IsWord(t, k, l) /\ n \in k..l => i = k /\ j = l
  <1> DEFINE Ends == {x \in Nat : n <= x /\ x <= Len(t) /\ (x = Len(t) \/ t[x + 1] \in Space)}
             Backs == {d \in Nat : d < n /\ (d = n - 1 \/ t[n - d - 1] \in Space)}
  <1>1. Len(t) \in Nat /\ n \in Nat /\ 1 <= n /\ n <= Len(t)
    BY TextFacts
  <1>2. PICK j \in Ends : \A x \in Ends : j <= x
    <2>1. Len(t) \in Ends
      BY <1>1
    <2>2. QED
      BY <2>1, LeastNumber
  <1>3. PICK d \in Backs : \A x \in Backs : d <= x
    <2>1. n - 1 \in Backs
      BY <1>1
    <2>2. QED
      BY <2>1, LeastNumber
  <1>4. \A x \in n..j : t[x] \notin Space
    <2> SUFFICES ASSUME NEW x \in n..j, t[x] \in Space PROVE FALSE
      OBVIOUS
    <2>1. x # n /\ x \in Nat /\ j \in Nat
      BY <1>1, <1>2
    <2>2. x - 1 \in Ends
      <3>1. x - 1 \in Nat /\ n <= x - 1 /\ x - 1 <= Len(t) /\ (x - 1) + 1 = x
        BY <1>1, <1>2, <2>1
      <3>2. QED
        BY <3>1
    <2> HIDE DEF Ends
    <2>3. j <= x - 1
      BY <1>2, <2>2
    <2>4. QED
      BY <2>1, <2>3
  <1>5. \A x \in (n - d)..n : t[x] \notin Space
    <2> SUFFICES ASSUME NEW x \in (n - d)..n, t[x] \in Space PROVE FALSE
      OBVIOUS
    <2>1. x # n /\ x \in Nat /\ d \in Nat /\ d < n
      BY <1>1, <1>3
    <2>2. n - x - 1 \in Backs
      <3>1. n - x - 1 \in Nat /\ n - x - 1 < n /\ n - (n - x - 1) - 1 = x
        BY <1>1, <2>1
      <3>2. QED
        BY <3>1
    <2> HIDE DEF Backs
    <2>3. d <= n - x - 1
      BY <1>3, <2>2
    <2>4. n - d <= x
      BY <2>1, <1>1
    <2>5. QED
      BY <1>1, <2>1, <2>3, <2>4
  <1>6. n - d \in 1..Len(t) /\ j \in 1..Len(t) /\ n \in (n - d)..j /\ n - d <= j
    BY <1>1, <1>2, <1>3
  <1>7. IsWord(t, n - d, j)
    <2>1. \A x \in (n - d)..j : x \in n..j \/ x \in (n - d)..n
      BY <1>1, <1>2, <1>3
    <2>2. n - d > 1 => t[(n - d) - 1] \in Space
      <3>1. d \in Nat /\ (d = n - 1 \/ t[n - d - 1] \in Space) /\ (n - d) - 1 = n - d - 1
        BY <1>1, <1>3
      <3>2. QED
        BY <1>1, <3>1
    <2>3. j < Len(t) => t[j + 1] \in Space
      BY <1>1, <1>2
    <2>4. QED
      BY <1>4, <1>5, <1>6, <2>1, <2>2, <2>3 DEF IsWord
  \* Neither of two words around a letter reaches further than the other.
  <1>8. ASSUME NEW i \in 1..Len(t), NEW u \in 1..Len(t), NEW k \in 1..Len(t), NEW l \in 1..Len(t),
               IsWord(t, i, u), n \in i..u, IsWord(t, k, l), n \in k..l
        PROVE  ~(i < k) /\ ~(u < l)
    <2>1. i < k => k - 1 \in i..u /\ k > 1
      BY <1>1, <1>8
    <2>2. u < l => u + 1 \in k..l /\ u < Len(t)
      BY <1>1, <1>8
    <2>3. QED
      BY <1>8, <2>1, <2>2 DEF IsWord
  <1>9. \A i, u, k, l \in 1..Len(t) :
            IsWord(t, i, u) /\ n \in i..u /\ IsWord(t, k, l) /\ n \in k..l => i = k /\ u = l
    <2> SUFFICES ASSUME NEW i \in 1..Len(t), NEW u \in 1..Len(t), NEW k \in 1..Len(t), NEW l \in 1..Len(t),
                        IsWord(t, i, u), n \in i..u, IsWord(t, k, l), n \in k..l
                 PROVE  i = k /\ u = l
      OBVIOUS
    <2>1. ~(i < k) /\ ~(u < l) /\ ~(k < i) /\ ~(l < u)
      BY <1>8
    <2>2. QED
      BY <1>1, <2>1
  <1>10. QED
    BY <1>6, <1>7, <1>9

\* A keyword of spaces finds everything, a nameless listing too; no other
\* keyword finds a nameless listing.
THEOREM BlankFindsEverything ==
  ASSUME NEW k \in Text
  PROVE  /\ KeywordMatches(k, <<>>) <=> \A n \in 1..Len(k) : Lower[k[n]] \in Space
         /\ KeywordMatches(k, <<>>) => \A name \in Text : KeywordMatches(k, name)
  <1> DEFINE t == LowerText(k)
  <1>1. /\ t \in Text /\ Len(t) = Len(k) /\ Len(t) \in Nat
        /\ \A n \in 1..Len(t) : t[n] = Lower[k[n]]
    BY LowerFacts, TextFacts
  <1>2. Words(k) = WordsOf(t)
    BY WordsAreOf
  <1> HIDE DEF t
  <1>3. ASSUME NEW w \in Words(k) PROVE ~Contains(LowerText(<<>>), w)
    <2>1. w \in Text /\ Len(w) \in Nat \ {0}
      BY WordsFacts
    <2>2. <<>> \in Text /\ Len(<<>>) = 0
      BY EmptySeq DEF Text
    <2>3. LowerText(<<>>) \in Text /\ Len(LowerText(<<>>)) = 0
      BY <2>2, LowerFacts
    <2>4. 0..(Len(LowerText(<<>>)) - Len(w)) = {}
      BY <2>1, <2>3
    <2>5. QED
      BY <2>4 DEF Contains
  <1>4. KeywordMatches(k, <<>>) <=> Words(k) = {}
    BY <1>3 DEF KeywordMatches
  <1>5. ASSUME \A n \in 1..Len(t) : t[n] \in Space PROVE Words(k) = {}
    <2> SUFFICES ASSUME NEW w \in Words(k) PROVE FALSE
      OBVIOUS
    <2>1. PICK i \in 1..Len(t), j \in 1..Len(t) : IsWord(t, i, j)
      BY <1>1, <1>2, WordsOfFacts
    <2>2. i \in i..j
      BY <1>1, <2>1 DEF IsWord
    <2>3. QED
      BY <1>5, <2>1, <2>2 DEF IsWord
  <1>6. ASSUME NEW n \in 1..Len(t), t[n] \notin Space PROVE Words(k) # {}
    <2>1. PICK i \in 1..Len(t), j \in 1..Len(t) : IsWord(t, i, j)
      BY <1>1, <1>6, EveryLetterInOneWord
    <2>2. SubSeq(t, i, j) \in WordsOf(t)
      BY <1>1, <2>1, WordsOfFacts
    <2>3. QED
      BY <1>2, <2>2
  <1>7. Words(k) = {} => \A name \in Text : KeywordMatches(k, name)
    BY DEF KeywordMatches
  <1>8. (\A n \in 1..Len(t) : t[n] \in Space) <=> (\A n \in 1..Len(k) : Lower[k[n]] \in Space)
    BY <1>1
  <1>9. QED
    BY <1>4, <1>5, <1>6, <1>7, <1>8

=============================================================================
