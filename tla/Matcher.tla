------------------------------ MODULE Matcher ------------------------------
(***************************************************************************)
(* Which searches want a listing (bot/app/services/matcher.py): the same   *)
(* platform, every word of the keyword somewhere in the name, a price      *)
(* within the bounds.  A text is a sequence of characters.  Lower maps     *)
(* characters to characters, as str.lower does for almost every letter.    *)
(***************************************************************************)
EXTENDS Integers, Sequences

CONSTANTS
    Chars,      \* the characters of names, keywords and platforms
    Space,      \* those that separate words
    Lower,      \* Lower[c]: c in lower case
    NoPrice     \* None

ASSUME MatcherAssumption ==
    /\ Space \subseteq Chars
    /\ Lower \in [Chars -> Chars] /\ \A c \in Chars : Lower[Lower[c]] = Lower[c]
    /\ NoPrice \notin Int

Text == Seq(Chars)
Limit == Int \cup {NoPrice}
Search == [platform : Text, keyword : Text, min : Limit, max : Limit]
Item == [platform : Text, name : Text, price : Int]

\* str.lower
LowerText(t) == [n \in 1..Len(t) |-> Lower[t[n]]]

\* Positions i to j of t hold one word: str.split cuts at runs of spaces.
IsWord(t, i, j) ==
    /\ i <= j /\ \A n \in i..j : t[n] \notin Space
    /\ i > 1 => t[i - 1] \in Space
    /\ j < Len(t) => t[j + 1] \in Space

\* keyword.lower().split(), as a set: all() asks for each word alike.
Words(keyword) ==
    LET t == LowerText(keyword)
    IN  {SubSeq(t, p[1], p[2]) : p \in {q \in (1..Len(t)) \X (1..Len(t)) : IsWord(t, q[1], q[2])}}

\* word in name, at some offset.
Contains(name, word) ==
    \E n \in 0..(Len(name) - Len(word)) : \A i \in 1..Len(word) : name[n + i] = word[i]

KeywordMatches(keyword, name) == \A w \in Words(keyword) : Contains(LowerText(name), w)

\* Search.matches_price, and the same two tests in find_matches_in_memory.
PriceMatches(s, price) ==
    /\ s.min # NoPrice => price >= s.min
    /\ s.max # NoPrice => price <= s.max

\* One turn of the loop of find_matches_in_memory.
Matches(s, item) ==
    /\ LowerText(s.platform) = LowerText(item.platform)
    /\ KeywordMatches(s.keyword, item.name)
    /\ PriceMatches(s, item.price)
============================================================================
