----------------------------- MODULE MCPipeline -----------------------------
(* Values of the constants of Pipeline for TLC, and the rules of Matcher   *)
(* against a reference and against the cases of tests/test_matcher.py.     *)
EXTENDS Pipeline, FiniteSets, TLC

SeqExt == INSTANCE SequencesExt

CONSTANTS w1, w2, s1

\* A name of three letters, in both cases, and the space.
MCChars == {"a", "b", "A", " "}
MCLower == [c \in MCChars |-> IF c = "A" THEN "a" ELSE c]

\* "Ab a" for 2: both words of the search "b A", in another order and case,
\* and the price at the end of its range.
MCListing == [i \in Items |-> [platform |-> <<"a">>, name |-> <<"A", "b", " ", "a">>, price |-> 2]]
MCWish == [s \in Searches |->
              [platform |-> <<"A">>, keyword |-> <<"b", " ", "A">>, min |-> 1, max |-> 2]]

----------------------------------------------------------------------------
(* Matcher against a reference, over every keyword of up to four and every *)
(* name of up to three characters.                                         *)

\* str.split, character by character: the words so far, the last one open.
RECURSIVE SplitFrom(_, _, _)
SplitFrom(t, n, word) ==
    LET closed == IF word = <<>> THEN {} ELSE {word}
    IN  IF n > Len(t) THEN closed
        ELSE IF t[n] \in Space THEN closed \cup SplitFrom(t, n + 1, <<>>)
        ELSE SplitFrom(t, n + 1, Append(word, t[n]))

\* "word in name": the name is something, the word, something.
In(word, name) == \E n \in 0..Len(name) : SeqExt!IsPrefix(word, SubSeq(name, n + 1, Len(name)))

ShortTexts(n) == UNION {[1..k -> MCChars] : k \in 0..n}

ASSUME WordsAsSplit ==
    \A k \in ShortTexts(4) : Words(k) = SplitFrom(LowerText(k), 1, <<>>)

ASSUME MatchesAsReference ==
    \A k \in ShortTexts(4), name \in ShortTexts(3) :
        KeywordMatches(k, name) <=>
            \A w \in SplitFrom(LowerText(k), 1, <<>>) : In(w, LowerText(name))

\* The cases of test_matcher.py: another platform, upper and lower case, a
\* keyword longer than the name, words in another order, a missing word, an
\* empty keyword, a price of zero, both ends of the range, and prices outside.
Ask(keyword, min, max) == [platform |-> <<"A">>, keyword |-> keyword, min |-> min, max |-> max]
Sell(name, price) == [platform |-> <<"a">>, name |-> name, price |-> price]

ASSUME MatcherTests ==
    /\ ~Matches([Ask(<<"a">>, NoPrice, NoPrice) EXCEPT !.platform = <<"b">>], Sell(<<"a">>, 5))
    /\ Matches(Ask(<<"A">>, NoPrice, NoPrice), Sell(<<"a", "b">>, 5))
    /\ Matches(Ask(<<"a">>, NoPrice, NoPrice), Sell(<<"A", "b">>, 5))
    /\ ~Matches(Ask(<<"a", "b", "a">>, NoPrice, NoPrice), Sell(<<"a", "b">>, 5))
    /\ Matches(Ask(<<"b", " ", "a">>, NoPrice, NoPrice), Sell(<<"a", " ", "b">>, 5))
    /\ ~Matches(Ask(<<"b", " ", "a">>, NoPrice, NoPrice), Sell(<<"a", " ", "a">>, 5))
    /\ Matches(Ask(<<>>, NoPrice, NoPrice), Sell(<<"a">>, 5))
    /\ Matches(Ask(<<"a">>, 0, NoPrice), Sell(<<"a">>, 0))
    /\ ~Matches(Ask(<<"a">>, 1, NoPrice), Sell(<<"a">>, 0))
    /\ \A price \in 1..5 :
          /\ Matches(Ask(<<"a">>, 2, 4), Sell(<<"a">>, price)) <=> price \in 2..4
          /\ Matches(Ask(<<"a">>, 2, NoPrice), Sell(<<"a">>, price)) <=> price >= 2
          /\ Matches(Ask(<<"a">>, NoPrice, 4), Sell(<<"a">>, price)) <=> price <= 4
============================================================================
