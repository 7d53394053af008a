-------------------------- MODULE MCPatternAnalysis --------------------------
(* Patterns over two letters and one in upper case: up to three items with      *)
(* every quantifier, groups, alternatives; a few with (?i:...) or \E, which the  *)
(* divergences are about.                                                     *)
EXTENDS PatternAnalysis

MCOtherCase(c) == CASE c = "a" -> "A" [] c = "A" -> "a" [] c = "b" -> "B" [] c = "B" -> "b"
                    [] OTHER -> c
MCCodeUnit(c) == CASE c = "A" -> 65 [] c = "B" -> 66 [] c = "a" -> 97 [] c = "b" -> 98
                   [] OTHER -> 40

Item(body, quant) == [body |-> body, caseless |-> FALSE, sep |-> <<>>, quant |-> quant]
Char(c) == Item(<<<<c>>>>, "")
Caseless(c) == [Char(c) EXCEPT !.caseless = TRUE]
Separated(c, quant) == [Item(<<<<c>>>>, quant) EXCEPT !.sep = <<"\\E">>]

Quantifiers == {"", "?", "*", "+", "{0,1}"}
Items == {Item(<<<<c>>>>, q) : c \in {"a", "b"}, q \in Quantifiers}
    \cup {Item(body, q) : body \in {<<<<"a">>, <<"b">>>>, <<<<"a", "b">>>>}, q \in {"", "?"}}
    \cup {Char("A")}

MCPatterns ==
    {<<branch>> : branch \in UNION {[1 .. n -> Items] : n \in 0 .. 2}}
    \cup {<<b \o <<i>>>> : b \in [1 .. 2 -> {Char("a"), Char("b"), Item(<<<<"b">>>>, "?")}],
                             i \in Items}
    \cup {<<[k \in 1 .. 4 |-> Char("b")] \o <<i>>>> : i \in Items}
    \cup {<<<<i>>, <<j>>>> : i \in Items, j \in Items}
    \cup {<<<<Char("a"), Caseless("b")>>>>, <<<<Caseless("a")>>, <<Char("b")>>>>,
           <<<<Char("a"), Separated("b", "+")>>>>, <<<<Char("a"), Char("b"), Separated("b", "")>>>>}

InlineCase == {<<<<Caseless(c), i>>>> : c \in {"a", "A"}, i \in Items}
QuoteEnds == {<<<<Char("a"), Separated("b", q)>>>> : q \in Quantifiers}
=============================================================================
