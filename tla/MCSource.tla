------------------------------ MODULE MCSource ------------------------------
EXTENDS Source

\* Every sequence of at most n bytes of B.
UpTo(B, n) == UNION {[1..k -> B] : k \in 0..n}

\* Newlines and NULs, two-byte runes whole, cut short or broken, three-byte
\* runes, and marks at the start and later.
ShortInputs ==
  UpTo({"a", "nul", "nl"}, 2) \cup UpTo({"c2", "bb", "nl"}, 3)
    \cup {<<"c2", "a">>, <<"ef", "bb", "bf", "nl">>, <<"a", "ef", "bb", "bf">>,
          <<"ef", "bf", "bb", "ff">>, <<"ef", "bb", "a", "nl">>}

\* Long enough to move a segment and to grow the buffer by both rules, and an
\* encoding cut short at the end.
LongInputs == {<<"a", "c2", "bf", "nl", "ef", "bb", "bb">>, <<"nul", "c2", "bb", "ef">>}
=============================================================================
