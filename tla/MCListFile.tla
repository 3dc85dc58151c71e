----------------------------- MODULE MCListFile -----------------------------
\* All list files of up to five characters, and longer ones put together from
\* lines: names with and without the extension, twice the extension, patch
\* information, a second "~", blanks around a line, a line that is too long.
\* The cache has 2 characters and sectors 1, 2 or 4, so that a line runs over
\* several blocks, and blocks end inside sectors or sectors inside blocks.
EXTENDS ListFile

MCSectors == {1, 2, 4}
MCCacheSize == 2
MCMaxChars == 6
MCMask == <<"*", "d">>

Alphabet == {"a", "d", "\n", "~", "P"}
Short == UNION {[1..n -> Alphabet] : n \in 0..5}
Lines == {<<"a", "d">>, <<"d">>, <<"a", "a">>, <<"d", "a", "d">>,
          <<"a", "d", "~", "P", "a">>, <<"a", "~", "d">>, <<"d", "~", "~", "P">>,
          <<" ", "a", "d", " ">>, <<"a", " ", "d">>, <<"a", "a", "a", "a", "a", "d">>}
Breaks == {<<"\n">>, <<"\n", "\n">>}
MCTexts ==
    Short \cup {a \o b \o c : a \in Lines, b \in Breaks, c \in Lines}
          \cup {<<"\n">> \o a \o <<"\n", " ">> : a \in Lines}
=============================================================================
