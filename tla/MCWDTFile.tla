----------------------------- MODULE MCWDTFile -----------------------------
\* Maps of two by two tiles.  Files with the MAIN chunk last, first, twice, of
\* length 0, too short, and longer than the file; each cut at the places where
\* something changes, and one of them everywhere.
EXTENDS WDTFile, Sequences, SequencesExt

MCSizeMod == 65536
MCByteMod == 3
MCSide == 2
MCMAIN == 40
MCStaleSizes == {0, 5}
MCMaxOpens == 2
MCJunkMaps == {{}, {<<0, 1>>, <<1, 1>>}}

\* A layout is a sequence of <<identifier, length>>.
Begin(layout, k) == FoldLeft(LAMBDA o, c : o + 8 + c[2], 0, SubSeq(layout, 1, k - 1))
Chunks(layout) == {[at |-> Begin(layout, k), id |-> layout[k][1], length |-> layout[k][2]] :
                      k \in 1..Len(layout)}
Total(layout) == Begin(layout, Len(layout) + 1)
File(layout, n, tiles) == [prefix |-> "map", chunks |-> Chunks(layout), size |-> n, tiles |-> tiles]
Whole(layout, tiles) == File(layout, Total(layout), tiles)

Usual == <<<<7, 4>>, <<MCMAIN, 32>>, <<9, 3>>>>
MainFirst == <<<<MCMAIN, 32>>, <<7, 2>>>>
Twice == <<<<MCMAIN, 32>>, <<MCMAIN, 8>>>>
Empty == <<<<7, 1>>, <<MCMAIN, 0>>>>
Short == <<<<MCMAIN, 8>>, <<7, 40>>>>
TooLong == <<<<7, 4>>, <<MCMAIN, 80>>>>
Other == <<<<7, 4>>, <<9, 0>>>>
MCFiles ==
    {File(Usual, n, {<<1, 0>>}) : n \in 1..Total(Usual)}
    \cup {Whole(l, t) : l \in {Usual, MainFirst, Twice, Empty, Short, Other},
                        t \in {{}, {<<0, 1>>}, {<<0, 0>>, <<1, 0>>}}}
    \cup {File(TooLong, n, {<<1, 1>>}) : n \in {20, 21, 51, 52, 60}}
    \cup {File(MainFirst, n, {<<1, 1>>}) : n \in {39, 40, 41, 44, 45, 48}}
=============================================================================
