---------------------------- MODULE MCFileTable -----------------------------
\* Two names and the list file, in two locales, in tables of 4: the smallest
\* hash table StormLib makes, too small for the five files there can be.
EXTENDS FileTable, TLC

MCNames == {"a", "b", "(listfile)"}
MCListName == "(listfile)"
MCLocales == {"neutral", "german"}
MCNeutral == "neutral"
MCH == 4

\* The two names in slot 0, or behind it, from where the slots of four files go
\* around the end of the table.
MCHomes ==
    LET h(a, b, c) == ("a" :> a) @@ ("b" :> b) @@ ("(listfile)" :> c)
    IN {h(0, 0, 2), h(1, 1, 0)}
=============================================================================
