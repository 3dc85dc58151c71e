---------------------------- MODULE MCExtractor ----------------------------
\* Three names: 1 and 2 are *.dbc and have the same base name, 3 is a *.db2.
\* The command lines meet a few executables, and one of them meets every
\* executable of MCBuildNumber.
EXTENDS Extractor, MCBuildNumber, TLC

MCNames == 1..3
MCBaseOf == 1 :> "a.dbc" @@ 2 :> "a.dbc" @@ 3 :> "b.db2"

\* The command lines: none, the options with and without their value, a value
\* that looks like an option, an option given twice with either order of the two
\* values, a value that is no number, an argument that is no option.
CommandLines == {
    << >>, <<"-e", "1">>, <<"-e", "3", "--extract", "1">>, <<"-e", "1", "-e", "3">>,
    <<"--extract", "2">>, <<"-e", "0">>, <<"-e", "4">>, <<"-e", "maps">>, <<"-e">>,
    <<"-o", "-e", "3">>, <<"-i", "-h">>, <<"-i", "in", "-o">>, <<"what", "-e", "3", "-h">>,
    <<"-o", "out", "more">>}

\* No executable, one without the text, and two with the text at the start of
\* the search and the number of a build: a classic one and CLIENT_CATA.
OfBuild(number) == <<"other", "other">> \o Text \o Gap(12) \o number
Classic == OfBuild(<<"5", "8", "7", "5", " ", "1">>)
Cata == OfBuild(<<"1", "5", "5", "9", "5", "other">>)
Clients == {{}, {<<"other">>}, {Classic}, {Cata}}

Contents == {
    1 :> "table" @@ 2 :> "table" @@ 3 :> "table",
    1 :> "table" @@ 2 :> "junk" @@ 3 :> "nothing",
    1 :> "nothing" @@ 2 :> "table" @@ 3 :> "junk"}

MCWorlds == [args : CommandLines, exes : Clients, dbc : {{}, {2}, {1, 2}}, db2 : {{}, {3}},
             holds : Contents, old : {{}, {"a.dbc"}}]
            \cup [args : {<< >>}, exes : {{e} : e \in MCExecutables}, dbc : {{2}}, db2 : {{3}},
                  holds : {1 :> "table" @@ 2 :> "table" @@ 3 :> "table"}, old : {{}}]

\* Nothing is in the way of an extraction that -e 0 asks for.
ZeroWorlds == {w \in MCWorlds : w.args = <<"-e", "0">> /\ w.exes = {Cata}
                                 /\ w.dbc \cap {n \in MCNames : w.holds[n] = "table"} # {}}
=============================================================================
