--------------------------- MODULE MCBuildNumber ---------------------------
\* Executables that are put together from what can stand before the text,
\* the text or a part of it, and what follows; cut off at every length.
EXTENDS BuildNumber

MCSkipLength == 2
MCJunkBytes == {"5", "other"}

Starts == {<< >>, <<"other">>, <<"other", "other">>, <<"W", "o">>, <<"other", "other", "W">>,
           <<"other", "other", "W", "o">>, <<"W", "o", "W", " ", "[", "R">>,
           <<"other", "other", "W", "o", "other">>}
Middles == {Text, SubSeq(Text, 1, 7), Text \o Text, <<"W", "other">>}
Gap(n) == [i \in 1..n |-> "other"]
NumberTexts ==
    {<<"1", "2", "3", "4", "0", "other">>, <<"5", "8", "7", "5", " ", "1">>,
     <<" ", "8", "6", "0", "6", "other">>, <<"1", "5", "5", "9", "6", "0">>,
     <<"1", "5", "5", "9", "5", "other">>, <<"-", "8", "6", "0", "6", "other">>}
Assembled == {a \o b \o Gap(g) \o n :
                 a \in Starts, b \in Middles, g \in {11, 12}, n \in NumberTexts}
Complete == {a \o Text \o Gap(12) \o <<"1", "2", "3", "4", "0">> : a \in Starts}
MCExecutables == Assembled \cup UNION {{SubSeq(f, 1, k) : k \in 0..Len(f)} : f \in Complete}
=============================================================================
