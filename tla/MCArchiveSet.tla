---------------------------- MODULE MCArchiveSet ----------------------------
\* Two archives and two patches, in three ways FileListFeeder can group them
\* (two base archives with both patches; a base and a locale archive with a
\* patch each; four archives without patches, the patches of older clients),
\* holding every combination of entries for one name; and the same groups
\* with every list file, for one content.
EXTENDS ArchiveSet

MCArchives == {"a", "b", "p", "q"}
MCNames == {"item"}
MCPlans == {
    [base |-> <<"a", "b">>, basePatch |-> <<"p", "q">>, locale |-> <<>>, localePatch |-> <<>>],
    [base |-> <<"a">>, basePatch |-> <<"p">>, locale |-> <<"b">>, localePatch |-> <<"q">>],
    [base |-> <<"a", "p">>, basePatch |-> <<>>, locale |-> <<"b", "q">>, localePatch |-> <<>>]}
MCWorld(lists, entry, listed) ==
    [plan |-> lists,
     content |-> [a \in MCArchives |-> [n \in MCNames |-> entry[a]]],
     listing |-> [a \in MCArchives |-> IF a \in listed THEN MCNames ELSE {}]]
MCLookupWorlds == {MCWorld(p, e, {"a"}) : p \in MCPlans, e \in [MCArchives -> EntryKinds]}
MCListingWorlds == {MCWorld(p, [a \in MCArchives |-> "full"], l) :
                       p \in MCPlans, l \in SUBSET MCArchives}
MCWorlds == MCLookupWorlds \cup MCListingWorlds
MCMaxCalls == 2
=============================================================================
