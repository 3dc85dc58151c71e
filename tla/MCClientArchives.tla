-------------------------- MODULE MCClientArchives --------------------------
\* All clients, with none, one or two of three locales on disk, the required
\* archives, and patches up to number 8 with gaps between them; at most
\* two archives hold the table, one of them perhaps damaged.
EXTENDS ClientArchives, FiniteSetsExt

MCLocales == <<"enGB", "deDE", "ruRU">>
MCCores == {0, 1, 2, 3, 4}

Required == {Base(s) : s \in RequiredStems}
PatchesOn(d, ns) == {Patch(d, n) : n \in ns}
LocaleOn(l, ns) == {LocaleArchive(l)} \cup PatchesOn(l, ns)
Locals == {{}, LocaleOn("deDE", {1, 3}), LocaleOn("ruRU", {8}) \cup LocaleOn("deDE", {}),
           LocaleOn("enGB", {2}) \cup LocaleOn("ruRU", {1})}
Numbers == {{}, {1}, {2}, {1, 2}, {2, 8}, {1, 2, 4, 8}}
Older == {Required \cup PatchesOn(Data, ns) \cup l : ns \in Numbers, l \in Locals}
Newest == {Required \cup Range(Updates(Data)) \cup Range(Updates("deDE")) \cup l : l \in Locals}
MCDisks == Older \cup Newest

\* What can be told apart: a base archive, the archives of a locale, patches.
Marked(d) == {Base("dbc"), Base("common")} \cup {p \in d : p.stem \in {"patch", "locale"}}
Held(d, full, corrupt) ==
    [p \in d |-> IF p \in corrupt THEN "corrupt" ELSE IF p \in full THEN "full" ELSE "absent"]
HeldIn(d) == {Held(d, {}, {})}
             \cup {Held(d, {p, q}, {}) : p \in Marked(d), q \in Marked(d)}
             \cup {Held(d, {p}, {q}) : p \in Marked(d), q \in Marked(d)}
Client(d, c, h) == [disk |-> d, core |-> c, held |-> h]
MCClients ==
    UNION {{Client(d, c, h) : h \in HeldIn(d)} : d \in Older, c \in {0, 1, 2}}
    \cup {Client(d, c, Held(d, {Base("art")}, {})) : d \in Newest, c \in {3, 4}}
=============================================================================
