--------------------------- MODULE FileListFeeder ---------------------------
(***************************************************************************)
(* Which archives belong to the client found on disk, and in which order    *)
(* they are opened (FileListFeeder.cpp).                                    *)
(*                                                                         *)
(* The order of the lists is the order of age: ArchiveSet looks a table up  *)
(* from the last archive it opened to the first.  One step per file whose   *)
(* existence is tested.                                                     *)
(***************************************************************************)
EXTENDS Integers, SequencesExt

CONSTANTS
    Locales,    \* m_listLocale, the locales in the order they are looked for
    Disks,      \* the sets of archives that can be on disk, see PathType
    Cores       \* the clients that GetCoreAndBuildNumber can report

CLASSIC == 0
TBC == 1
WOTLK == 2
CATA == 3

\* The path of an archive: its directory (Data, which has the prefix "" in the
\* code, or a locale's below it), the stem of its name, and the number of a
\* patch or 0.  The file of patch 1 is called patch.MPQ; the paths of different
\* triples differ.
Data == "Data"
Directories == {Data} \cup Range(Locales)
RequiredStems == {"wmo", "terrain", "model", "dbc", "common", "expansion", "common-2",
    "lichking", "art", "expansion1", "expansion2", "expansion3", "world", "world2"}
Stems == RequiredStems \cup {"locale", "patch", "wow-update"}
PathType == [dir : Directories, stem : Stems, number : Nat]
Base(stem) == [dir |-> Data, stem |-> stem, number |-> 0]
LocaleArchive(l) == [dir |-> l, stem |-> "locale", number |-> 0]
Patch(d, n) == [dir |-> d, stem |-> "patch", number |-> n]
Update(d, n) == [dir |-> d, stem |-> "wow-update", number |-> n]

ASSUME LocalesAssumption ==
    /\ Locales \in Seq(STRING) /\ Locales # << >>
    /\ Data \notin Range(Locales)
ASSUME DisksAssumption == \A d \in Disks : d \subseteq PathType
ASSUME CoresAssumption == Cores \subseteq 0..6

VARIABLES
    disk,           \* the archives that exist, they do not change
    m_core,
    pc,             \* "locale", "lists", "scanning" or "done"
    i,              \* the loop variable of the search that runs
    prefix,         \* the directory scan_patches looks in
    m_curLocale,    \* index of the locale, from 0, or -1
    m_list,         \* the four lists
    result          \* what Init returns

feederVars == <<disk, m_core, pc, i, prefix, m_curLocale, m_list, result>>

Lists == {"base", "locale", "basePatch", "localePatch"}

-----------------------------------------------------------------------------
\* The search for the locale, which CLASSIC has none of.

LocaleAt(k) == LocaleArchive(Locales[k + 1])

Bug_FoundLocale_NoBreak ==
    /\ pc = "locale" /\ i < Len(Locales) /\ LocaleAt(i) \in disk
    /\ m_curLocale' = i
    /\ IF i + 1 = Len(Locales) THEN pc' = "lists" /\ UNCHANGED i
                               ELSE i' = i + 1 /\ UNCHANGED pc
    /\ UNCHANGED <<disk, m_core, prefix, m_list, result>>

FoundLocale ==
    /\ pc = "locale" /\ i < Len(Locales) /\ LocaleAt(i) \in disk
    /\ m_curLocale' = i
    /\ pc' = "lists"
    /\ UNCHANGED <<disk, m_core, i, prefix, m_list, result>>

NextLocale ==
    /\ pc = "locale" /\ i < Len(Locales) /\ LocaleAt(i) \notin disk
    /\ i' = i + 1
    /\ UNCHANGED <<disk, m_core, pc, prefix, m_curLocale, m_list, result>>

Bug_NoLocale_Continues ==
    /\ pc = "locale" /\ i = Len(Locales)
    /\ pc' = "lists"
    /\ UNCHANGED <<disk, m_core, i, prefix, m_curLocale, m_list, result>>

NoLocale ==
    /\ pc = "locale" /\ i = Len(Locales)
    /\ result' = FALSE
    /\ pc' = "done"
    /\ UNCHANGED <<disk, m_core, i, prefix, m_curLocale, m_list>>

-----------------------------------------------------------------------------
\* The lists

curLocale == Locales[m_curLocale + 1]
BaseStems ==
    CASE m_core = CLASSIC -> <<"wmo", "terrain", "model", "dbc">>
      [] m_core = TBC     -> <<"common", "expansion">>
      [] m_core = WOTLK   -> <<"common", "expansion", "common-2", "lichking">>
      [] m_core = CATA    -> <<"art", "expansion1", "expansion2", "expansion3",
                               "world", "world2">>
BaseFiles == [k \in DOMAIN BaseStems |-> Base(BaseStems[k])]

\* The clients whose patches are looked for: base archives first.
FillBase ==
    /\ pc = "lists" /\ m_core \in {CLASSIC, TBC, WOTLK}
    /\ m_list' = [m_list EXCEPT !.base = BaseFiles]
    /\ prefix' = Data /\ i' = 1
    /\ pc' = "scanning"
    /\ UNCHANGED <<disk, m_core, m_curLocale, result>>

Bug_Updates_NewestFirst(d) == <<Update(d, 15595), Update(d, 15354), Update(d, 15211)>>

\* The patches of CATA are named one by one.
Updates(d) == <<Update(d, 15211), Update(d, 15354), Update(d, 15595)>>

FillByHand ==
    /\ pc = "lists" /\ m_core = CATA
    /\ m_list' = [m_list EXCEPT !.base = BaseFiles, !.basePatch = Updates(Data),
                                !.locale = <<LocaleArchive(curLocale)>>,
                                !.localePatch = Updates(curLocale)]
    /\ result' = TRUE
    /\ pc' = "done"
    /\ UNCHANGED <<disk, m_core, i, prefix, m_curLocale>>

\* Newer clients: Init returns true and the lists are empty.
FillNothing ==
    /\ pc = "lists" /\ m_core > CATA
    /\ result' = TRUE
    /\ pc' = "done"
    /\ UNCHANGED <<disk, m_core, i, prefix, m_curLocale, m_list>>

-----------------------------------------------------------------------------
\* scan_patches

LastPatch == 8

\* FLT_BASE for the patches in Data, FLT_LOCALE for those of the locale.
Scanned == IF prefix = Data THEN "base" ELSE "locale"

Bug_ScanPatch_StopsAtGap ==
    /\ pc = "scanning" /\ i <= LastPatch
    /\ IF Patch(prefix, i) \in disk
       THEN /\ m_list' = [m_list EXCEPT ![Scanned] = Append(@, Patch(prefix, i))]
            /\ i' = i + 1
       ELSE i' = LastPatch + 1 /\ UNCHANGED m_list
    /\ UNCHANGED <<disk, m_core, pc, prefix, m_curLocale, result>>

Bug_ScanPatch_InFront ==
    /\ pc = "scanning" /\ i <= LastPatch
    /\ m_list' = IF Patch(prefix, i) \in disk
                 THEN [m_list EXCEPT ![Scanned] = <<Patch(prefix, i)>> \o @]
                 ELSE m_list
    /\ i' = i + 1
    /\ UNCHANGED <<disk, m_core, pc, prefix, m_curLocale, result>>

\* Numbers may be missing; the loop goes on behind a gap.
ScanPatch ==
    /\ pc = "scanning" /\ i <= LastPatch
    /\ m_list' = IF Patch(prefix, i) \in disk
                 THEN [m_list EXCEPT ![Scanned] = Append(@, Patch(prefix, i))]
                 ELSE m_list
    /\ i' = i + 1
    /\ UNCHANGED <<disk, m_core, pc, prefix, m_curLocale, result>>

\* After the patches in Data, the locale's archive, and then its patches.
ToLocalePatches ==
    /\ pc = "scanning" /\ i > LastPatch /\ prefix = Data /\ m_core # CLASSIC
    /\ m_list' = [m_list EXCEPT !.locale = <<LocaleArchive(curLocale)>>]
    /\ prefix' = curLocale /\ i' = 1
    /\ UNCHANGED <<disk, m_core, pc, m_curLocale, result>>

ScanDone ==
    /\ pc = "scanning" /\ i > LastPatch /\ (prefix # Data \/ m_core = CLASSIC)
    /\ result' = TRUE
    /\ pc' = "done"
    /\ UNCHANGED <<disk, m_core, i, prefix, m_curLocale, m_list>>

-----------------------------------------------------------------------------
FeederInit ==
    /\ disk \in Disks /\ m_core \in Cores
    /\ pc = IF m_core = CLASSIC THEN "lists" ELSE "locale"
    /\ m_curLocale = IF m_core = CLASSIC THEN 0 ELSE -1
    /\ i = 0 /\ prefix = Data
    /\ m_list = [l \in Lists |-> << >>]
    /\ result = FALSE

FeederNext ==
    \/ FoundLocale \/ NextLocale \/ NoLocale
    \/ FillBase \/ FillByHand \/ FillNothing
    \/ ScanPatch \/ ToLocalePatches \/ ScanDone

-----------------------------------------------------------------------------
\* PROPERTIES

\* The variables have their types; behind the search m_curLocale is a locale.
FeederTypeOK ==
    /\ disk \in Disks /\ m_core \in Cores
    /\ pc \in {"locale", "lists", "scanning", "done"}
    /\ i \in 0..Len(Locales) \cup 1..LastPatch + 1
    /\ prefix \in Directories
    /\ m_curLocale \in -1..Len(Locales) - 1
    /\ pc \in {"lists", "scanning"} => m_curLocale >= 0
    /\ m_list \in [Lists -> Seq(PathType)]
    /\ result \in BOOLEAN

\* When Init has returned true, the archives it named are those of one
\* language, the first of m_listLocale that is on disk; and it returns false
\* only if there is none of them.
Installed == {k \in DOMAIN Locales : LocaleArchive(Locales[k]) \in disk}
Named == UNION {Range(m_list[l]) : l \in Lists}
OneLocale ==
    pc = "done" /\ m_core # CLASSIC =>
        /\ result <=> Installed # {}
        /\ result => \A p \in Named : p.dir \in {Data, Locales[Min(Installed)]}

\* For the clients whose patches are looked for, the lists have every patch of
\* the client and of the language that is on disk, however many numbers are
\* missing between them, and none that is not.
PatchesComplete ==
    pc = "done" /\ result /\ m_core \in {CLASSIC, TBC, WOTLK} =>
        {p \in Named : p.stem = "patch"} =
        {p \in disk : /\ p.stem = "patch" /\ p.number \in 1..8
                      /\ p.dir = Data \/ (m_core # CLASSIC /\ p.dir = curLocale)}
=============================================================================
