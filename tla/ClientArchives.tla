--------------------------- MODULE ClientArchives ---------------------------
(***************************************************************************)
(* FileListFeeder and ArchiveSet together, the way Extractor::Init runs     *)
(* them (Extractor.cpp:100-114): the lists are made from what is on disk,   *)
(* then the archives are opened in their order, and then tables are looked  *)
(* up in them.  An archive that is not on disk cannot be opened.            *)
(***************************************************************************)
EXTENDS FileListFeeder

CONSTANTS
    Clients     \* the clients that can be found, see ClientType

\* The archives on disk, the core, and what each archive holds for a name.
ItemNames == {"item"}
EntryKinds == {"absent", "full", "corrupt", "marker", "patch", "badpatch"}
ClientType == [disk : Disks, core : Cores,
               held : UNION {[d -> EntryKinds] : d \in Disks}]
ASSUME ClientsAssumption ==
    \A c \in Clients : /\ c.disk \in Disks /\ c.core \in Cores
                       /\ c.held \in [c.disk -> EntryKinds]

VARIABLES
    held,
    setPc, phase, next, patched, handle, m_mpqList, open,
    name, it, size, buff, files, buffers, list, ok, calls

setVars == <<setPc, phase, next, patched, handle, m_mpqList, open,
             name, it, size, buff, files, buffers, list, ok, calls>>
vars == <<feederVars, held, setVars>>

Archives ==
    (UNION Disks) \cup {Base(s) : s \in RequiredStems} \cup
    (UNION {{LocaleArchive(d)} \cup Range(Updates(d)) : d \in Directories})

Set == INSTANCE ArchiveSet WITH
    Archives <- Archives, Names <- ItemNames, Worlds <- {}, MaxCalls <- 1,
    pc <- setPc, plan <- m_list,
    content <- [a \in Archives |->
                   [n \in ItemNames |-> IF a \in disk THEN held[a] ELSE "absent"]],
    listing <- [a \in Archives |-> {}]

-----------------------------------------------------------------------------
Init ==
    /\ \E c \in Clients : disk = c.disk /\ m_core = c.core /\ held = c.held
    /\ FeederInit
    /\ Set!Constructed

FeederStep == FeederNext /\ UNCHANGED <<held, setVars>>

\* Extractor::Init goes on only when the feeder returned true.
Fed == pc = "done" /\ result
SetFrame == UNCHANGED <<feederVars, held>>

OpenArchive ==
    /\ Fed /\ SetFrame
    /\ Set!OpenArchive
    /\ Set!ListOf(phase)[next] \in disk

ApplyPatch ==
    /\ Fed /\ SetFrame
    /\ Set!ApplyPatch
    /\ Set!PatchesOf(phase)[patched + 1] \in disk

InitFails == Fed /\ SetFrame /\ (Set!OpenArchiveFails \/ Set!ApplyPatchFails)
InitGoesOn == Fed /\ SetFrame /\ (Set!PushBack \/ Set!ToLocale \/ Set!InitDone)
ReadFile == Fed /\ SetFrame /\ \E n \in ItemNames : Set!ReadFile(n)
ReadStep == Fed /\ SetFrame /\ Set!ReadStep
Destroy == Fed /\ SetFrame /\ Set!Destroy

Next ==
    \/ FeederStep
    \/ OpenArchive \/ ApplyPatch \/ InitFails \/ InitGoesOn
    \/ ReadFile \/ ReadStep \/ Destroy

Spec == Init /\ [][Next]_vars

-----------------------------------------------------------------------------
\* PROPERTIES

\* The variables of both parts have their types.
TypeOK == FeederTypeOK /\ Set!TypeOK /\ held \in [disk -> EntryKinds]

\* The archives on disk that belong to the client and to its language, and
\* their age, by the names they have: the language's archives are newer than
\* the others, and among those of one directory the number tells.
OfClient(p) ==
    \/ p \in Range(BaseFiles)
    \/ m_core # CLASSIC /\ p = LocaleArchive(curLocale)
    \/ /\ p.stem = "patch" /\ p.number \in 1..8
       /\ p.dir = Data \/ (m_core # CLASSIC /\ p.dir = curLocale)
Newer(p, q) == (p.dir # Data /\ q.dir = Data) \/ (p.dir = q.dir /\ p.number > q.number)
Readable == {p \in disk : OfClient(p) /\ held[p] = "full"}

\* A lookup is answered from the newest archive on disk that holds the table
\* in readable form, by the numbers in the names and not by any list: gaps in
\* the numbers, the order of the scans and damaged versions do not matter.
NewestByNumber ==
    setPc = "ready" /\ name # Set!NoName /\ m_core \in {CLASSIC, TBC, WOTLK} =>
        IF buff = Set!Nothing THEN Readable = {}
        ELSE LET source == m_mpqList[buff.archive].archives[1]
             IN  source \in Readable /\ \A p \in Readable : ~Newer(p, source)

\* Every archive of CATA is opened with all the updates of its own directory,
\* attached in the order of their numbers: StormLib applies a patch to what
\* was attached before it.
UpdatesFollowArchive ==
    \A h \in Range(m_mpqList) :
        /\ \A k \in 2..Len(h.archives) :
              /\ h.archives[k].dir = h.archives[1].dir
              /\ \A j \in 2..k - 1 : h.archives[j].number < h.archives[k].number
        /\ Len(h.archives) = IF m_core = CATA THEN 4 ELSE 1
=============================================================================
