----------------------------- MODULE Extractor -----------------------------
(***************************************************************************)
(* The program: main, Extractor::Init, Run, ExtractDBC and the destructor   *)
(* (Main.cpp, Extractor.cpp), composed with BuildNumber, whose steps find    *)
(* out which client the executable belongs to.  It uses the archives through *)
(* what ArchiveSet implements (TableStore) and the tables through what       *)
(* DBCFile guarantees (open accepts exactly the files that are tables of the *)
(* class): here a name either holds a table, or something else, or nothing.  *)
(*                                                                         *)
(* The file system outside may refuse anything: the client's executable or  *)
(* archives may be missing, the output directory may be missing and mkdir   *)
(* fail, and every write may be refused or cut short.                       *)
(***************************************************************************)
EXTENDS BuildNumber, FiniteSetsExt

CONSTANTS
    Names,      \* archived names: their ranks in the order of std::string
    BaseOf,     \* the base name of each, the name of the output file
    Worlds      \* what the program can be started on, see WorldType

Bases == {BaseOf[n] : n \in Names}
CLIENT_CATA == 3

\* The arguments after argv[0], the files under the three names of the client's
\* executable, the names GetFileList finds for each pattern, what the archives
\* hold under a name, and the outputs of an earlier run.
WorldType == [args : Seq(STRING), exes : SUBSET Executables,
              dbc : SUBSET Names, db2 : SUBSET Names,
              holds : [Names -> {"table", "junk", "nothing"}], old : SUBSET Bases]

ASSUME NamesAssumption  == Names \subseteq Nat \ {0} /\ IsFiniteSet(Names)
ASSUME BaseOfAssumption == DOMAIN BaseOf = Names
ASSUME WorldsAssumption ==
    \A w \in Worlds :
       w \in WorldType /\ {BaseOf[n] : n \in w.dbc} \cap {BaseOf[n] : n \in w.db2} = {}

VARIABLES
    world,
    pc,
    arg,        \* index of the argument Init looks at
    m_type, m_core,
    m_as,       \* the ArchiveSet pointer: "null", "live" or "dangling"
    deletes,    \* ~ArchiveSet calls so far
    haveDir,    \* the output directory exists
    kind,       \* "dbc" or "db2", the loop ExtractDBC is in
    todo,       \* names of that loop still to come
    name,       \* the name in hand
    count,      \* count_dbc and count_db2
    out,        \* the output directory: base name -> what is there
    result      \* what became of each name, which the program does not record

initVars == <<arg, m_type, m_core>>
loopVars == <<kind, todo, name, count>>
programVars == <<world, pc, initVars, m_as, deletes, haveDir, loopVars, out, result>>
vars == <<programVars, versionVars>>

NoOutput == [state |-> "absent", of |-> 0]
Old      == [state |-> "old", of |-> 0]       \* written by an earlier run
Partial(n) == [state |-> "partial", of |-> n]
Whole(n)   == [state |-> "whole", of |-> n]
Results == {"untouched", "passed over", "whole", "partial", "refused"}

-----------------------------------------------------------------------------
\* Init: the arguments.  An option takes the next argument, which is NULL
\* after the last one; -e takes the numbers 1 to 3 only.

Argument(k) == world.args[k]
Flags(short, long) == {short, long}
WithValue == Flags("-i", "--input") \cup Flags("-o", "--output")
ExtractFlags == Flags("-e", "--extract")
HelpFlags == Flags("-h", "--help")
HasValue == arg < Len(world.args)

\* atoi: 0 for anything that does not start with a number.
Numbers == [t \in {"1", "2", "3", "4"} |->
              CASE t = "1" -> 1 [] t = "2" -> 2 [] t = "3" -> 3 [] t = "4" -> 4]
ValueOf(t) == IF t \in DOMAIN Numbers THEN Numbers[t] ELSE 0

Parsing == pc = "args" /\ arg <= Len(world.args)
ArgsFrame == UNCHANGED <<world, m_core, m_as, deletes, haveDir, loopVars, out, result, versionVars>>

SetPath ==
    /\ Parsing /\ Argument(arg) \in WithValue /\ HasValue
    /\ arg' = arg + 2
    /\ UNCHANGED <<pc, m_type>> /\ ArgsFrame

Bug_SetType_Unchecked ==
    /\ Parsing /\ Argument(arg) \in ExtractFlags /\ HasValue
    /\ m_type' = ValueOf(Argument(arg + 1))
    /\ arg' = arg + 2
    /\ UNCHANGED pc /\ ArgsFrame

Bug_SetType_Zero ==
    /\ Parsing /\ Argument(arg) \in ExtractFlags /\ HasValue
    /\ ValueOf(Argument(arg + 1)) \in 0..3
    /\ m_type' = ValueOf(Argument(arg + 1))
    /\ arg' = arg + 2
    /\ UNCHANGED pc /\ ArgsFrame

SetType ==
    /\ Parsing /\ Argument(arg) \in ExtractFlags /\ HasValue
    /\ ValueOf(Argument(arg + 1)) \in 1..3
    /\ m_type' = ValueOf(Argument(arg + 1))
    /\ arg' = arg + 2
    /\ UNCHANGED pc /\ ArgsFrame

Bug_SkipUnknown_Stays ==
    /\ Parsing /\ Argument(arg) \notin WithValue \cup ExtractFlags \cup HelpFlags
    /\ arg' = arg
    /\ UNCHANGED <<pc, m_type>> /\ ArgsFrame

SkipUnknown ==
    /\ Parsing /\ Argument(arg) \notin WithValue \cup ExtractFlags \cup HelpFlags
    /\ arg' = arg + 1
    /\ UNCHANGED <<pc, m_type>> /\ ArgsFrame

\* Usage is printed and Init returns false; m_as is still NULL.
ShowUsage ==
    /\ Parsing
    /\ \/ Argument(arg) \in HelpFlags
       \/ Argument(arg) \in WithValue \cup ExtractFlags /\ ~HasValue
       \/ /\ Argument(arg) \in ExtractFlags /\ HasValue
          /\ ValueOf(Argument(arg + 1)) \notin 1..3
    /\ pc' = "usage"
    /\ UNCHANGED <<arg, m_type>> /\ ArgsFrame

ArgsDone ==
    /\ pc = "args" /\ arg > Len(world.args)
    /\ pc' = "core"
    /\ UNCHANGED <<arg, m_type>> /\ ArgsFrame

-----------------------------------------------------------------------------
\* Init: the client's version, its archives.
StartFrame ==
    UNCHANGED <<world, arg, m_type, haveDir, loopVars, out, result, versionVars>>

\* GetCoreAndBuildNumber: a step of the search, which opens the first file
\* there is under the three names.
SearchVersion ==
    /\ pc = "core"
    /\ \/ world.exes = {} /\ NoExecutable
       \/ \E file \in world.exes : OpenWoWExe(file)
       \/ Skip \/ Scan \/ ScanEnds \/ Match
       \/ \E junk \in [1..NumberLength -> JunkBytes] : ReadNumber(junk)
       \/ FindCore
    /\ UNCHANGED programVars

\* It returns whether the core is known.
GetCore ==
    /\ pc = "core" /\ step = "done"
    /\ m_core' = core
    /\ pc' = IF core = -1 THEN "failed" ELSE "feeder"
    /\ UNCHANGED <<m_as, deletes>> /\ StartFrame

\* FileListFeeder::Init fails when no locale of the client is found.
FeedLists(localeFound) ==
    /\ pc = "feeder"
    /\ pc' = IF localeFound THEN "archives" ELSE "failed"
    /\ UNCHANGED <<m_core, m_as, deletes>> /\ StartFrame

OpenArchives ==
    /\ pc = "archives"
    /\ m_as' = "live"
    /\ pc' = "run"
    /\ UNCHANGED <<m_core, deletes>> /\ StartFrame

Bug_OpenArchivesFails_Runs ==
    /\ pc = "archives"
    /\ m_as' = "dangling" /\ deletes' = deletes + 1
    /\ pc' = "run"
    /\ UNCHANGED m_core /\ StartFrame

\* The new ArchiveSet is deleted, and m_as keeps pointing to it.
OpenArchivesFails ==
    /\ pc = "archives"
    /\ m_as' = "dangling" /\ deletes' = deletes + 1
    /\ pc' = "failed"
    /\ UNCHANGED m_core /\ StartFrame

-----------------------------------------------------------------------------
\* Run and ExtractDBC

Dispatch ==
    /\ pc = "run"
    /\ pc' = IF m_type \in {0, 1} THEN "mkdir" ELSE "ran"
    /\ UNCHANGED <<world, initVars, m_as, deletes, haveDir, loopVars, out, result, versionVars>>

\* CreateDir makes one level, and its result is ignored.
MakeDir(made) ==
    /\ pc = "mkdir"
    /\ haveDir' = (haveDir \/ made)
    /\ pc' = "list"
    /\ UNCHANGED <<world, initVars, m_as, deletes, loopVars, out, result, versionVars>>

\* GetFileList for "*.dbc"; the list of "*.db2" is made at the same time, but
\* only for one core, and its loop follows.
ListTables ==
    /\ pc = "list"
    /\ kind' = "dbc" /\ todo' = world.dbc
    /\ pc' = "next"
    /\ UNCHANGED <<world, initVars, m_as, deletes, haveDir, name, count, out, result, versionVars>>

\* A std::set is walked in the order of its elements.
NextName ==
    /\ pc = "next" /\ todo # {}
    /\ name' = Min(todo)
    /\ todo' = todo \ {Min(todo)}
    /\ pc' = "open"
    /\ UNCHANGED <<world, initVars, m_as, deletes, haveDir, kind, count, out, result, versionVars>>

\* dbc.open: a table may be read ...
OpenTable ==
    /\ pc = "open" /\ world.holds[name] = "table"
    /\ pc' = "write"
    /\ UNCHANGED <<world, initVars, m_as, deletes, haveDir, loopVars, out, result, versionVars>>

\* ... and a name is passed over when it holds none, or reading it fails.
PassOver ==
    /\ pc = "open"
    /\ result' = [result EXCEPT ![name] = "passed over"]
    /\ pc' = "next"
    /\ UNCHANGED <<world, initVars, m_as, deletes, haveDir, loopVars, out, versionVars>>

Bug_Counted_OneCounter == [count EXCEPT !.dbc = @ + 1]
Counted == [count EXCEPT ![kind] = @ + 1]

\* What a write does besides the output file: its result is ignored.
Wrote(how) ==
    /\ result' = [result EXCEPT ![name] = how]
    /\ count' = Counted
    /\ pc' = "next"
    /\ UNCHANGED <<world, initVars, m_as, deletes, haveDir, kind, todo, name, versionVars>>

Bug_WriteTable_KeepsFirst ==
    /\ pc = "write" /\ haveDir
    /\ out' = IF out[BaseOf[name]].state = "absent"
              THEN [out EXCEPT ![BaseOf[name]] = Whole(name)] ELSE out
    /\ Wrote("whole")

\* dbc.write: fopen with "wb", one fwrite, fclose.
WriteTable ==
    /\ pc = "write" /\ haveDir
    /\ out' = [out EXCEPT ![BaseOf[name]] = Whole(name)]
    /\ Wrote("whole")

\* fopen truncated the file, fwrite did not get everything out.
WriteTableShort ==
    /\ pc = "write" /\ haveDir
    /\ out' = [out EXCEPT ![BaseOf[name]] = Partial(name)]
    /\ Wrote("partial")

\* fopen refused, as it always does without the directory.
WriteTableRefused ==
    /\ pc = "write"
    /\ UNCHANGED out
    /\ Wrote("refused")

Db2Loop ==
    /\ pc = "next" /\ todo = {} /\ kind = "dbc"
    /\ kind' = "db2"
    /\ todo' = IF m_core = CLIENT_CATA THEN world.db2 ELSE {}
    /\ UNCHANGED <<world, pc, initVars, m_as, deletes, haveDir, name, count, out, result,
                   versionVars>>

\* The counts are printed.
Report ==
    /\ pc = "next" /\ todo = {} /\ kind = "db2"
    /\ pc' = "ran"
    /\ UNCHANGED <<world, initVars, m_as, deletes, haveDir, loopVars, out, result, versionVars>>

\* main returns 0, after a failed Init too, and ~Extractor runs.
Exit ==
    /\ pc \in {"usage", "failed", "ran"}
    /\ deletes' = IF m_as = "null" THEN deletes ELSE deletes + 1
    /\ m_as' = "null"
    /\ pc' = "exited"
    /\ UNCHANGED <<world, initVars, haveDir, loopVars, out, result, versionVars>>

-----------------------------------------------------------------------------
InitState ==
    /\ VersionInit
    /\ world \in Worlds
    /\ pc = "args" /\ arg = 1 /\ m_type = 0 /\ m_core = -1
    /\ m_as = "null" /\ deletes = 0
    /\ haveDir \in BOOLEAN
    /\ kind = "dbc" /\ todo = {} /\ name = 0 /\ count = [dbc |-> 0, db2 |-> 0]
    /\ haveDir \/ world.old = {}
    /\ out = [b \in Bases |-> IF b \in world.old THEN Old ELSE NoOutput]
    /\ result = [n \in Names |-> "untouched"]

ParseStep == SetPath \/ SetType \/ SkipUnknown \/ ShowUsage \/ ArgsDone
StartStep ==
    \/ SearchVersion \/ GetCore
    \/ \E localeFound \in BOOLEAN : FeedLists(localeFound)
    \/ OpenArchives \/ OpenArchivesFails
ExtractStep ==
    \/ Dispatch
    \/ \E made \in BOOLEAN : MakeDir(made)
    \/ ListTables \/ NextName \/ OpenTable \/ PassOver
    \/ WriteTable \/ WriteTableShort \/ WriteTableRefused
    \/ Db2Loop \/ Report

Next == ParseStep \/ StartStep \/ ExtractStep \/ Exit

\* One thread, no waiting: the program goes on until it exits.
Spec == InitState /\ [][Next]_vars /\ WF_vars(Next)

-----------------------------------------------------------------------------
\* PROPERTIES

RunStates == {"run", "mkdir", "list", "next", "open", "write", "ran"}
States == RunStates \cup {"args", "core", "feeder", "archives", "usage", "failed", "exited"}

\* The variables keep their types, and no option is read past the last
\* argument by more than its value (Extractor::Init).
TypeOK ==
    /\ world \in Worlds /\ pc \in States
    /\ arg \in 1..(Len(world.args) + 1)
    /\ m_type \in 0..3 /\ m_core \in -1..6
    /\ m_as \in {"null", "live", "dangling"} /\ deletes \in 0..2
    /\ haveDir \in BOOLEAN
    /\ kind \in {"dbc", "db2"} /\ todo \subseteq Names
    /\ name \in Names \cup {0} /\ count \in [{"dbc", "db2"} -> Nat]
    /\ out \in [Bases -> {NoOutput, Old} \cup {Partial(n) : n \in Names}
                                         \cup {Whole(n) : n \in Names}]
    /\ result \in [Names -> Results]

Touched(b) == {n \in Names : BaseOf[n] = b /\ result[n] \in {"whole", "partial"}}

\* What the output directory holds follows from what became of the names: a
\* file is what the last write that reached it left there, whole or not, and a
\* file no write reached is as an earlier run left it.  In particular a failed
\* write spoils the earlier output (fopen truncates), and of two names with the
\* same base name the one later in the list stays.
OutputsFollowTables ==
    \A b \in Bases :
        IF Touched(b) = {} THEN out[b] = IF b \in world.old THEN Old ELSE NoOutput
        ELSE LET last == Max(Touched(b)) IN
             out[b] = IF result[last] = "whole" THEN Whole(last) ELSE Partial(last)

Listed == world.dbc \cup (IF m_core = CLIENT_CATA THEN world.db2 ELSE {})
Handled == {n \in Names : result[n] # "untouched"}

\* The command line as the usage text has it: an argument behind an option that
\* takes a value is that value, every other is an option or of no meaning.
TakesValue == WithValue \cup ExtractFlags
OptionsOf(args) ==
    LET option[k \in 0..Len(args)] == k > 0 /\ ~(option[k - 1] /\ args[k - 1] \in TakesValue)
    IN  {k \in 1..Len(args) : option[k]}
ExtractsOf(args) == {k \in OptionsOf(args) : args[k] \in ExtractFlags}

\* No option asks for help, misses its value or has one that is not offered.
WellFormed(args) ==
    /\ \A k \in OptionsOf(args) :
          args[k] \notin HelpFlags /\ (args[k] \in TakesValue => k < Len(args))
    /\ \A k \in ExtractsOf(args) : args[k + 1] \in {"0", "1", "2", "3"}

\* What the last -e asks for, everything without one.
AskedFor(args, type) ==
    \/ type = "0" /\ ExtractsOf(args) = {}
    \/ \E k \in ExtractsOf(args) : args[k + 1] = type /\ \A i \in ExtractsOf(args) : i <= k
GivesZero(args) == \E k \in ExtractsOf(args) : k < Len(args) /\ args[k + 1] = "0"

\* The program looks for the client, and does not print the usage, exactly if
\* the command line is well formed.  If it then opens the archives, and the
\* tables were asked for, it handles every listed name, exactly once, and no
\* other; else none.
DoesAsAsked ==
    /\ step = "done" <=> WellFormed(world.args)
    /\ Handled = IF deletes = 1 /\ (AskedFor(world.args, "0") \/ AskedFor(world.args, "1"))
                 THEN Listed ELSE {}

\* At the end that was done which the arguments ask for, save a zero behind -e.
\* One name that cannot be read or written does not keep the others out, *.db2
\* is for the one core only, and what is written are tables (Extractor::Init,
\* Run and ExtractDBC).
ExtractsAsAsked ==
    pc = "exited" =>
        /\ GivesZero(world.args) \/ DoesAsAsked
        /\ \A n \in Handled : result[n] # "passed over" => world.holds[n] = "table"

\* Extractor.cpp:27 offers 0 behind -e to extract everything.  (The code prints
\* the usage and extracts nothing.)
ZeroExtractsAll == pc = "exited" /\ GivesZero(world.args) => DoesAsAsked

\* Tables are extracted only from a client whose executable names a known
\* build, and those that one client alone has only from that client; a missing
\* executable and one without the text lead to nothing, whichever of 0 and -1
\* the search returned.  (One that ends in the number may name any build.)
ClientIsNamed ==
    Handled # {} =>
        \E p \in Occurs :
            \/ NumberBegins(p) + NumberLength - 1 > Size
            \/ LET build == NumberAt(NumberBegins(p)) IN
               build \in KnownBuilds /\ (Handled \cap world.db2 # {} => build = 15595)

FilesOf(k) == {b \in Bases : out[b].of \in world[k]}
OpenedOf(k) == {n \in world[k] : result[n] \in {"whole", "partial", "refused"}}
NoClash(k) == \A m, n \in OpenedOf(k) : BaseOf[m] = BaseOf[n] => m = n

\* The reported counts bound the files there are, and they are the number of
\* files when no write failed and no two tables have the same base name.
ReportBoundsFiles ==
    pc = "exited" =>
        \A k \in {"dbc", "db2"} :
            /\ Cardinality(FilesOf(k)) <= count[k]
            /\ (NoClash(k) /\ \A n \in OpenedOf(k) : result[n] = "whole")
                  => Cardinality(FilesOf(k)) = count[k]

\* Extractor.cpp:182-185 reports count_dbc and count_db2 as the number of files
\* extracted.  (The code counts a table whatever became of its write.)
ReportCountsFiles ==
    pc = "exited" => \A k \in {"dbc", "db2"} :
        count[k] = Cardinality({b \in FilesOf(k) : out[b].state = "whole"})

\* Nothing runs on archives that failed to open, and they are deleted once,
\* or twice when they failed to open: Init deletes them without resetting the
\* pointer and ~Extractor deletes it again.  Then nothing was written.
ArchivesHeld ==
    /\ pc \in RunStates => m_as = "live" /\ deletes = 0
    /\ deletes = 2 => pc = "exited" /\ Handled = {}

\* The program ends whatever its arguments and the client are: main has no
\* other loops than those over the arguments and the two lists.
Terminates == <>(pc = "exited")
=============================================================================
