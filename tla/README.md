# Verification of map-extractor

The repository builds one program, `map-extractor` (`src/src/map-extractor`): a
command-line tool that finds a World of Warcraft client, opens its MPQ archives
with StormLib, and writes the client's database tables (`*.dbc`, and `*.db2` for
one client version) to a directory. It is sequential: one thread, no messages.
What is hard about it is failure and reuse: archives with chains of patches in
which any version can be unreadable, one table object reused for hundreds of
files, a cursor that reports a cut-off read as a success, writes whose result
nobody looks at, and resources that must be given back on every path.

Paths below are relative to `src/src/map-extractor` unless they start with `src/`.

## The system

| part | state | operations | uses |
|---|---|---|---|
| main, `Extractor` (Main.cpp, Extractor.cpp) | `m_type`, `m_core`, the pointer `m_as`, the two counts, the output directory | `Init` (arguments, version, lists, archives), `Run`, `ExtractDBC`, destructor | everything below |
| client version (Utils.cpp) | none | `GetCoreAndBuildNumber`: scans the executable for a build number | the file system |
| `FileListFeeder` | four lists of archives, the locale | `Init`, `scan_patches` | the file system |
| `ArchiveSet` | `m_mpqList`, the open handles | `Init`, `ReadFile`, `GetFileList`, destructor | StormLib, `FileListFeeder` |
| StormLib (vendored, `src/dep/StormLib`): patch chains | an archive with the patches attached to it | open archive, attach patch, open, size, read | |
| StormLib: a file | position, the sector loaded last | `SFileReadFile`, `SFileSetFilePointer` | |
| StormLib: the list file | a cache of one block, the line so far | `SFileFindFirstFile`/`NextFile` on `(listfile)` | a file |
| StormLib: the tables of an archive | hash table, file table, the list file's flag | add, remove, rename, set locale, flush, close, open | |
| `MPQStream` | one buffer, cursor, size, `m_eof` | `open`, `read`, `seek`, `getBuffer` | `ArchiveSet::ReadFile` |
| `DBCFile`, `DB2File` | header members, two pointers into the stream's buffer, the output name | `open`, `write`, `getRecord` | an `MPQStream` each |
| `ChunkParser`, `WDTFile` | a table of chunks, the map of tiles | `Load`, `GetChunk`, `open`, `GetADTFileList` | `MPQStream`; not used by the program yet |
| `ADTConverter` and the ADT, WMO, MD headers | | | not in the build |

The parts interact by calls only. `Extractor` owns the `ArchiveSet`; a `DBCFile`
owns an `MPQStream`, which asks the `ArchiveSet` for the bytes of a name and owns
the buffer it gets; `DBCFile` keeps raw pointers into that buffer.

What makes each part correct:

* `ArchiveSet`: a lookup gives the newest readable version; on every path files
  are closed and buffers freed; every open archive can be closed.
* `MPQStream`: the cursor never passes the end unnoticed, for then `m_size - m_pos`
  would wrap.
* `DBCFile`: exactly the well-formed tables are accepted; after any history an
  object describes the last file only; no pointer leads out of the owned buffer.
* A file in sectors and the list file in it: a caller gets the bytes that stand at
  its position, whatever was loaded before and whichever load failed; every line
  between readable blocks is found in one piece and given once.
* The tables of an archive: what was added and not removed is found, and nothing
  else; slot and entry lead to each other after any history of calls.
* `Extractor`: what is done is what the command line asks for, and only for a client
  whose executable names it; the output directory holds what the last write of each
  name left; every listed name is tried; nothing runs on archives that failed to open; the
  program ends.

`PROJECT.json` lists the hazards line by line, with the properties that cover them.

## The modules

| module | models | notes |
|---|---|---|
| `MPQStream` | MPQStream.cpp | Actions `OpenStream`, `Read`, `Seek` over the stream's variables; extended by a user of a stream, which conjoins them. A buffer is the serial number of its allocation, so a pointer into a deleted buffer is told from one into its successor. `SizeMod` is 2^w of `size_t`. |
| `DBCFile` | DBFile.cpp | One object of either class and any sequence of `open` and `write` on it. `open` is one step per read: `OpenFound`/`OpenMissing` (lines 52-60, 178-186), `ReadMagic`, `ReadWord`/`ReadWordFails` (one per header word), `SizeCheckFails`/`SizeCheckPasses`. |
| `PatchChain` | StormLib: `OpenPatchedFile`, `SFileGetFileSize`, `ReadMpqFilePatchFile` | Constant operators on a chain, the entries an archive and its patches hold for a name: which stay linked in the file handle, whether the size is 0, whether reading succeeds. A patch that gives no size of the version before it is applied unchecked (SFilePatchArchives.cpp:364), so it stands as a complete entry. |
| `MpqFile` | StormLib: `SFileReadFile`, `SFileSetFilePointer`, `ReadMpqSectors` | One open file in sectors: one step per sector loaded, with its failure. A byte is its position in the file, so a copy from the wrong sector shows. Extended by a reader of a file. |
| `ListFile` | StormLib: SFileListFile.cpp, `CheckWildCard` | The search of a list file on `MpqFile`: `ReloadListFileCache`, `ReadListFileLine` (a line is put together character by character over the ends of the cache), patch information, masks. Needed by `ArchiveSet::GetFileList`. |
| `FileTable` | StormLib: SBaseCommon.cpp, SBaseFileTable.cpp, SFileAddFile.cpp, SFileListFile.cpp | The open-addressed hash table and the file table, as one record that the operations transform; one action per call of the library, `Reopen` for closing and opening again. `held` is a history variable: the files a caller added and did not remove. |
| `TableStore` | nothing: an abstract specification | A store that answers every request with the newest readable version, computed from the bottom of each chain upwards, not the way the code does it. `Safety` is `Spec` without its fairness. |
| `ArchiveSet` | ArchiveSet.cpp | One action per library call inside `Init`, `ReadFile` and `GetFileList`, with its failure; the handles, files and buffers held are state. The property `ImplementsStore` is the refinement of `TableStore`: a running `ReadFile` is a pending request, its return is the answer. |
| `FileListFeeder` | FileListFeeder.cpp | The search for the locale, the lists of each client, the scan for patches: one step per file whose existence is tested (`FoundLocale`/`NextLocale`/`NoLocale`, `ScanPatch`). A path is its directory, its stem and its number. |
| `ClientArchives` | Extractor.cpp:100-114 | The composition of `FileListFeeder` and `ArchiveSet` (by `INSTANCE`, with the feeder's `m_list` as the set's plan). An archive that is not on disk cannot be opened. |
| `BuildNumber` | Utils.cpp:36-190 | The scanner as a machine over the bytes: `Skip`, `Scan` for a W, `Match` byte by byte, `ReadNumber`, `FindCore`. Bytes of the number behind the end of the file are any bytes, since the code converts memory it never wrote. Its definitions have names of their own (`VersionInit`, `VersionNext`, `versionVars`), so that `Extractor` can extend it. |
| `WDTFile` | WDTFile.cpp, ChunkParser.cpp | An object and its chunk table over any sequence of `open`, on `MPQStream`. `Load` is one step per read, with the old bytes a cut read leaves in its variables. A tile that is read from outside the chunk is any value. |
| `Extractor` | Extractor.cpp, Main.cpp | From the first argument to the exit, composed with `BuildNumber`: `SearchVersion` is a step of its scanner on the executables of the world, and `GetCore` takes what it returns. `OptionsOf`, `WellFormed` and `AskedFor` say of a command line what it asks for, without the variables of the program. The archives appear as what `ArchiveSet` implements, a table as what `DBCFile` accepts: a listed name holds a table or does not, and reading a table may fail. |
| `DBCFileProofs`, `ArchiveSetProofs`, `FileTableProofs`, `ExtractorProofs`, `ClientArchivesProofs`, `WDTFileProofs`, `BuildNumberProofs`, `ListFileProofs` | | the theorems about the module each is named after, and the lemmas about numbers, sets and sequences they rest on |
| `MCDBCFile`, `MCArchiveSet`, `MCClientArchives`, `MCBuildNumber`, `MCWDTFile`, `MCExtractor`, `MCListFile`, `MCFileTable` | | the instances TLC checks |

Definitions named `Bug_<Definition>_<What>` are not part of a model. Each is
a plausible bug in `<Definition>`, kept to show that a property notices it.

## The runs

| run | what it shows | instance |
|---|---|---|
| `MCDBCFile.cfg` | `OpenAcceptsTables`, `ObjectIsFresh`, `TableInBounds`, `OutputsAreTables`, `CursorInBounds` | Files of both classes whose sizes end inside the magic number, at it, inside and after the header, at the claimed size and one byte short; claims from an empty table to the largest words; two names with one base name. Three opens: a good table, a bad one after it, and a good one again. Bytes have 3 values instead of 256 (a header word 81), because only the order of sizes and the loss of high bytes of a cut word matter. |
| `MCArchiveSet.cfg` | `ImplementsStore` with its liveness, `ReadReleasesAll`, `ArchivesAccounted`, `ListIsComplete` | Two archives and two patches in the three ways the clients group them; all 6^4 combinations of entries for one name; all list files. Two calls, so that the second starts from whatever the first left. Names do not interact, so one is enough. |
| `MCArchiveSetDeleted.cfg` | violated: `DeletedStaysDeleted` | as above |
| `MCClientArchives.cfg` | `OneLocale`, `PatchesComplete`, `NewestByNumber`, `UpdatesFollowArchive` | The five kinds of client; no, one or two of three locales on disk, one of them without patches; patches up to number 8 with gaps; the table in none, one or two of the archives, whole or damaged; every failure to open. One lookup: a lookup does not change the lists. |
| `MCBuildNumberText.cfg` | violated: `FindsText` | The search alone, on the executables of `MCExtractor.cfg` |
| `MCWDTFile.cfg` | `TableIsOfFile`, `ListIsOfFile`, `CursorInBounds`, `LoadEnds` | Maps of 2 by 2 tiles instead of 64 by 64: an entry is inside the chunk, behind it, or behind the file, and four entries give all of these in one file. Seven layouts, one cut at every length. Two opens of one object. |
| `MCListFile.cfg` | `CacheShowsFile`, `NamesInOnePiece`, `ListsEveryName`, `SearchEnds` | A cache of 2 characters and sectors of 1, 2 and 4, so that a block is several sectors, one, and part of one; all texts of up to 5 characters over 5 letters (a name, a mask's text, `~`, end of line) and composed longer ones, so that a line ends before, at and behind the end of a block and of a sector, and is longer than a name may be; every subset of blocks unreadable. |
| `MCFileTable.cfg` | `SlotsFindFiles`, `FindsOnlyHeld`, `KeepsFiles` | Four slots, two names and the list file, two locales, and two hash functions: all names at one home, and homes that run around the end. Any history of calls: the state is finite without a bound. The table can be full, so the list file may find no room. |
| `MCFileTableLost.cfg` | violated: `NothingLost` | as above |
| `MCExtractor.cfg` | `ExtractsAsAsked`, `OutputsFollowTables`, `ReportBoundsFiles`, `ArchivesHeld`, `FindsCleanText`, `ReturnsTheNumber`, `ClientIsNamed`, `Terminates` | Fourteen command lines (options without a value, an option as a value, repeated, unknown, numbers that are offered and others); two `*.dbc` names with one base name and a `*.db2`; tables, junk and missing files; an output of an earlier run. Each meets no executable, one without the text, and two good ones. One more command line meets about 800 executables put together from false starts, the text (whole, cut, twice), a gap of the right width or one less, and known, unknown, short and negative numbers; the good ones cut at every length. The jump is 2 bytes instead of 3300 * 128, so that the text can begin before, at and behind its end. Every failure of every step. |
| `MCExtractorUsage.cfg` | violated: `ZeroExtractsAll` | The worlds of `MCExtractor.cfg` in which `-e 0` is given and a client and a table are there |
| `MCExtractorReport.cfg` | violated: `ReportCountsFiles` | as above |

Deadlock is checked where the system never stops (`MCDBCFile`). The extractor
exits and a set of archives is destroyed, so those runs do not check it.

### Where code and documents disagree

Each of these is a run that TLC finds violated:

* `DeletedStaysDeleted`: ArchiveSet.cpp:117 passes over a deletion marker as over
  a missing entry, and an older archive's version is found
  (`src/dep/StormLib/src/StormLib.h:190` says the file no longer exists). Inside one
  archive and its patches the marker hides the older entries, as it should.
* `ZeroExtractsAll`: the usage text says of `-e` that `0 = all` (Extractor.cpp:27-28), but
  line 77 takes 1 to 3 only: with `-e 0` the usage is printed and nothing is
  extracted. `ExtractsAsAsked` states what is asked for from the arguments alone and
  leaves out a zero behind `-e`; every other command line does what it says.
* `ReportCountsFiles`: the reported counts (Extractor.cpp:182-185) include tables
  whose write failed.
* `FindsText`: the search for the build number (Utils.cpp:59-60: "searches for a
  specified group of hex values in order to locate and return the Build #") misses
  the text when a partial match runs into it: `WWoW [Rel` is not found.
* `NothingLost`: `FindFreeFileEntry` (`src/dep/StormLib/src/SBaseFileTable.cpp:1463`)
  clears the free entry it is about to reuse. Its memory is already zero, so its
  `dwHashIndex` is 0, and slot 0 of the hash table is marked as deleted whatever
  file owns it: that file was never deleted and is not found any more. The
  theorems `FilesKept` and `SpareSlot` say what is left: slot 0 is the only
  place where this can happen. The program itself only reads archives.

Seen while reading, and in the models, but not a run of their own:

* A search for the build number that fails returns -1 (Utils.cpp:67), not the 0 of
  Utils.cpp:63. The program is not misled: `ClientIsNamed` shows that
  neither value lets it extract anything.
* An unreadable block of a list file does not end the reading, as the comment at
  `src/dep/StormLib/src/SFileListFile.cpp:135-138` has it: the position is already
  behind the block, and the next line comes from the next block. A line cut off by
  the hole can be joined with nothing, as `NamesInOnePiece` shows.
* `CheckWildCard` takes the first place of the text behind a star and does not go
  back: `x.dbc.dbc` does not match `*.dbc`. `ListsEveryName` leaves such names out.

`ArchivesHeld` also records, without a document to hold against it, that a failed
`ArchiveSet::Init` makes the program delete the set twice (Extractor.cpp:109 and
the destructor), and `ArchivesAccounted` that one archive stays open when a patch
cannot be attached (ArchiveSet.cpp:67). `ListIsOfFile` leaves out the second
`open` of a `WDTFile` that finds an older `MAIN` entry in its chunk table: the
entry, a pointer into the deleted buffer or NULL, stays (ChunkParser.cpp:28).
`LoadEnds` is about the 64-bit build: with 32 bits a length can move the cursor
back to a header it has read, and `Load` does not end.

### Fairness

`ArchiveSet` assumes weak fairness of the steps inside a lookup, `WDTFile` of
those inside an open, `ListFile`, `BuildNumber` (alone) and `Extractor` of their next step:
the program is one thread that waits for nothing, so a call that began goes on.
`FileTable` states no fairness and no liveness: a caller may stop calling. Nothing
is assumed about what the environment does or which of a step's outcomes happens; a
failing read may fail every time.

## The proofs

`DBCFileProofs` proves, for every set of files, every width of a byte and any number of calls:

* `TypeCorrect`: `Spec => []TypeOK`.
* `CursorCorrect`: `Spec => []CursorInBounds`, for every width of `size_t`.
* `TableBounds`: `Is64Bit /\ Spec => []TableInBounds`, where `Is64Bit` says that
  `size_t` holds the product of two header words.
* `FreshObject`: `Spec => []ObjectIsFresh`.
* `VerdictCorrect`: `Is64Bit /\ Spec => []OpenAcceptsTables`.
* `OutputsCorrect`: `Is64Bit /\ Spec => []OutputsAreTables`.

None of them is inductive alone. The invariant `IInv` adds: while the header is
read the cursor is at four times the number of words read, or the stream is at
its end (`Progress`, `Opening`); a member read so far is at most the word in the
file; and when the object has records, the size check of this very buffer has
passed with these very members (`Loaded`). `TableBounds` then needs that the
check did not wrap (`ExactClaim`: sum and product stay below `SizeMod`, which is
where the 64-bit assumption is used) and that record `i` ends where record
`i + 1` begins (`LoadedInBounds`). The 32-bit build is outside the theorem: there
the product wraps, and the property fails. `FreshObject` needs that a read cut off
inside a word can only lower its value, so that such a file still fails the size
check or describes itself; `VerdictCorrect` adds the other direction, that a file
`IsTable` describes passes every step; and `OutputsCorrect` that a write happens
only between a successful open and the next one, when the stream's buffer is the
file's.

`ArchiveSetProofs` proves for every client (any archives, patches, groupings, entries):

* `TypeCorrect`: `Spec => []TypeOK`.
* `ReadReleases`: `Spec => []ReadReleasesAll`.
* `ArchivesClosed`: `Spec => []ArchivesAccounted`.
* `ListComplete`: `Spec => []ListIsComplete`.
* `ReadFileIsStore`: `Spec => Store!Safety`, the safety half of `ImplementsStore`:
  every step of the set is a step of `TableStore` or a stutter.
* `LinkedArePatches`: above the entry that carries a file handle only patches are
  linked, for every chain; StormLib asserts it at `SFilePatchArchives.cpp:440`.

The invariant `IInv` is `TypeOK` with four parts. `ListsOK`: the handles in
`m_mpqList` are, in order, those of the archives the lists name, and the list is
complete once `Init` has succeeded; a lookup's index is inside it. `HandlesOK`:
outside `Init` every open archive is in the list, and inside it at most the last
one is not. `ReadOK`: how many files and buffers are held at each point of
`ReadFile`, and that a buffer in hand has a size. `NamesOK`: what `GetFileList`
has collected is what the archives it has passed hold. `ListComplete` needs the
list to be complete, and `ArchivesClosed` that a failed `Init` stops between two
calls: neither follows from its own property in the state before.

`ReadFileIsStore` needs more. `TableStore` computes the content of a chain from the
bottom: a complete entry replaces what was there, a patch adds to it. The code
searches for the last complete entry. `ContentsExist` shows that the recursive
function of `TableStore` is defined (a least index at which it is not would be a
successor of one at which it is), `SoundStep` and `SoundAll` compare the two up to each
index, and `AnswersIsContent` states the result: the library reads exactly the
chains that have a content, and what it links is that content. `ChainsOK`
(every handle has the planned archive and all its patches, in order) and
`LookupOK` (every archive the lookup has passed does not answer, and what it has in
hand is an answer) then say what a lookup knows at each of its steps, and
`StoreStep` maps each action.

`FileTableProofs` proves for every set of names and locales, every size of the
tables and every hash function:

* `TypeCorrect`: `Spec => []TypeOK`.
* `SlotsCorrect`: `Spec => []SlotsFindFiles`.
* `OnlyHeld`: `Spec => []FindsOnlyHeld`.
* `FilesKept`: `Spec => KeepsFiles`, an action property.
* `SpareSlot`: in a table that satisfies the invariant, as long as some entry has
  no file there is a slot that can be used; so `AllocateHashEntry` never fails
  silently after an entry was found.

The invariant `IInv` is `TypeOK` with four parts. `TableInv` is about the tables
alone: a used slot leads to an entry that leads back (`SlotOK`) and no slot from
its home to it is free, a name has one slot in a locale, an entry without a file is
clear and no entry behind the size has a file (`EntryOK`). `Listed`: what is found is
held. `NoList`: while the flag says that there is no list file, there is none.
`Writing`: the file being added is in the tables, under its name.
`SlotsFindFiles` is not inductive alone: that a second file does not get an entry
in use needs the entries without a slot to be without a file, and that the exact
lookup returns this slot needs the path to it and the uniqueness. Every
operation is a composition of a few transformers of the tables
(`AllocateHashEntry`, `ClearFileEntry`, `Shrunk`, `Rebuilt`, ...); one lemma for each
says that it keeps `TableInv` and what it does to the files that are found, and the
lemma of an action combines them. `KeepsFiles` follows from `KeepsSlots` (what a
transformer does to the slots) and `FoundBySlot` (a file is found exactly if a used
slot has its name and locale).

`ClientArchivesProofs` proves for every list of languages, every content of the disk and
every client:

* `TypeCorrect`: `Spec => []TypeOK`.
* `LanguageIsFirst`: `Spec => []OneLocale`.
* `PatchesFound`: `Spec => []PatchesComplete`.
* `UpdatesAttached`: `Spec => []UpdatesFollowArchive`.
* `NewestAnswers`: `Spec => []NewestByNumber`.

`IInv` says where the feeder is: the languages it has passed are not on disk
(`Searching`), and the lists hold the base archives and exactly the patches with
numbers below that of the scan (`Listing`, `PatchesBelow`). `Filled` adds that the
numbers in a list never fall and what the lists written out by hand are. The last two
theorems are about the composition. `ClientArchivesProofs` instantiates
`ArchiveSetProofs` with the feeder's lists as the plan; `SetSteps` shows that every step
of the composition is a step of that set, or one of the feeder while the set is
still as constructed, so the invariant of the set holds here too (`SetHolds`). `LookupOK` then
gives the last planned archive that answers, and `PlannedFacts` and `LaterNotOlder` turn
"last in the lists" into "newest by the names on disk".

`ExtractorProofs` proves, for any names, command lines, executables and worlds:
`TypeCorrect`, `OutputsCorrect` (`OutputsFollowTables`), `AskedIsDone`
(`ExtractsAsAsked`), `ArchivesCorrect` (`ArchivesHeld`), `ReportIsBound`
(`ReportBoundsFiles`), `ContainsSearch` and `ClientCorrect` (`ClientIsNamed`). The invariant `IInv` splits the names of a loop into those handled and
those pending, all of which come later (`Looping`), and says that a file is what the
last name handled that maps to it left (`LastWins`). `ReportIsBound` adds that the counts
are the cardinalities of the sets of tables opened (`CountsOK`).

A second invariant, `AskedInv`, ties the program to its command line. `OptionsOf` says
which arguments are options by a recursive function over all of them; `OptionFacts`
turns it into a statement about an argument and the one before it, and `Parsed` is what
`Init` knows when it looks at argument `arg`: it is an option, those before it are
good, and `m_type` is what the last `-e` before it asks for. `ParsedStep` moves that past
one option, and `LineFacts` says what it means at the end and at an option that is
not good. `SearchPlace` says which arguments are passed, and how far the search is,
at every place of the program, and `Known` that behind the search `m_core` is the core it
found. `ContainsSearch` shows that a run of the program is a run of `BuildNumber`, step
for step or stuttering, so that the invariant of that module holds in the program too;
`ClientCorrect` combines it with `Known`.

`WDTFileProofs` proves `TypeCorrect` and `CursorCorrect` for every width of `size_t`, and
`TableCorrect` (`Is64Bit /\ Spec => []TableIsOfFile`) and `ListCorrect`
(`Is64Bit /\ Spec => []ListIsOfFile`), for files of any number of chunks. `Here` is where
the header of the chunk begins that `Load` is at, and `Seen` the chunks before it; the
invariant says that `Here` is the start of a chunk or the end of the file (`Place`), and
that the table has the first chunk of each kind among those seen (`Table`). `Is64Bit` says
that the size of a file, a word and the largest length add up to at most `SizeMod`.

`ListFileProofs` proves all four invariants of the run, for every list file, mask, size of
the cache and the sectors, and whatever blocks cannot be read: `TypeCorrect`,
`CacheCorrect` (`CacheShowsFile`), `OnePiece` (`NamesInOnePiece`) and `EveryNameListed`
(`ListsEveryName`). The invariant follows a character from the disk to the list:

* `SectorOK` is about the sector the handle keeps between reads: it is the one the
  position is in, with its bytes, or it lies before every block still to come and
  will not be taken for one of them. That needs `BlocksAssumption`: a block is some
  sectors or a part of one, so either a read copies whole sectors and keeps none but the
  last of the file, or it lies inside a single sector. `ReadOK` says what a read has
  copied so far.
* `CacheOK`: the cache shows the block at its position, or all of it is used up.
* `LineOK`: the line so far is one piece of the file without an end of line, and the next
  character of the cache is the one behind it; after a hole the line is empty. `TildeOK`:
  the patch information is cut off at the last `~`. `OnePiece` follows.
* `PlaceOK`, as long as every block could be read: `Here`, the next character to look at,
  is behind the end of a line with nothing but blanks between (`AtBreak`), begins a line,
  or continues the line in hand.
* `ListedOK`: the list holds the names that were chosen among the lines that begin before
  `Passed`; between two places that `Passed` takes no line begins, and each line is met at
  its first character.

`EveryNameListed` compares two recursions over the mask, `CheckWildCard`, which takes the
first place of a text behind a star for good, and `Glob`, which means any place. Both are shown
to be defined for every mask, and to agree where each text of the mask stands at most once
in a name, by a counterexample nearest the end of the mask (`FitsExist`, `SameFits`). A place the code takes
and one `Glob` takes are then the same; without the hypothesis `x.dbc.dbc` refutes it.

`BuildNumberProofs` proves `VersionTypeCorrect`, `CleanTextFound` (`FindsCleanText`),
`NumberCorrect` (`ReturnsTheNumber`) and `ClientNamed` (a core is reported only if the
executable names its build), for executables of any length; by `ContainsSearch` they hold
of the program. The invariant: the bytes matched are the last ones read
(`Position`), and no place where the text begins with nothing before it to distract the
scanner has been passed (`NotPassed`). `VersionTypeCorrect` needs that the conversion of any five
bytes is in `NumberRange` (`AtoiRange`): its digits follow each other from the first on
(`LeadingPlaces`), a sign takes the place of one, and each digit adds at most a factor of
ten (`ValueRange`). The value is a recursive function of at most five places, so its
existence is five steps (`ValueExists`) and not an induction.

`Min` and `Max` of the community modules are `CHOOSE` expressions; `MaxOfIndices`,
`MinOfNaturals`, `MaxIs` and `MinIs` give them their meaning in the modules that use them, from
`LeastNatural` (every non-empty set of naturals has a least element, an instance
of the well-foundedness of `<`), which also stands in for induction: what holds for every
index of a recursive function is shown by the least index at which it would not.
`FileTableProofs` uses the same fact for the first and last slot from a home, and
`FS_PigeonHole` for `SpareSlot`.

Only model-checked: everything about liveness (`Terminates`, `LoadEnds`, `SearchEnds`
and the fairness in `ImplementsStore`), which is out of the proof system's reach. The other
properties of the passing runs are theorems; five of them are stated for the 64-bit
build (`Is64Bit`).

The assumptions are those named in the modules: sizes and widths are natural
numbers, a header word is four bytes and can hold the size of either header
(48), files have a size above 0 and a path, the worlds are well typed, no file has
the name that stands for none (`NamesAssumption`), there is at least one language to
look for and none is called `Data` (`LocalesAssumption`). For `ListFile`: the block of the
cache and the sectors divide one another, as powers of two do (`BlocksAssumption`), a name
has room for two characters (`SizesAssumption`), and the mask has no `?`
(`MaskAssumption`; the program asks for `*.dbc` and `*.db2`). For `BuildNumber`: bytes
are bytes, and memory that was never written holds some (`JunkAssumption`).

## Bounds

`MaxOpens` (opens per `DBCFile` or `WDTFile` object), `MaxCalls` (calls of
`ReadFile` and `GetFileList`) cap the counters. An object has no memory of a call but its members, and three
opens reach every pair of a history and a new file; a lookup depends only on
`m_mpqList`, which does not change after `Init`. A `WDTFile` keeps its chunk table
as well, and two opens give every pair of a table and a new file. `Extractor`,
`BuildNumber`, `FileListFeeder` and `ListFile` need no bound: they end. `FileTable`
needs none either: its state is finite, and TLC explores every history of calls.
Four slots hold every file of two names and two locales but not the list file as
well, so the full table is reached too.

## Not modelled

* `getMaxId`, `getMinId` and the accessors of `Record`: they read only, and
  nothing in the program calls them. `TableInBounds` says where they may read.
* The 32-bit build, except in `CursorInBounds` of `DBCFile`.
* Files that appear or vanish while the program runs.
* Of StormLib's tables: HET and BET tables and `(attributes)` (the modules are
  about archives of the classic format), names that are not known, a lack of
  memory, a write of the tables that fails, a crash before the archive is closed,
  compaction and a change of the table's size (`dwHashTableSize` is the number of
  entries as well). Between `SFileCreateFile` and `SFileFinishFile` nothing else is
  called, as in `SFileAddFileEx`. A failed replacement also removes the file it was to
  replace; the model does so, and `held` counts it as removed.
* Of a file in an archive: compression, encryption, checksums, files of a single
  unit and patch files; a load of sectors gives the bytes or fails.
* Of the list file: `SFileAddListFile`, the sorted list file that is written, the
  search of the hash table when there is no list file. A line that begins with `~P`
  ends the listing, and a line longer than a name may be is split, in the model as
  in the code.
* Texts, banner, and the map tables of Utils.cpp.
* `ADTConverter.cpp`, which is not built and does not compile.
* The other vendored libraries, most of the 468,634 lines of the repository. ACE,
  G3D, zlib, bzip2 and the tools beside them keep no state the program relies
  on, and of most of them it calls nothing: a model of, say, the reactors of ACE
  would say nothing about this program. The program itself has about 3,000
  lines and is modelled but for texts and headers; the rest of what is modelled is
  the part of StormLib it stands on. So the share of all lines that is modelled
  stays small, and a large share is not a goal here.

## Plan

Done: every component that is built is modelled and checked, with the parts of
StormLib below them; every invariant of the passing runs is proved, and the refinement of
`TableStore` but for its fairness. Next, in this order:

1. `Extractor` over the specifications its other parts implement instead of free
   outcomes, as it is composed with `BuildNumber` now: the archives from `TableStore`,
   the tables from an abstract `open` that `DBCFile` is shown to implement, so that
   the composition is one refinement.
2. An abstract archive, a set of names and locales, that `FileTable` implements but
   for slot 0.
3. The 32-bit build of `DBCFile` and `WDTFile` as a run of its own, with what
   still holds there.
