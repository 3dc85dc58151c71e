------------------------------ MODULE WDTFile ------------------------------
(***************************************************************************)
(* The table of map tiles (WDTFile.cpp) and the reader of chunked files it  *)
(* uses (ChunkParser.cpp), over a stream.  An object can be opened again    *)
(* and again; its chunk table is never emptied.                             *)
(*                                                                         *)
(* A chunked file is a sequence of chunks, each an identifier, a length and *)
(* that many bytes.  Load reads the two words of a header and seeks over    *)
(* the bytes.  The local variables of the two words keep their old bytes    *)
(* where a read is cut short.                                               *)
(***************************************************************************)
EXTENDS MPQStream

CONSTANTS
    ByteMod,    \* values of a byte, 256 in the code
    Side,       \* tiles along a side of the map, 64 in the code
    MAIN,       \* the identifier of the chunk with the tiles
    Files,      \* the files a call can be given, see FileType
    StaleSizes, \* what a failed ReadFile can leave in m_size
    JunkMaps,   \* what memory that is not the chunk can say about the tiles
    MaxOpens    \* bound: calls of open with one object

WordBytes == 4
TileBytes == 8              \* sizeof(WDTAreaInfo)
FieldMod == ByteMod * ByteMod * ByteMod * ByteMod
Tiles == (0..Side - 1) \X (0..Side - 1)

\* A file: the name without ".wdt", its chunks with the place of each, its
\* size, which may cut them, and the tiles its MAIN chunk has flags for.
ChunkType == [at : Nat, id : 0..FieldMod - 1, length : 0..FieldMod - 1]
FileType == [prefix : STRING, chunks : SUBSET ChunkType, size : Nat, tiles : SUBSET Tiles]
EndOf(c) == c.at + 2 * WordBytes + c.length
WellLaidOut(f) ==
    /\ \E c \in f.chunks : c.at = 0
    /\ \A c \in f.chunks : EndOf(c) >= f.size \/ \E d \in f.chunks : d.at = EndOf(c)
    /\ \A c, d \in f.chunks : c = d \/ EndOf(c) <= d.at \/ EndOf(d) <= c.at
NoPrefix == ""
NoFile == [prefix |-> NoPrefix, chunks |-> {}, size |-> 0, tiles |-> {}]

ASSUME ByteModAssumption == ByteMod \in Nat \ {0, 1}
ASSUME SideAssumption == Side \in Nat \ {0}
ASSUME MainAssumption == MAIN \in 0..FieldMod - 1
ASSUME FilesAssumption ==
    \A f \in Files : f \in FileType /\ f.size > 0 /\ WellLaidOut(f)
ASSUME StaleSizesAssumption == StaleSizes \subseteq Nat
ASSUME JunkAssumption == JunkMaps \subseteq SUBSET Tiles /\ JunkMaps # {}
ASSUME MaxOpensAssumption == MaxOpens \in Nat

VARIABLES
    file,           \* the file of the last open
    pc,
    magic, size,    \* the local variables of Load
    m_chunks,       \* the table: identifier -> pointer
    m_maps,         \* the tiles whose flag is set
    m_hasADT, filePrefix,
    ret,            \* what the last open returned
    opens,          \* calls of open so far: the serial of the last buffer
    list            \* what the last GetADTFileList gave, or NotListed

mapVars == <<m_maps, m_hasADT, filePrefix>>
vars == <<streamVars, mapVars, file, pc, magic, size, m_chunks, ret, opens, list>>

NotListed == {<<NoPrefix, -1, -1>>}    \* no list of names

-----------------------------------------------------------------------------
\* Words of the file: the cursor stops at headers, and the bytes of the chunks
\* are not told apart.
WordAt(o) ==
    IF \E c \in file.chunks : c.at = o
    THEN (CHOOSE c \in file.chunks : c.at = o).id
    ELSE IF \E c \in file.chunks : c.at + WordBytes = o
    THEN (CHOOSE c \in file.chunks : c.at + WordBytes = o).length
    ELSE 0

\* Reading k bytes of a word over the old value of a variable.
ByteWeight == <<ByteMod, ByteMod * ByteMod, ByteMod * ByteMod * ByteMod, FieldMod>>
Bug_Over_KeepsOld(old, word, k) == IF k = 0 THEN old ELSE (word % ByteWeight[k]) + old

Over(old, word, k) ==
    IF k = 0 THEN old
    ELSE (word % ByteWeight[k]) + old - (old % ByteWeight[k])
NextWord(old) ==
    IF BytesOfLastItem(WordBytes, 1) = 0 THEN old
    ELSE Over(old, WordAt(m_pos), BytesOfLastItem(WordBytes, 1))

Bug_Reset_KeepsMaps == filePrefix' = NoPrefix /\ m_hasADT' = FALSE /\ UNCHANGED m_maps

Reset == filePrefix' = NoPrefix /\ m_hasADT' = FALSE /\ m_maps' = {}

OpenFound(f) ==
    /\ pc = "idle" /\ opens < MaxOpens
    /\ Reset
    /\ OpenStream(opens + 1, f.size)
    /\ opens' = opens + 1
    /\ file' = f
    /\ magic' = 0 /\ size' = 0
    /\ list' = NotListed
    /\ pc' = "loading"
    /\ UNCHANGED <<m_chunks, ret>>

OpenMissing(stale) ==
    /\ pc = "idle" /\ opens < MaxOpens
    /\ Reset
    /\ OpenStream(NULL, stale)
    /\ opens' = opens + 1
    /\ file' = NoFile /\ ret' = FALSE
    /\ list' = NotListed
    /\ UNCHANGED <<pc, magic, size, m_chunks>>

\* Load: the loop goes on while the stream is not at its end.
ReadMagic ==
    /\ pc = "loading" /\ ~m_eof
    /\ Read(WordBytes, 1)
    /\ magic' = NextWord(magic)
    /\ pc' = "size"
    /\ UNCHANGED <<mapVars, file, size, m_chunks, ret, opens, list>>

ReadSize ==
    /\ pc = "size" /\ ~m_eof
    /\ Read(WordBytes, 1)
    /\ size' = NextWord(size)
    /\ pc' = "insert"
    /\ UNCHANGED <<mapVars, file, magic, m_chunks, ret, opens, list>>

\* The identifier was cut short: no size can be read, and open fails.
ReadSizeFails ==
    /\ pc = "size" /\ m_eof
    /\ Read(WordBytes, 1)
    /\ ret' = FALSE
    /\ pc' = "idle"
    /\ UNCHANGED <<mapVars, file, magic, size, m_chunks, opens, list>>

\* std::map::insert: an entry that is there already stays as it is.
Bug_Inserted_Replaces ==
    [id \in DOMAIN m_chunks \cup {magic} |-> IF id = magic THEN BufferAtCursor ELSE m_chunks[id]]
Inserted ==
    [id \in DOMAIN m_chunks \cup {magic} |->
        IF id \in DOMAIN m_chunks THEN m_chunks[id] ELSE BufferAtCursor]

Bug_Insert_SeeksFromStart ==
    /\ pc = "insert"
    /\ m_chunks' = Inserted
    /\ Seek(size, FALSE)
    /\ pc' = "loading"
    /\ UNCHANGED <<mapVars, file, magic, size, ret, opens, list>>

Insert ==
    /\ pc = "insert"
    /\ m_chunks' = Inserted
    /\ Seek(size, TRUE)
    /\ pc' = "loading"
    /\ UNCHANGED <<mapVars, file, magic, size, ret, opens, list>>

-----------------------------------------------------------------------------
\* GetChunk, which cannot tell a missing chunk from one without bytes.
GetChunk(id) == IF id \in DOMAIN m_chunks THEN m_chunks[id] ELSE NullPointer

\* The tiles whose flags open reads from the chunk at a pointer p: Side * Side
\* entries, whatever the length.  The others lie in a deleted buffer, behind
\* the end of this one, or in what follows the chunk.
EntryOf(tile) == tile[1] + tile[2] * Side
Least(m, n) == IF m <= n THEN m ELSE n
ChunkBehind(p) == CHOOSE c \in file.chunks : c.at + 2 * WordBytes = p.off
BytesBehind(p) ==
    IF p.buff = m_buff
    THEN Least(ChunkBehind(p).length, m_size - p.off)
    ELSE 0
ReadFromChunk(p) == {t \in Tiles : EntryOf(t) * TileBytes + WordBytes <= BytesBehind(p)}

\* In the file entry n of the chunk is that of tile <<n % Side, n \div Side>>.
FlagsSet(p, junk) ==
    {t \in Tiles : IF t \in ReadFromChunk(p)
                   THEN <<EntryOf(t) % Side, EntryOf(t) \div Side>> \in file.tiles
                   ELSE t \in junk}

ReadTiles(junk) ==
    /\ pc = "loading" /\ m_eof
    /\ GetChunk(MAIN) # NullPointer
    /\ m_maps' = m_maps \cup FlagsSet(GetChunk(MAIN), junk)
    /\ m_hasADT' = (m_hasADT \/ FlagsSet(GetChunk(MAIN), junk) # {})
    /\ filePrefix' = file.prefix
    /\ ret' = TRUE
    /\ pc' = "idle"
    /\ UNCHANGED <<streamVars, file, magic, size, m_chunks, opens, list>>

NoTiles ==
    /\ pc = "loading" /\ m_eof
    /\ GetChunk(MAIN) = NullPointer
    /\ filePrefix' = file.prefix
    /\ ret' = TRUE
    /\ pc' = "idle"
    /\ UNCHANGED <<streamVars, m_maps, m_hasADT, file, magic, size, m_chunks, opens, list>>

\* GetADTFileList: the file names are prefix, i and j; without tiles there is
\* one name, of the map's global model.
GetADTFileList ==
    /\ pc = "idle" /\ list = NotListed
    /\ list' = IF m_hasADT THEN {<<filePrefix, t[1], t[2]>> : t \in m_maps}
                           ELSE {<<filePrefix, Side, Side>>}
    /\ UNCHANGED <<streamVars, mapVars, file, pc, magic, size, m_chunks, ret, opens>>

-----------------------------------------------------------------------------
\* The constructor leaves m_maps and m_hasADT as they are in memory.
Init ==
    /\ StreamInit
    /\ file = NoFile /\ pc = "idle" /\ magic = 0 /\ size = 0
    /\ m_chunks = << >>
    /\ m_maps \in JunkMaps /\ m_hasADT \in BOOLEAN /\ filePrefix = NoPrefix
    /\ ret = FALSE /\ opens = 0 /\ list = NotListed

LoadStep ==
    \/ ReadMagic \/ ReadSize \/ ReadSizeFails \/ Insert
    \/ \E junk \in JunkMaps : ReadTiles(junk)
    \/ NoTiles

Next ==
    \/ \E f \in Files : OpenFound(f)
    \/ \E stale \in StaleSizes : OpenMissing(stale)
    \/ LoadStep
    \/ GetADTFileList

\* One thread: an open that began goes on.
Spec == Init /\ [][Next]_vars /\ WF_vars(LoadStep)

-----------------------------------------------------------------------------
\* PROPERTIES

\* The variables have their types.
TypeOK ==
    /\ StreamTypeOK
    /\ file \in Files \cup {NoFile}
    /\ pc \in {"idle", "loading", "size", "insert"}
    /\ magic \in 0..FieldMod - 1 /\ size \in 0..FieldMod - 1
    /\ DOMAIN m_chunks \subseteq 0..FieldMod - 1
    /\ \A id \in DOMAIN m_chunks : m_chunks[id] \in PointerType
    /\ m_maps \subseteq Tiles /\ m_hasADT \in BOOLEAN
    /\ ret \in BOOLEAN /\ opens \in 0..MaxOpens

\* The cursor of the stream cannot have wrapped: 64 bits hold every place a
\* sum of a file size and a word can reach.
Is64Bit == \A f \in Files : f.size + WordBytes + FieldMod <= SizeMod

\* The chunks whose identifier lies in the file, and the first of each kind.
Present(f) == {c \in f.chunks : c.at + WordBytes <= f.size}
FirstOf(f, id) ==
    CHOOSE c \in Present(f) : c.id = id /\ \A d \in Present(f) : d.id = id => c.at <= d.at

\* The first open of an object succeeds unless the file ends inside an
\* identifier, and then has an entry for every chunk of the file, at the bytes
\* of the first one of its kind, or NULL where the file ends before them.
TableIsOfFile ==
    pc = "idle" /\ opens = 1 /\ file # NoFile =>
        /\ ret <=> \A c \in file.chunks : ~(c.at < file.size /\ file.size < c.at + WordBytes)
        /\ ret => /\ DOMAIN m_chunks = {c.id : c \in Present(file)}
                  /\ \A id \in DOMAIN m_chunks :
                        LET place == FirstOf(file, id).at + 2 * WordBytes
                        IN  m_chunks[id] = IF place < file.size
                                           THEN [buff |-> m_buff, off |-> place]
                                           ELSE NullPointer

\* The names that are listed after a successful open are those of the tiles
\* the file has, in every open that does not meet an older MAIN entry in the
\* table, unless the chunk is cut: nothing of uninitialized memory or of older
\* tiles shows through.  (An older entry, even an older NULL, stays and wins.)
HasMain(f) == \E c \in Present(f) : c.id = MAIN
NoOlderMain ==
    IF HasMain(file) THEN GetChunk(MAIN).buff = m_buff ELSE GetChunk(MAIN) = NullPointer
MainComplete(f) ==
    LET c == FirstOf(f, MAIN)
        needed == Side * Side * TileBytes
    IN  c.length >= needed /\ c.at + 2 * WordBytes + needed <= f.size
ListIsOfFile ==
    /\ pc = "idle" /\ list # NotListed /\ ret
    /\ NoOlderMain /\ (HasMain(file) => MainComplete(file))
    => list = IF HasMain(file) /\ file.tiles # {}
              THEN {<<file.prefix, t[1], t[2]>> : t \in file.tiles}
              ELSE {<<file.prefix, Side, Side>>}

\* A file that is being read is read to its end, however its lengths lead the
\* cursor (64-bit build: with 32 bits a length can lead it back).
LoadEnds == Is64Bit => (pc = "loading" ~> pc = "idle")
=============================================================================
