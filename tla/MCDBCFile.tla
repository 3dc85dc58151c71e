----------------------------- MODULE MCDBCFile -----------------------------
\* A small DBCFile: bytes have three values, so a header word has 81 and the
\* 64-bit build's size_t, whose square of a word fits, has 81 * 81.
EXTENDS DBCFile

MCByteMod  == 3
MCFieldMod == 81
MCSizeMod  == 81 * 81
MCStaleSizes == {0, 30}
MCMaxOpens == 3

MCWord(rc, rs, ss) ==
    [w \in WordNames |-> CASE w = "recordCount" -> rc
                           [] w = "recordSize"  -> rs
                           [] w = "stringSize"  -> ss
                           [] OTHER             -> 5]

MCFile(dir, base, size, magic, word) ==
    [path |-> <<dir, base>>, size |-> size, magic |-> magic, word |-> word]

\* Sizes end inside the magic number, at it, inside and after each header, at
\* the claimed size and one byte short of it; the claims include an empty
\* table and ones as large as a word can say.
MCDbcSizes == {3, 4, 10, 19, 20, 21, 27, 28, 29}
MCDb2Sizes == {20, 46, 48, 49, 55, 56}
MCShapes == {MCWord(0, 4, 0), MCWord(2, 4, 0), MCWord(2, 3, 2), MCWord(80, 80, 80)}

MCFiles ==
    {MCFile("DBFilesClient", "a", s, "DBC", h) : s \in MCDbcSizes, h \in MCShapes}
    \cup {MCFile("DBFilesClient", "b", s, "DB2", h) : s \in MCDb2Sizes, h \in MCShapes}
    \cup {MCFile("DBFilesClient", "c", 60, "other", MCWord(2, 4, 0)),
          MCFile("Other", "a", 60, "DBC", MCWord(2, 4, 1)),
          MCFile("Other", "a", 60, "DB2", MCWord(1, 4, 1))}

=============================================================================
