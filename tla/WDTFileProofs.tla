--------------------------- MODULE WDTFileProofs ---------------------------
(***************************************************************************)
(* Theorems about the chunked files, for any files, any width of a byte and *)
(* any number of opens.  The table and the tiles are right in a build whose *)
(* size_t holds every place that the cursor can be led to.                  *)
(***************************************************************************)
EXTENDS WDTFile, TLAPS

-----------------------------------------------------------------------------
\* ARITHMETIC

\* A product is monotone.
LEMMA TimesMonotone ==
  ASSUME NEW a \in Nat, NEW b \in Nat, NEW c \in Nat, a <= b
  PROVE  a * c <= b * c
<1>1. PICK d \in Nat : b = a + d
  BY SMT
<1>2. b * c = a * c + d * c
  BY <1>1, SMT
<1>3. d * c >= 0 /\ a * c \in Nat
  BY SMT
<1> QED BY <1>2, <1>3, SMT

\* A value below the modulus is its own remainder.
LEMMA SmallRemainder ==
  ASSUME NEW n \in Nat \ {0}, NEW x \in 0..n - 1
  PROVE  x % n = x
BY SMT

\* Quotient and remainder of a number in the form the division leaves it in.
LEMMA QuotientIs ==
  ASSUME NEW n \in Nat \ {0}, NEW q \in Nat, NEW r \in 0..n - 1
  PROVE  (r + q * n) % n = r /\ (r + q * n) \div n = q
<1> DEFINE x == r + q * n
           d == x \div n
           m == x % n
<1>1. x \in Nat /\ q * n \in Nat
  BY SMT
<1>2. d \in Nat /\ m \in 0..n - 1 /\ x = d * n + m
  BY <1>1, SMT
<1>3. x = r + q * n
  OBVIOUS
<1> HIDE DEF x, d, m
<1>4. d <= q
  <2> SUFFICES ASSUME q + 1 <= d PROVE FALSE
    BY <1>2
  <2>1. (q + 1) * n <= d * n
    BY <1>2, TimesMonotone
  <2>2. (q + 1) * n = q * n + n
    BY SMT
  <2> QED BY <1>1, <1>2, <1>3, <2>1, <2>2
<1>5. q <= d
  <2> SUFFICES ASSUME d + 1 <= q PROVE FALSE
    BY <1>2
  <2>1. (d + 1) * n <= q * n
    BY <1>2, TimesMonotone
  <2>2. (d + 1) * n = d * n + n
    BY <1>2, SMT
  <2> QED BY <1>1, <1>2, <1>3, <2>1, <2>2
<1>6. d = q
  BY <1>2, <1>4, <1>5
<1>7. m = r
  <2>1. d * n = q * n
    BY <1>6
  <2> QED BY <1>1, <1>2, <1>3, <2>1
<1> QED BY <1>6, <1>7 DEF x, d, m

\* The lower digits of a number can be replaced without leaving its range.
LEMMA LowerDigits ==
  ASSUME NEW b \in Nat \ {0}, NEW c \in Nat \ {0}, NEW x \in 0..c * b - 1, NEW y \in Nat
  PROVE  (y % b) + x - (x % b) \in 0..c * b - 1
<1> DEFINE q == x \div b
           r == x % b
           s == y % b
<1>1. c * b \in Nat /\ x \in Nat
  BY SMT
<1>2. q \in Nat /\ r \in 0..b - 1 /\ s \in 0..b - 1 /\ x = q * b + r
  BY <1>1, SMT
<1> HIDE DEF q, r, s
<1>3. q + 1 <= c
  <2> SUFFICES ASSUME c <= q PROVE FALSE
    BY <1>2
  <2>1. c * b <= q * b
    BY <1>2, TimesMonotone
  <2>2. q * b \in Nat
    BY <1>2, SMT
  <2> QED BY <1>1, <1>2, <2>1, <2>2
<1>4. (q + 1) * b <= c * b /\ (q + 1) * b = q * b + b /\ q * b \in Nat
  BY <1>2, <1>3, TimesMonotone
<1>5. s + x - r \in 0..c * b - 1
  BY <1>1, <1>2, <1>4
<1> QED BY <1>5 DEF r, s


-----------------------------------------------------------------------------
\* THE INVARIANT

\* TypeOK in two parts: the provers treat Boolean flags apart from the rest.
FlagsOK == m_eof \in BOOLEAN /\ m_hasADT \in BOOLEAN /\ ret \in BOOLEAN
MembersOK ==
    /\ m_buff \in Nat /\ m_pos \in Nat /\ m_size \in Nat
    /\ file \in Files \cup {NoFile}
    /\ pc \in {"idle", "loading", "size", "insert"}
    /\ magic \in 0..FieldMod - 1 /\ size \in 0..FieldMod - 1
    /\ DOMAIN m_chunks \subseteq 0..FieldMod - 1
    /\ \A id \in DOMAIN m_chunks : m_chunks[id] \in PointerType
    /\ m_maps \subseteq Tiles
    /\ opens \in 0..MaxOpens

\* While Load runs, and after an open that succeeded, the stream holds the
\* file; no older table entry leads into its buffer.
Running ==
    /\ pc # "idle" \/ ret => /\ file \in Files /\ opens > 0
                             /\ m_buff = opens /\ m_size = file.size
    /\ pc # "idle" => m_maps = {} /\ ~m_hasADT /\ list = NotListed
    /\ \A id \in DOMAIN m_chunks : m_chunks[id].buff <= opens
    /\ opens = 0 => DOMAIN m_chunks = {} /\ file = NoFile

TypeInv == FlagsOK /\ MembersOK /\ CursorInBounds /\ Running

\* The chunk whose header is read begins at Here; those before it were entered.
Here == m_pos - (IF pc = "size" THEN WordBytes ELSE IF pc = "insert" THEN 2 * WordBytes ELSE 0)
Seen == {c \in Present(file) : c.at < Here}
FirstIn(S, c) == \A d \in S : d.id = c.id => c.at <= d.at
EntryFor(c) ==
    IF c.at + 2 * WordBytes < m_size
    THEN [buff |-> m_buff, off |-> c.at + 2 * WordBytes] ELSE NullPointer

\* A chunk whose identifier the end of the file cuts.
IsCut(c) == c.at < file.size /\ file.size < c.at + WordBytes

\* The cursor is at a header until it is at the end; no length leads it astray.
Place ==
    /\ pc = "loading" /\ ~m_eof => m_pos < m_size /\ \E c \in file.chunks : c.at = m_pos
    /\ pc = "size" => \E c \in file.chunks :
          /\ c.at + WordBytes = m_pos /\ c.at < m_size
          /\ m_eof => m_pos > m_size
          /\ ~m_eof => m_pos <= m_size /\ magic = c.id
    /\ pc = "insert" => \E c \in file.chunks :
          /\ c.at + 2 * WordBytes = m_pos /\ c.at + WordBytes <= m_size /\ magic = c.id
          /\ m_pos <= m_size => size = c.length
    /\ (pc = "loading" /\ m_eof) \/ (pc = "idle" /\ ret) =>
          m_pos >= m_size /\ \A c \in file.chunks : ~IsCut(c)
    /\ pc = "idle" /\ ~ret /\ file # NoFile => \E c \in file.chunks : IsCut(c)

\* Every chunk that was met has an entry: that of the first of its kind, or an
\* older one, which leads elsewhere and can only be there after other opens.
Table ==
    pc # "idle" \/ ret =>
        /\ \A c \in Seen : c.id \in DOMAIN m_chunks
        /\ \A id \in DOMAIN m_chunks :
              \/ opens > 1 /\ m_chunks[id].buff # m_buff
              \/ \E c \in Seen : FirstIn(Seen, c) /\ c.id = id /\ m_chunks[id] = EntryFor(c)

\* The tiles are those of the file, under the conditions of ListIsOfFile.
TilesRight ==
    pc = "idle" /\ ret /\ NoOlderMain /\ (HasMain(file) => MainComplete(file)) =>
        /\ filePrefix = file.prefix
        /\ m_maps = IF HasMain(file) THEN file.tiles ELSE {}
        /\ m_hasADT <=> m_maps # {}

IInv == TypeInv /\ Place /\ Table /\ TilesRight /\ ListIsOfFile

-----------------------------------------------------------------------------
\* WORDS

LEMMA TypeParts == TypeOK <=> FlagsOK /\ MembersOK
BY DEF TypeOK, StreamTypeOK, FlagsOK, MembersOK

LEMMA FieldModFacts ==
  /\ FieldMod \in Nat \ {0}
  /\ \A k \in 1..4 : \E c \in Nat \ {0} : ByteWeight[k] \in Nat \ {0} /\ c * ByteWeight[k] = FieldMod
<1> DEFINE b == ByteMod
<1>1. b \in Nat \ {0}
  BY ByteModAssumption
<1> HIDE DEF b
<1>2. b * b \in Nat \ {0}
  BY <1>1, SMT
<1>3. b * b * b \in Nat \ {0}
  BY <1>1, <1>2, SMT
<1>4. b * b * b * b \in Nat \ {0}
  BY <1>1, <1>3, SMT
<1>5. /\ (b * b * b) * b = b * b * b * b /\ (b * b) * (b * b) = b * b * b * b
      /\ b * (b * b * b) = b * b * b * b /\ 1 * (b * b * b * b) = b * b * b * b
  BY <1>1, SMT
<1>6. FieldMod = b * b * b * b
  BY DEF FieldMod, b
<1>7. /\ ByteWeight[1] = b /\ ByteWeight[2] = b * b /\ ByteWeight[3] = b * b * b
      /\ ByteWeight[4] = FieldMod
  BY DEF ByteWeight, b
<1> QED BY <1>1, <1>2, <1>3, <1>4, <1>5, <1>6, <1>7

\* A word read over an old value is a word, and the new one if it was whole.
LEMMA OverFacts ==
  ASSUME NEW old \in 0..FieldMod - 1, NEW word \in 0..FieldMod - 1, NEW k \in 0..WordBytes
  PROVE  Over(old, word, k) \in 0..FieldMod - 1 /\ (k = WordBytes => Over(old, word, k) = word)
<1>1. CASE k = 0
  <2>1. Over(old, word, k) = old
    BY <1>1, Zenon DEF Over
  <2> QED BY <1>1, <2>1 DEF WordBytes
<1>2. CASE k # 0
  <2>1. k \in 1..4 /\ WordBytes = 4 /\ FieldMod \in Nat
    BY <1>2, FieldModFacts DEF WordBytes
  <2>2. PICK c \in Nat \ {0} : ByteWeight[k] \in Nat \ {0} /\ c * ByteWeight[k] = FieldMod
    BY <2>1, FieldModFacts
  <2>3. Over(old, word, k) = (word % ByteWeight[k]) + old - (old % ByteWeight[k])
    BY <1>2 DEF Over
  <2>4. Over(old, word, k) \in 0..FieldMod - 1
    <3> DEFINE b == ByteWeight[k]
    <3>1. b \in Nat \ {0} /\ c * b = FieldMod
      BY <2>2
    <3>2. old \in 0..c * b - 1 /\ word \in Nat
      BY <2>1, <3>1
    <3>3. Over(old, word, k) = (word % b) + old - (old % b)
      BY <2>3
    <3> HIDE DEF b
    <3>4. (word % b) + old - (old % b) \in 0..c * b - 1
      BY <3>1, <3>2, LowerDigits
    <3> QED BY <3>1, <3>3, <3>4
  <2>5. ASSUME k = WordBytes PROVE Over(old, word, k) = word
    <3>1. ByteWeight[k] = FieldMod
      BY <2>1, <2>5 DEF ByteWeight
    <3>2. word % FieldMod = word /\ old % FieldMod = old
      BY SmallRemainder, FieldModFacts
    <3> QED BY <2>1, <2>3, <3>1, <3>2
  <2> QED BY <2>4, <2>5
<1> QED BY <1>1, <1>2

\* One read of a word: whole if four bytes are left, and otherwise whatever is
\* left, after which the stream is at its end.
LEMMA ReadOneWord ==
  ASSUME m_pos \in Nat, m_size \in Nat, ~m_eof, m_pos <= m_size, Read(WordBytes, 1)
  PROVE  /\ m_pos' = m_pos + WordBytes /\ m_buff' = m_buff /\ m_size' = m_size
         /\ m_eof' \in BOOLEAN
         /\ m_eof' => m_pos' > m_size
         /\ ~m_eof' => m_pos' <= m_size
         /\ BytesOfLastItem(WordBytes, 1) \in 0..WordBytes
         /\ m_pos' <= m_size => BytesOfLastItem(WordBytes, 1) = WordBytes
<1> DEFINE left == m_size - m_pos
<1>1. /\ left \in Nat /\ left \div 4 \in Nat /\ left % 4 \in 0..3
      /\ left \div 4 < 1 <=> left < 4
  BY SMT
<1>2. WholeItems(WordBytes) = left \div 4
  BY DEF WholeItems, WordBytes
<1>3. ItemsRead(WordBytes, 1) = 1
  BY <1>1, <1>2 DEF ItemsRead
<1>4. /\ m_pos' = m_pos + WordBytes /\ m_buff' = m_buff /\ m_size' = m_size
  BY <1>3 DEF Read, WordBytes
<1>5. CASE left < 4
  <2>0. left \div 4 < 1
    BY <1>1, <1>5
  <2>1. m_eof' = TRUE
    BY <1>2, <2>0, Zenon DEF Read
  <2>2. BytesOfLastItem(WordBytes, 1) = left % 4
    BY <1>2, <2>0, Zenon DEF BytesOfLastItem, WordBytes
  <2> QED BY <1>1, <1>4, <1>5, <2>1, <2>2 DEF WordBytes
<1>6. CASE left >= 4
  <2>1. ~(left \div 4 < 1)
    BY <1>1, <1>6
  <2>2. m_eof' = FALSE
    BY <1>2, <2>1, Zenon DEF Read
  <2>3. BytesOfLastItem(WordBytes, 1) = WordBytes
    BY <1>2, <2>1, Zenon DEF BytesOfLastItem
  <2>4. ~m_eof' /\ m_eof' \in BOOLEAN
    BY <2>2
  <2>5. m_pos' <= m_size
    BY <1>1, <1>4, <1>6 DEF WordBytes
  <2>6. BytesOfLastItem(WordBytes, 1) \in 0..WordBytes
    BY <2>3 DEF WordBytes
  <2> QED BY <1>4, <2>3, <2>4, <2>5, <2>6, Zenon
<1> QED BY <1>1, <1>5, <1>6

LEMMA FileFacts ==
  ASSUME NEW f \in Files
  PROVE  /\ f.size \in Nat \ {0} /\ f.tiles \subseteq Tiles
         /\ \A c \in f.chunks : c.at \in Nat /\ c.id \in 0..FieldMod - 1 /\ c.length \in 0..FieldMod - 1
         /\ f # NoFile
<1>1. f \in FileType /\ f.size > 0
  BY FilesAssumption
<1>2. f.size \in Nat \ {0} /\ f.tiles \subseteq Tiles /\ f.chunks \subseteq ChunkType
  BY <1>1 DEF FileType
<1>3. NoFile.size = 0
  BY DEF NoFile
<1> QED BY <1>2, <1>3 DEF ChunkType

LEMMA WordAtFacts ==
  ASSUME file \in Files, NEW o
  PROVE  WordAt(o) \in 0..FieldMod - 1
<1>1. \A c \in file.chunks : c.id \in 0..FieldMod - 1 /\ c.length \in 0..FieldMod - 1
  BY FileFacts
<1>2. CASE \E c \in file.chunks : c.at = o
  <2>1. WordAt(o) = (CHOOSE c \in file.chunks : c.at = o).id
    BY <1>2 DEF WordAt
  <2>2. (CHOOSE c \in file.chunks : c.at = o) \in file.chunks
    BY <1>2
  <2> QED BY <1>1, <2>1, <2>2
<1>3. CASE ~(\E c \in file.chunks : c.at = o) /\ \E c \in file.chunks : c.at + WordBytes = o
  <2>1. WordAt(o) = (CHOOSE c \in file.chunks : c.at + WordBytes = o).length
    BY <1>3 DEF WordAt
  <2>2. (CHOOSE c \in file.chunks : c.at + WordBytes = o) \in file.chunks
    BY <1>3
  <2> QED BY <1>1, <2>1, <2>2
<1>4. CASE ~(\E c \in file.chunks : c.at = o) /\ ~(\E c \in file.chunks : c.at + WordBytes = o)
  <2>1. WordAt(o) = 0
    BY <1>4 DEF WordAt
  <2>2. 0 \in 0..FieldMod - 1
    BY FieldModFacts
  <2> QED BY <2>1, <2>2
<1> QED BY <1>2, <1>3, <1>4

\* What a word of a header becomes when it is read.
LEMMA NextWordFacts ==
  ASSUME file \in Files, NEW old \in 0..FieldMod - 1, BytesOfLastItem(WordBytes, 1) \in 0..WordBytes
  PROVE  /\ NextWord(old) \in 0..FieldMod - 1
         /\ BytesOfLastItem(WordBytes, 1) = WordBytes => NextWord(old) = WordAt(m_pos)
<1> DEFINE k == BytesOfLastItem(WordBytes, 1)
           w == WordAt(m_pos)
<1>1. w \in 0..FieldMod - 1 /\ k \in 0..WordBytes
  BY WordAtFacts
<1>2. NextWord(old) = IF k = 0 THEN old ELSE Over(old, w, k)
  BY DEF NextWord
<1> HIDE DEF k, w
<1>3. Over(old, w, k) \in 0..FieldMod - 1 /\ (k = WordBytes => Over(old, w, k) = w)
  BY <1>1, OverFacts
<1>4. k = WordBytes => NextWord(old) = w
  BY <1>2, <1>3 DEF WordBytes
<1>5. NextWord(old) \in 0..FieldMod - 1
  BY <1>2, <1>3
<1> QED BY <1>4, <1>5 DEF k, w

-----------------------------------------------------------------------------
\* TYPES

LEMMA PointerFacts ==
  ASSUME m_buff \in Nat, m_pos \in Nat
  PROVE  BufferAtCursor \in PointerType /\ BufferAtCursor.buff \in {0, m_buff}
BY DEF BufferAtCursor, PointerType, NullPointer, NULL

LEMMA FlagsSubset == \A p, junk : FlagsSet(p, junk) \subseteq Tiles
BY DEF FlagsSet

LEMMA InitType == Init => TypeInv
<1> SUFFICES ASSUME Init PROVE TypeInv
  OBVIOUS
<1>1. 0 \in 0..FieldMod - 1 /\ 0 \in 0..MaxOpens
  BY FieldModFacts, MaxOpensAssumption
<1>2. FlagsOK
  BY DEF Init, StreamInit, FlagsOK
<1>3. DOMAIN m_chunks = {}
  BY DEF Init
<1>4. MembersOK
  BY <1>1, <1>3, JunkAssumption DEF Init, StreamInit, MembersOK, NULL
<1>5. CursorInBounds
  BY DEF Init, StreamInit, CursorInBounds
<1>6. Running
  BY <1>3 DEF Init, Running
<1> QED BY <1>2, <1>4, <1>5, <1>6 DEF TypeInv

\* A new open: the buffer is a new one, so nothing in the table leads into it.
LEMMA OpenFoundType ==
  ASSUME TypeInv, NEW f \in Files, OpenFound(f)
  PROVE  TypeInv'
<1>1. /\ pc = "idle" /\ opens < MaxOpens /\ m_hasADT' = FALSE /\ m_maps' = {}
      /\ m_buff' = opens + 1 /\ m_size' = f.size /\ m_pos' = 0 /\ m_eof' = FALSE
      /\ opens' = opens + 1 /\ file' = f /\ magic' = 0 /\ size' = 0 /\ list' = NotListed
      /\ pc' = "loading" /\ UNCHANGED <<m_chunks, ret>>
  BY DEF OpenFound, Reset, OpenStream
<1>2. FlagsOK'
  BY <1>1 DEF TypeInv, FlagsOK
<1>3. 0 \in 0..FieldMod - 1 /\ f.size \in Nat \ {0} /\ opens \in 0..MaxOpens /\ opens \in Nat
  BY FieldModFacts, FileFacts DEF TypeInv, MembersOK
<1>4. opens' \in 0..MaxOpens /\ opens' \in Nat /\ opens' > 0
  BY <1>1, <1>3, MaxOpensAssumption
<1>5. MembersOK'
  BY <1>1, <1>3, <1>4 DEF TypeInv, MembersOK
<1>6. CursorInBounds'
  BY <1>1, <1>3 DEF CursorInBounds
<1>7. \A id \in DOMAIN m_chunks' : m_chunks'[id].buff <= opens'
  <2>1. \A id \in DOMAIN m_chunks : m_chunks[id].buff \in Nat /\ m_chunks[id].buff <= opens
    BY DEF TypeInv, Running, MembersOK, PointerType
  <2> QED BY <1>1, <1>3, <2>1
<1>8. Running'
  BY <1>1, <1>4, <1>7 DEF Running
<1> QED BY <1>2, <1>5, <1>6, <1>8 DEF TypeInv

LEMMA OpenMissingType ==
  ASSUME TypeInv, NEW stale \in StaleSizes, OpenMissing(stale)
  PROVE  TypeInv'
<1>1. /\ pc = "idle" /\ opens < MaxOpens /\ m_hasADT' = FALSE /\ m_maps' = {}
      /\ m_buff' = 0 /\ m_size' = stale /\ m_pos' = 0 /\ m_eof' = FALSE
      /\ opens' = opens + 1 /\ file' = NoFile /\ ret' = FALSE /\ list' = NotListed
      /\ UNCHANGED <<pc, magic, size, m_chunks>>
  BY DEF OpenMissing, Reset, OpenStream, NULL
<1>2. FlagsOK'
  BY <1>1 DEF FlagsOK
<1>3. stale \in Nat /\ opens \in 0..MaxOpens /\ opens \in Nat
  BY StaleSizesAssumption DEF TypeInv, MembersOK
<1>4. opens' \in 0..MaxOpens /\ opens' > 0
  BY <1>1, <1>3, MaxOpensAssumption
<1>5. MembersOK'
  BY <1>1, <1>3, <1>4 DEF TypeInv, MembersOK
<1>6. CursorInBounds'
  BY <1>1, <1>3 DEF CursorInBounds
<1>7. \A id \in DOMAIN m_chunks' : m_chunks'[id].buff <= opens'
  <2>1. \A id \in DOMAIN m_chunks : m_chunks[id].buff \in Nat /\ m_chunks[id].buff <= opens
    BY DEF TypeInv, Running, MembersOK, PointerType
  <2> QED BY <1>1, <1>3, <2>1
<1>8. Running'
  BY <1>1, <1>4, <1>7 DEF Running
<1> QED BY <1>2, <1>5, <1>6, <1>8 DEF TypeInv

LEMMA ReadMagicType == TypeInv /\ ReadMagic => TypeInv'
<1> SUFFICES ASSUME TypeInv, ReadMagic PROVE TypeInv'
  OBVIOUS
<1>1. /\ pc = "loading" /\ ~m_eof /\ Read(WordBytes, 1) /\ magic' = NextWord(magic)
      /\ pc' = "size" /\ UNCHANGED <<m_maps, m_hasADT, file, size, m_chunks, ret, opens, list>>
  BY DEF ReadMagic, mapVars
<1>2. /\ m_pos \in Nat /\ m_size \in Nat /\ m_pos <= m_size /\ file \in Files
      /\ magic \in 0..FieldMod - 1
  BY <1>1 DEF TypeInv, MembersOK, CursorInBounds, Running
<1>3. /\ m_pos' = m_pos + WordBytes /\ m_buff' = m_buff /\ m_size' = m_size
      /\ m_eof' \in BOOLEAN /\ (~m_eof' => m_pos' <= m_size)
      /\ BytesOfLastItem(WordBytes, 1) \in 0..WordBytes
  BY <1>1, <1>2, ReadOneWord
<1>4. magic' \in 0..FieldMod - 1 /\ m_pos' \in Nat
  BY <1>1, <1>2, <1>3, NextWordFacts DEF WordBytes
<1>5. FlagsOK' /\ CursorInBounds'
  BY <1>1, <1>3 DEF TypeInv, FlagsOK, CursorInBounds
<1>6. MembersOK'
  BY <1>1, <1>3, <1>4 DEF TypeInv, MembersOK
<1>7. Running'
  BY <1>1, <1>3 DEF TypeInv, Running
<1> QED BY <1>5, <1>6, <1>7 DEF TypeInv

LEMMA ReadSizeType == TypeInv /\ ReadSize => TypeInv'
<1> SUFFICES ASSUME TypeInv, ReadSize PROVE TypeInv'
  OBVIOUS
<1>1. /\ pc = "size" /\ ~m_eof /\ Read(WordBytes, 1) /\ size' = NextWord(size)
      /\ pc' = "insert" /\ UNCHANGED <<m_maps, m_hasADT, file, magic, m_chunks, ret, opens, list>>
  BY DEF ReadSize, mapVars
<1>2. /\ m_pos \in Nat /\ m_size \in Nat /\ m_pos <= m_size /\ file \in Files
      /\ size \in 0..FieldMod - 1
  BY <1>1 DEF TypeInv, MembersOK, CursorInBounds, Running
<1>3. /\ m_pos' = m_pos + WordBytes /\ m_buff' = m_buff /\ m_size' = m_size
      /\ m_eof' \in BOOLEAN /\ (~m_eof' => m_pos' <= m_size)
      /\ BytesOfLastItem(WordBytes, 1) \in 0..WordBytes
  BY <1>1, <1>2, ReadOneWord
<1>4. size' \in 0..FieldMod - 1 /\ m_pos' \in Nat
  BY <1>1, <1>2, <1>3, NextWordFacts DEF WordBytes
<1>5. FlagsOK' /\ CursorInBounds'
  BY <1>1, <1>3 DEF TypeInv, FlagsOK, CursorInBounds
<1>6. MembersOK'
  BY <1>1, <1>3, <1>4 DEF TypeInv, MembersOK
<1>7. Running'
  BY <1>1, <1>3 DEF TypeInv, Running
<1> QED BY <1>5, <1>6, <1>7 DEF TypeInv

\* A read at the end of the stream changes nothing.
LEMMA ReadAtEnd ==
  ASSUME m_pos \in Nat, m_eof, Read(WordBytes, 1)
  PROVE  m_pos' = m_pos /\ m_eof' = TRUE /\ m_buff' = m_buff /\ m_size' = m_size
<1>1. ItemsRead(WordBytes, 1) = 0
  BY DEF ItemsRead
<1>2. m_eof' = TRUE
  BY Zenon DEF Read
<1> QED BY <1>1, <1>2 DEF Read, WordBytes

LEMMA ReadSizeFailsType == TypeInv /\ ReadSizeFails => TypeInv'
<1> SUFFICES ASSUME TypeInv, ReadSizeFails PROVE TypeInv'
  OBVIOUS
<1>1. /\ pc = "size" /\ m_eof /\ Read(WordBytes, 1) /\ ret' = FALSE /\ pc' = "idle"
      /\ UNCHANGED <<m_maps, m_hasADT, file, magic, size, m_chunks, opens, list>>
  BY DEF ReadSizeFails, mapVars
<1>2. m_pos' = m_pos /\ m_eof' = TRUE /\ m_buff' = m_buff /\ m_size' = m_size
  BY <1>1, ReadAtEnd DEF TypeInv, MembersOK
<1>3. FlagsOK' /\ CursorInBounds'
  BY <1>1, <1>2 DEF TypeInv, FlagsOK, CursorInBounds
<1>4. MembersOK'
  BY <1>1, <1>2 DEF TypeInv, MembersOK
<1>5. Running'
  BY <1>1, <1>2 DEF TypeInv, Running
<1> QED BY <1>3, <1>4, <1>5 DEF TypeInv

LEMMA InsertType == TypeInv /\ Insert => TypeInv'
<1> SUFFICES ASSUME TypeInv, Insert PROVE TypeInv'
  OBVIOUS
<1>1. /\ pc = "insert" /\ m_chunks' = Inserted /\ pc' = "loading"
      /\ m_pos' = (m_pos + size) % SizeMod /\ m_eof' = (m_pos' >= m_size)
      /\ UNCHANGED <<m_buff, m_size, m_maps, m_hasADT, file, magic, size, ret, opens, list>>
  BY DEF Insert, mapVars, Seek, SeekTo
<1>2. /\ m_pos \in Nat /\ m_buff \in Nat /\ m_size \in Nat /\ magic \in 0..FieldMod - 1
      /\ size \in Nat /\ m_buff = opens /\ opens > 0
  BY <1>1, FieldModFacts DEF TypeInv, MembersOK, Running
<1>3. m_pos' \in Nat
  BY <1>1, <1>2, SizeModAssumption
<1>4. m_eof' \in BOOLEAN
  <2>1. (m_pos' >= m_size) \in BOOLEAN
    OBVIOUS
  <2> QED BY <1>1, <2>1, Zenon
<1>5. ~m_eof' => m_pos' <= m_size
  <2>1. ~(m_pos' >= m_size) => m_pos' <= m_size
    BY <1>2, <1>3
  <2> QED BY <1>1, <2>1, Zenon
<1>6. FlagsOK' /\ CursorInBounds'
  BY <1>1, <1>4, <1>5 DEF TypeInv, FlagsOK, CursorInBounds
<1>7. DOMAIN m_chunks' = DOMAIN m_chunks \cup {magic}
  BY <1>1 DEF Inserted
<1>8. \A id \in DOMAIN m_chunks' : m_chunks'[id] \in {BufferAtCursor} \cup {m_chunks[j] : j \in DOMAIN m_chunks}
  BY <1>1 DEF Inserted
<1>9. \A id \in DOMAIN m_chunks' : m_chunks'[id] \in PointerType /\ m_chunks'[id].buff <= opens
  <2>1. BufferAtCursor \in PointerType /\ BufferAtCursor.buff <= opens
    BY <1>2, PointerFacts
  <2>2. \A j \in DOMAIN m_chunks : m_chunks[j] \in PointerType /\ m_chunks[j].buff <= opens
    BY DEF TypeInv, MembersOK, Running
  <2> QED BY <1>8, <2>1, <2>2
<1>10. MembersOK'
  BY <1>1, <1>2, <1>3, <1>7, <1>9 DEF TypeInv, MembersOK
<1>11. Running'
  BY <1>1, <1>2, <1>9 DEF TypeInv, Running
<1> QED BY <1>6, <1>10, <1>11 DEF TypeInv

LEMMA ReadTilesType == ASSUME TypeInv, NEW junk, ReadTiles(junk) PROVE TypeInv'
<1> DEFINE set == FlagsSet(GetChunk(MAIN), junk)
<1>1. /\ pc = "loading" /\ m_eof /\ m_maps' = m_maps \cup set
      /\ m_hasADT' = (m_hasADT \/ set # {}) /\ ret' = TRUE /\ pc' = "idle"
      /\ UNCHANGED <<m_buff, m_pos, m_size, m_eof, file, magic, size, m_chunks, opens, list>>
  BY DEF ReadTiles, streamVars
<1>2. set \subseteq Tiles
  BY FlagsSubset
<1> HIDE DEF set
<1>3. m_hasADT' \in BOOLEAN
  <2>1. (m_hasADT \/ set # {}) \in BOOLEAN
    OBVIOUS
  <2> QED BY <1>1, <2>1, Zenon
<1>4. FlagsOK' /\ CursorInBounds'
  BY <1>1, <1>3 DEF TypeInv, FlagsOK, CursorInBounds
<1>5. MembersOK'
  BY <1>1, <1>2 DEF TypeInv, MembersOK
<1>6. Running'
  BY <1>1 DEF TypeInv, Running
<1> QED BY <1>4, <1>5, <1>6 DEF TypeInv

LEMMA NoTilesType == TypeInv /\ NoTiles => TypeInv'
<1> SUFFICES ASSUME TypeInv, NoTiles PROVE TypeInv'
  OBVIOUS
<1>1. /\ pc = "loading" /\ ret' = TRUE /\ pc' = "idle"
      /\ UNCHANGED <<m_buff, m_pos, m_size, m_eof, m_maps, m_hasADT, file, magic, size, m_chunks,
                     opens, list>>
  BY DEF NoTiles, streamVars
<1>2. FlagsOK' /\ CursorInBounds'
  BY <1>1 DEF TypeInv, FlagsOK, CursorInBounds
<1>3. MembersOK' /\ Running'
  BY <1>1 DEF TypeInv, MembersOK, Running
<1> QED BY <1>2, <1>3 DEF TypeInv

LEMMA StillType ==
  ASSUME TypeInv, GetADTFileList \/ UNCHANGED vars
  PROVE  TypeInv'
<1>1. /\ UNCHANGED <<m_buff, m_pos, m_size, m_eof, m_maps, m_hasADT, file, pc, magic, size,
                     m_chunks, ret, opens>>
      /\ pc = "idle" \/ UNCHANGED list
  BY DEF GetADTFileList, vars, streamVars, mapVars
<1>2. FlagsOK' /\ CursorInBounds'
  BY <1>1 DEF TypeInv, FlagsOK, CursorInBounds
<1>3. MembersOK' /\ Running'
  BY <1>1 DEF TypeInv, MembersOK, Running
<1> QED BY <1>2, <1>3 DEF TypeInv

LEMMA TypeStep == TypeInv /\ [Next]_vars => TypeInv'
BY OpenFoundType, OpenMissingType, ReadMagicType, ReadSizeType, ReadSizeFailsType, InsertType,
   ReadTilesType, NoTilesType, StillType DEF Next, LoadStep

\* The variables have their types.
THEOREM TypeCorrect == Spec => []TypeOK
<1>1. TypeInv => TypeOK
  BY TypeParts DEF TypeInv
<1> QED BY <1>1, InitType, TypeStep, PTL DEF Spec

\* The cursor never passes the end while the stream says that it goes on, so
\* the difference that read computes does not wrap.
THEOREM CursorCorrect == Spec => []CursorInBounds
<1>1. TypeInv => CursorInBounds
  BY DEF TypeInv
<1> QED BY <1>1, InitType, TypeStep, PTL DEF Spec
-----------------------------------------------------------------------------
\* THE TABLE

\* The chunks of a file lie one behind the other.
LEMMA LayoutFacts ==
  ASSUME NEW f \in Files
  PROVE  /\ \E c \in f.chunks : c.at = 0
         /\ \A c \in f.chunks : EndOf(c) >= f.size \/ \E d \in f.chunks : d.at = EndOf(c)
         /\ \A c \in f.chunks : EndOf(c) \in Nat /\ EndOf(c) >= c.at + 2 * WordBytes
         /\ \A c, d \in f.chunks : c.at < d.at => EndOf(c) <= d.at
         /\ \A c, d \in f.chunks : c.at = d.at => c = d
<1>1. WellLaidOut(f)
  BY FilesAssumption
<1>2. \A c \in f.chunks : c.at \in Nat /\ c.length \in Nat
  BY FileFacts, FieldModFacts
<1>3. \A c \in f.chunks : EndOf(c) \in Nat /\ EndOf(c) >= c.at + 2 * WordBytes
  BY <1>2 DEF EndOf, WordBytes
<1>4. \A c, d \in f.chunks : c = d \/ EndOf(c) <= d.at \/ EndOf(d) <= c.at
  BY <1>1 DEF WellLaidOut
<1>5. \A c, d \in f.chunks : c.at < d.at => EndOf(c) <= d.at
  BY <1>2, <1>3, <1>4 DEF WordBytes
<1>6. \A c, d \in f.chunks : c.at = d.at => c = d
  BY <1>2, <1>3, <1>4 DEF WordBytes
<1> QED BY <1>1, <1>3, <1>5, <1>6 DEF WellLaidOut

\* The words at the cursor are those of the header.
LEMMA WordsOfHeader ==
  ASSUME file \in Files, NEW c \in file.chunks
  PROVE  WordAt(c.at) = c.id /\ WordAt(c.at + WordBytes) = c.length
<1>1. \A d \in file.chunks : d.at \in Nat
  BY FileFacts
<1>2. WordAt(c.at) = c.id
  <2>1. (CHOOSE d \in file.chunks : d.at = c.at) = c
    BY LayoutFacts
  <2> QED BY <2>1 DEF WordAt
<1>3. WordAt(c.at + WordBytes) = c.length
  <2>1. ~ \E d \in file.chunks : d.at = c.at + WordBytes
    BY <1>1, LayoutFacts DEF WordBytes
  <2>2. \A d \in file.chunks : d.at + WordBytes = c.at + WordBytes => d = c
    BY <1>1, LayoutFacts DEF WordBytes
  <2>3. (CHOOSE d \in file.chunks : d.at + WordBytes = c.at + WordBytes) = c
    BY <2>2
  <2> QED BY <2>1, <2>3 DEF WordAt
<1> QED BY <1>2, <1>3

LEMMA InitInv == Init => IInv
<1> SUFFICES ASSUME Init PROVE IInv
  OBVIOUS
<1>1. pc = "idle" /\ ret = FALSE /\ file = NoFile
  BY DEF Init
<1> QED BY <1>1, InitType DEF IInv, Place, Table, TilesRight, ListIsOfFile

LEMMA OpenFoundInv ==
  ASSUME IInv, NEW f \in Files, OpenFound(f)
  PROVE  IInv'
<1>1. /\ m_buff' = opens + 1 /\ m_size' = f.size /\ m_pos' = 0 /\ m_eof' = FALSE
      /\ opens' = opens + 1 /\ file' = f /\ pc' = "loading" /\ m_chunks' = m_chunks
  BY DEF OpenFound, OpenStream
<1>2. TypeInv' /\ opens \in Nat
  BY OpenFoundType DEF IInv, TypeInv, MembersOK
<1>3. f.size \in Nat \ {0} /\ \A c \in f.chunks : c.at \in Nat
  BY FileFacts
<1>4. Place'
  BY <1>1, <1>3, LayoutFacts DEF Place
<1>5. Seen' = {}
  BY <1>1, <1>3 DEF Seen, Here, Present
<1>6. Table'
  <2>1. \A id \in DOMAIN m_chunks : m_chunks[id].buff \in Nat /\ m_chunks[id].buff <= opens
    BY DEF IInv, TypeInv, MembersOK, Running, PointerType
  <2>2. opens = 0 => DOMAIN m_chunks = {}
    BY DEF IInv, TypeInv, Running
  <2>3. \A id \in DOMAIN m_chunks : opens + 1 > 1 /\ m_chunks[id].buff # opens + 1
    BY <1>2, <2>1, <2>2
  <2> QED BY <1>1, <1>5, <2>3 DEF Table
<1>7. TilesRight' /\ ListIsOfFile'
  BY <1>1 DEF TilesRight, ListIsOfFile
<1> QED BY <1>2, <1>4, <1>6, <1>7 DEF IInv

LEMMA OpenMissingInv ==
  ASSUME IInv, NEW stale \in StaleSizes, OpenMissing(stale)
  PROVE  IInv'
<1>1. pc' = "idle" /\ ret' = FALSE /\ file' = NoFile
  BY DEF OpenMissing
<1>2. TypeInv'
  BY OpenMissingType DEF IInv
<1> QED BY <1>1, <1>2 DEF IInv, Place, Table, TilesRight, ListIsOfFile

LEMMA ReadMagicInv == IInv /\ ReadMagic => IInv'
<1> SUFFICES ASSUME IInv, ReadMagic PROVE IInv'
  OBVIOUS
<1>1. /\ pc = "loading" /\ ~m_eof /\ Read(WordBytes, 1) /\ magic' = NextWord(magic)
      /\ pc' = "size" /\ UNCHANGED <<file, m_chunks, opens>>
  BY DEF ReadMagic
<1>2. /\ m_pos \in Nat /\ m_size \in Nat /\ m_pos <= m_size /\ file \in Files
      /\ magic \in 0..FieldMod - 1 /\ m_pos < m_size
  BY <1>1 DEF IInv, TypeInv, MembersOK, CursorInBounds, Running, Place
<1>3. PICK c \in file.chunks : c.at = m_pos
  BY <1>1 DEF IInv, Place
<1>4. /\ m_pos' = m_pos + WordBytes /\ m_buff' = m_buff /\ m_size' = m_size
      /\ m_eof' => m_pos' > m_size
      /\ ~m_eof' => m_pos' <= m_size
      /\ BytesOfLastItem(WordBytes, 1) \in 0..WordBytes
      /\ m_pos' <= m_size => BytesOfLastItem(WordBytes, 1) = WordBytes
  BY <1>1, <1>2, ReadOneWord
<1>5. ~m_eof' => magic' = c.id
  BY <1>1, <1>2, <1>3, <1>4, NextWordFacts, WordsOfHeader
<1>6. Place'
  <2>1. c.at + WordBytes = m_pos' /\ c.at < m_size'
    BY <1>2, <1>3, <1>4
  <2> QED BY <1>1, <1>3, <1>4, <1>5, <2>1 DEF Place
<1>7. Here' = Here /\ Seen' = Seen
  <2>1. Here' = Here
    BY <1>1, <1>2, <1>4 DEF Here, WordBytes
  <2> QED BY <1>1, <2>1 DEF Seen
<1>8. \A d : EntryFor(d)' = EntryFor(d)
  BY <1>4 DEF EntryFor
<1>9. Table'
  BY <1>1, <1>4, <1>7, <1>8 DEF IInv, Table
<1>10. TypeInv' /\ TilesRight' /\ ListIsOfFile'
  BY <1>1, ReadMagicType DEF IInv, TilesRight, ListIsOfFile
<1> QED BY <1>6, <1>9, <1>10 DEF IInv

LEMMA ReadSizeInv == IInv /\ ReadSize => IInv'
<1> SUFFICES ASSUME IInv, ReadSize PROVE IInv'
  OBVIOUS
<1>1. /\ pc = "size" /\ ~m_eof /\ Read(WordBytes, 1) /\ size' = NextWord(size)
      /\ pc' = "insert" /\ UNCHANGED <<file, magic, m_chunks, opens>>
  BY DEF ReadSize
<1>2. /\ m_pos \in Nat /\ m_size \in Nat /\ m_pos <= m_size /\ file \in Files
      /\ size \in 0..FieldMod - 1
  BY <1>1 DEF IInv, TypeInv, MembersOK, CursorInBounds, Running
<1>3. PICK c \in file.chunks : c.at + WordBytes = m_pos /\ magic = c.id
  BY <1>1 DEF IInv, Place
<1>4. /\ m_pos' = m_pos + WordBytes /\ m_buff' = m_buff /\ m_size' = m_size
      /\ BytesOfLastItem(WordBytes, 1) \in 0..WordBytes
      /\ m_pos' <= m_size => BytesOfLastItem(WordBytes, 1) = WordBytes
  BY <1>1, <1>2, ReadOneWord
<1>5. m_pos' <= m_size => size' = c.length
  BY <1>1, <1>2, <1>3, <1>4, NextWordFacts, WordsOfHeader
<1>6. Place'
  <2>1. c.at \in Nat
    BY <1>2, FileFacts
  <2>2. c.at + 2 * WordBytes = m_pos' /\ c.at + WordBytes <= m_size'
    BY <1>2, <1>3, <1>4, <2>1 DEF WordBytes
  <2> QED BY <1>1, <1>3, <1>4, <1>5, <2>2 DEF Place
<1>7. Here' = Here /\ Seen' = Seen
  <2>1. Here' = Here
    BY <1>1, <1>2, <1>4 DEF Here, WordBytes
  <2> QED BY <1>1, <2>1 DEF Seen
<1>8. \A d : EntryFor(d)' = EntryFor(d)
  BY <1>4 DEF EntryFor
<1>9. Table'
  BY <1>1, <1>4, <1>7, <1>8 DEF IInv, Table
<1>10. TypeInv' /\ TilesRight' /\ ListIsOfFile'
  BY <1>1, ReadSizeType DEF IInv, TilesRight, ListIsOfFile
<1> QED BY <1>6, <1>9, <1>10 DEF IInv

LEMMA ReadSizeFailsInv == IInv /\ ReadSizeFails => IInv'
<1> SUFFICES ASSUME IInv, ReadSizeFails PROVE IInv'
  OBVIOUS
<1>1. pc = "size" /\ m_eof /\ ret' = FALSE /\ pc' = "idle" /\ file' = file
  BY DEF ReadSizeFails
<1>2. PICK c \in file.chunks : c.at + WordBytes = m_pos /\ c.at < m_size /\ m_pos > m_size
  BY <1>1 DEF IInv, Place
<1>3. m_size = file.size
  BY <1>1 DEF IInv, TypeInv, Running
<1>4. IsCut(c)'
  BY <1>1, <1>2, <1>3 DEF IsCut
<1>5. Place'
  BY <1>1, <1>4 DEF Place
<1>6. TypeInv'
  BY ReadSizeFailsType DEF IInv
<1> QED BY <1>1, <1>5, <1>6 DEF IInv, Table, TilesRight, ListIsOfFile
\* The seek over the bytes of a chunk leads to the next header or to the end:
\* this is where the width of size_t matters.
LEMMA InsertInv == Is64Bit /\ IInv /\ Insert => IInv'
<1> SUFFICES ASSUME Is64Bit, IInv, Insert PROVE IInv'
  OBVIOUS
<1>1. /\ pc = "insert" /\ m_chunks' = Inserted /\ pc' = "loading"
      /\ m_pos' = (m_pos + size) % SizeMod /\ m_eof' = (m_pos' >= m_size)
      /\ UNCHANGED <<m_buff, m_size, file, opens>>
  BY DEF Insert, Seek, SeekTo
<1>2. /\ m_pos \in Nat /\ m_buff \in Nat /\ m_size \in Nat /\ file \in Files
      /\ size \in Nat /\ size < FieldMod /\ FieldMod \in Nat /\ m_size = file.size
  BY <1>1, FieldModFacts DEF IInv, TypeInv, MembersOK, Running
<1>3. PICK c \in file.chunks :
        /\ c.at + 2 * WordBytes = m_pos /\ c.at + WordBytes <= m_size /\ magic = c.id
        /\ m_pos <= m_size => size = c.length
  BY <1>1 DEF IInv, Place
<1>4. /\ \A d \in file.chunks : d.at \in Nat /\ EndOf(d) \in Nat /\ EndOf(d) >= d.at + 2 * WordBytes
      /\ \A d, e \in file.chunks : d.at < e.at => EndOf(d) <= e.at
      /\ \A d, e \in file.chunks : d.at = e.at => d = e
  BY <1>2, FileFacts, LayoutFacts
<1>5. m_pos' = m_pos + size
  <2>1. file.size + WordBytes + FieldMod <= SizeMod
    BY <1>2 DEF Is64Bit
  <2>2. m_pos + size \in 0..SizeMod - 1
    BY <1>2, <1>3, <1>4, <2>1, SizeModAssumption DEF WordBytes
  <2> QED BY <1>1, <2>2, SmallRemainder, SizeModAssumption
<1>6. m_pos <= m_size => m_pos' = EndOf(c)
  BY <1>2, <1>3, <1>4, <1>5 DEF EndOf, WordBytes
<1>7. \A d \in file.chunks : d.at < m_size => (d.at < m_pos' <=> d.at <= c.at)
  <2> SUFFICES ASSUME NEW d \in file.chunks, d.at < m_size
               PROVE  d.at < m_pos' <=> d.at <= c.at
    OBVIOUS
  <2>1. d.at <= c.at => d.at < m_pos'
    BY <1>2, <1>3, <1>4, <1>5 DEF WordBytes
  <2>2. ASSUME d.at > c.at PROVE d.at >= m_pos'
    <3>1. EndOf(c) <= d.at
      BY <1>4, <2>2
    <3>2. m_pos <= m_size
      BY <1>2, <1>3, <1>4, <3>1 DEF WordBytes
    <3> QED BY <1>6, <3>1, <3>2
  <2> QED BY <1>2, <1>4, <1>5, <2>1, <2>2
<1>8. c \in Present(file) /\ Seen' = Seen \cup {c} /\ (\A d \in Seen : d.at < c.at)
  <2>1. Here = c.at /\ Here' = m_pos'
    BY <1>1, <1>2, <1>3, <1>4, <1>5 DEF Here, WordBytes
  <2>2. c \in Present(file)
    BY <1>2, <1>3 DEF Present
  <2>3. \A d \in Present(file) : d \in file.chunks /\ d.at < m_size
    BY <1>2, <1>4 DEF Present, WordBytes
  <2>4. \A d \in Present(file) : d.at < m_pos' <=> (d.at < c.at \/ d = c)
    BY <1>4, <1>7, <2>3
  <2> QED BY <1>1, <2>1, <2>2, <2>4 DEF Seen
<1>9. (m_eof' => m_pos' >= m_size) /\ (~m_eof' => m_pos' < m_size)
  <2>1. ~(m_pos' >= m_size) => m_pos' < m_size
    BY <1>2, <1>5
  <2> QED BY <1>1, <2>1, Zenon
<1>10. Place'
  <2>1. ASSUME ~m_eof' PROVE \E d \in file.chunks : d.at = m_pos'
    <3>1. m_pos' < m_size
      BY <1>9, <2>1
    <3>2. m_pos' = EndOf(c)
      BY <1>2, <1>5, <1>6, <3>1
    <3> QED BY <1>2, <3>1, <3>2, LayoutFacts
  <2>2. ASSUME m_eof', NEW d \in file.chunks PROVE ~IsCut(d)
    <3>1. m_pos' >= m_size
      BY <1>9, <2>2
    <3>2. d.at < m_size => d.at <= c.at
      BY <1>2, <1>4, <1>5, <1>7, <3>1
    <3> QED BY <1>2, <1>3, <1>4, <3>2 DEF IsCut, WordBytes
  <2>3. \A d \in file.chunks : IsCut(d)' <=> IsCut(d)
    BY <1>1 DEF IsCut
  <2> QED BY <1>1, <1>9, <2>1, <2>2, <2>3 DEF Place
<1>11. Table'
  <2>1. DOMAIN m_chunks' = DOMAIN m_chunks \cup {c.id}
    BY <1>1, <1>3 DEF Inserted
  <2>2. /\ \A d \in Seen : d.id \in DOMAIN m_chunks
        /\ \A id \in DOMAIN m_chunks :
              \/ opens > 1 /\ m_chunks[id].buff # m_buff
              \/ \E d \in Seen : FirstIn(Seen, d) /\ d.id = id /\ m_chunks[id] = EntryFor(d)
    BY <1>1 DEF IInv, Table
  <2>3. \A d \in Seen' : d.id \in DOMAIN m_chunks'
    BY <1>8, <2>1, <2>2
  <2>4. BufferAtCursor = EntryFor(c)
    BY <1>3 DEF BufferAtCursor, EntryFor
  <2>5. \A d : EntryFor(d)' = EntryFor(d)
    BY <1>1 DEF EntryFor
  <2>6. ASSUME NEW id \in DOMAIN m_chunks
        PROVE  \/ opens > 1 /\ m_chunks'[id].buff # m_buff
               \/ \E d \in Seen' : FirstIn(Seen', d) /\ d.id = id /\ m_chunks'[id] = EntryFor(d)
    <3>1. m_chunks'[id] = m_chunks[id]
      BY <1>1 DEF Inserted
    <3>2. ASSUME NEW d \in Seen, FirstIn(Seen, d) PROVE d \in Seen' /\ FirstIn(Seen', d)
      <4>1. d \in file.chunks /\ d.at \in Nat /\ c.at \in Nat /\ d.at <= c.at
        BY <1>4, <1>8 DEF Seen, Present
      <4> QED BY <1>8, <3>2, <4>1 DEF FirstIn
    <3> QED BY <2>2, <3>1, <3>2
  <2>7. ASSUME c.id \notin DOMAIN m_chunks
        PROVE  c \in Seen' /\ FirstIn(Seen', c) /\ m_chunks'[c.id] = EntryFor(c)
    <3>1. m_chunks'[c.id] = EntryFor(c)
      BY <1>1, <1>3, <2>4, <2>7 DEF Inserted
    <3>2. \A d \in Seen : d.id # c.id
      BY <2>2, <2>7
    <3>3. c.at <= c.at
      BY <1>4
    <3> QED BY <1>8, <3>1, <3>2, <3>3 DEF FirstIn
  <2>8. \A id \in DOMAIN m_chunks' :
              \/ opens > 1 /\ m_chunks'[id].buff # m_buff
              \/ \E d \in Seen' : FirstIn(Seen', d) /\ d.id = id /\ m_chunks'[id] = EntryFor(d)
    BY <2>1, <2>6, <2>7
  <2> QED BY <1>1, <2>3, <2>5, <2>8 DEF Table
<1>12. TypeInv' /\ TilesRight' /\ ListIsOfFile'
  BY <1>1, InsertType DEF IInv, TilesRight, ListIsOfFile
<1> QED BY <1>10, <1>11, <1>12 DEF IInv

-----------------------------------------------------------------------------
\* THE TILES

\* A tile's number and the tile it is of.
LEMMA EntryFacts ==
  ASSUME NEW t \in Tiles
  PROVE  /\ <<EntryOf(t) % Side, EntryOf(t) \div Side>> = t
         /\ EntryOf(t) \in Nat /\ EntryOf(t) * TileBytes + WordBytes <= Side * Side * TileBytes
<1> DEFINE a == t[1]
           b == t[2]
           n == Side
<1>1. n \in Nat \ {0} /\ a \in 0..n - 1 /\ b \in 0..n - 1 /\ t = <<a, b>>
  BY SideAssumption DEF Tiles
<1>2. EntryOf(t) = a + b * n
  BY DEF EntryOf
<1> HIDE DEF a, b, n
<1>3. (a + b * n) % n = a /\ (a + b * n) \div n = b
  BY <1>1, QuotientIs
<1>4. (b + 1) * n <= n * n /\ (b + 1) * n = b * n + n /\ b * n \in Nat /\ n * n \in Nat
  <2>1. b + 1 \in Nat /\ b + 1 <= n
    BY <1>1
  <2>2. (b + 1) * n <= n * n
    BY <1>1, <2>1, TimesMonotone
  <2>3. (b + 1) * n = b * n + n /\ b * n \in Nat /\ n * n \in Nat
    BY <1>1, SMT
  <2> QED BY <2>2, <2>3
<1> DEFINE e == a + b * n
           q == n * n
<1>5. e \in Nat /\ q \in Nat /\ e + 1 <= q
  BY <1>1, <1>4
<1> HIDE DEF e, q
<1>6. e * 8 + 4 <= q * 8
  BY <1>5
<1> QED BY <1>1, <1>2, <1>3, <1>5, <1>6 DEF e, q, n, TileBytes, WordBytes

\* The first chunk of a kind that is met is the first of that kind in the file.
LEMMA FirstFacts ==
  ASSUME file \in Files, NEW c \in Present(file), FirstIn(Present(file), c)
  PROVE  FirstOf(file, c.id) = c
<1> DEFINE Is(d) == d.id = c.id /\ \A e \in Present(file) : e.id = c.id => d.at <= e.at
<1>1. \A d \in Present(file) : d \in file.chunks /\ d.at \in Nat
  BY FileFacts DEF Present
<1>2. Is(c)
  BY DEF FirstIn
<1>3. \A d \in Present(file) : Is(d) => d = c
  BY <1>1, <1>2, LayoutFacts
<1> QED BY <1>2, <1>3 DEF FirstOf

\* At the end of the file every chunk that it has was met.
LEMMA AllSeen ==
  ASSUME file \in Files, m_size = file.size, m_pos \in Nat, m_pos >= m_size, pc \in {"loading", "idle"}
  PROVE  Seen = Present(file)
<1>1. Here = m_pos
  BY DEF Here
<1>2. \A c \in Present(file) : c.at < m_pos
  BY FileFacts DEF Present, WordBytes
<1> QED BY <1>1, <1>2 DEF Seen

LEMMA ReadTilesInv == ASSUME IInv, NEW junk, ReadTiles(junk) PROVE IInv'
<1> DEFINE p == GetChunk(MAIN)
           set == FlagsSet(p, junk)
<1>1. /\ pc = "loading" /\ m_eof /\ p # NullPointer /\ m_maps' = m_maps \cup set
      /\ m_hasADT' = (m_hasADT \/ set # {}) /\ filePrefix' = file.prefix
      /\ ret' = TRUE /\ pc' = "idle"
      /\ UNCHANGED <<m_buff, m_pos, m_size, m_eof, file, magic, size, m_chunks, opens, list>>
  BY DEF ReadTiles, streamVars
<1>2. /\ m_maps = {} /\ ~m_hasADT /\ list = NotListed /\ file \in Files
      /\ m_size = file.size /\ m_pos \in Nat /\ m_size \in Nat
  BY <1>1 DEF IInv, TypeInv, MembersOK, Running
<1>3. m_pos >= m_size /\ \A c \in file.chunks : ~IsCut(c)
  BY <1>1 DEF IInv, Place
<1>4. TypeInv'
  BY ReadTilesType DEF IInv
<1>5. Place'
  BY <1>1, <1>3 DEF Place, IsCut
<1>6. Table'
  <2>1. Here' = Here /\ Seen' = Seen
    BY <1>1 DEF Here, Seen
  <2>2. \A d : EntryFor(d)' = EntryFor(d)
    BY <1>1 DEF EntryFor
  <2> QED BY <1>1, <2>1, <2>2 DEF IInv, Table
<1>7. TilesRight'
  <2> SUFFICES ASSUME NoOlderMain, HasMain(file) => MainComplete(file)
               PROVE  set = (IF HasMain(file) THEN file.tiles ELSE {})
    <3>1. NoOlderMain' <=> NoOlderMain
      BY <1>1 DEF NoOlderMain, GetChunk
    <3>2. m_maps' = set /\ (m_hasADT' <=> m_maps' # {})
      BY <1>1, <1>2
    <3> HIDE DEF set
    <3> QED BY <1>1, <3>1, <3>2 DEF TilesRight
  <2>1. HasMain(file) /\ p.buff = m_buff /\ MainComplete(file)
    BY <1>1 DEF NoOlderMain
  <2>2. MAIN \in DOMAIN m_chunks /\ m_chunks[MAIN] = p
    BY <1>1 DEF GetChunk
  <2>3. Seen = Present(file)
    BY <1>1, <1>2, <1>3, AllSeen
  <2>4. PICK c \in Present(file) : FirstIn(Present(file), c) /\ c.id = MAIN /\ p = EntryFor(c)
    BY <1>1, <2>1, <2>2, <2>3 DEF IInv, Table
  <2>5. c \in file.chunks /\ c.at \in Nat /\ c.length \in Nat /\ FirstOf(file, MAIN) = c
    BY <1>2, <2>4, FileFacts, FieldModFacts, FirstFacts DEF Present
  <2>6. p = [buff |-> m_buff, off |-> c.at + 2 * WordBytes]
    BY <1>1, <2>4 DEF EntryFor
  <2>7. ChunkBehind(p) = c
    <3>1. \A d \in file.chunks : d.at \in Nat
      BY <1>2, FileFacts
    <3>2. \A d \in file.chunks : d.at + 2 * WordBytes = p.off => d = c
      BY <1>2, <2>5, <2>6, <3>1, LayoutFacts DEF WordBytes
    <3> HIDE DEF p
    <3> QED BY <2>5, <2>6, <3>2 DEF ChunkBehind
  <2> DEFINE needed == Side * Side * TileBytes
  <2>8. /\ needed \in Nat /\ c.length >= needed
        /\ c.at + 2 * WordBytes + needed <= m_size
    <3>1. needed \in Nat
      BY SideAssumption, SMT DEF TileBytes
    <3> QED BY <1>2, <2>1, <2>5, <3>1 DEF MainComplete
  <2>9. BytesBehind(p) >= needed /\ BytesBehind(p) \in Int
    <3>1. BytesBehind(p) = Least(c.length, m_size - p.off)
      BY <2>1, <2>7 DEF BytesBehind
    <3>2. p.off = c.at + 2 * WordBytes
      BY <2>6
    <3> HIDE DEF p, needed
    <3> QED BY <1>2, <2>5, <2>8, <3>1, <3>2 DEF Least, WordBytes
  <2>10. ReadFromChunk(p) = Tiles
    <3>1. ASSUME NEW t \in Tiles PROVE EntryOf(t) * TileBytes + WordBytes <= BytesBehind(p)
      <4> DEFINE x == EntryOf(t) * TileBytes + WordBytes
                 y == BytesBehind(p)
      <4>1. x <= needed /\ x \in Nat
        BY EntryFacts DEF TileBytes, WordBytes
      <4>2. needed \in Nat /\ y \in Int /\ y >= needed
        BY <2>8, <2>9
      <4> HIDE DEF x, y, needed
      <4>3. x <= y
        BY <4>1, <4>2
      <4> QED BY <4>3 DEF x, y
    <3> HIDE DEF p
    <3> QED BY <3>1 DEF ReadFromChunk
  <2>11. file.tiles \subseteq Tiles
    BY <1>2, FileFacts
  <2>12. set = file.tiles
    <3> HIDE DEF p
    <3> QED BY <2>10, <2>11, EntryFacts DEF FlagsSet
  <2> QED BY <2>1, <2>12
<1>8. ListIsOfFile'
  BY <1>1, <1>2 DEF ListIsOfFile, NotListed
<1> QED BY <1>4, <1>5, <1>6, <1>7, <1>8 DEF IInv

LEMMA NoTilesInv == IInv /\ NoTiles => IInv'
<1> SUFFICES ASSUME IInv, NoTiles PROVE IInv'
  OBVIOUS
<1>1. /\ pc = "loading" /\ m_eof /\ GetChunk(MAIN) = NullPointer /\ filePrefix' = file.prefix
      /\ ret' = TRUE /\ pc' = "idle"
      /\ UNCHANGED <<m_buff, m_pos, m_size, m_eof, m_maps, m_hasADT, file, magic, size, m_chunks,
                     opens, list>>
  BY DEF NoTiles, streamVars
<1>2. m_maps = {} /\ ~m_hasADT /\ list = NotListed /\ m_buff = opens /\ opens > 0
  BY <1>1 DEF IInv, TypeInv, Running
<1>3. m_pos >= m_size /\ \A c \in file.chunks : ~IsCut(c)
  BY <1>1 DEF IInv, Place
<1>4. Place'
  BY <1>1, <1>3 DEF Place, IsCut
<1>5. Table'
  <2>1. Here' = Here /\ Seen' = Seen
    BY <1>1 DEF Here, Seen
  <2>2. \A d : EntryFor(d)' = EntryFor(d)
    BY <1>1 DEF EntryFor
  <2> QED BY <1>1, <2>1, <2>2 DEF IInv, Table
<1>6. TilesRight'
  <2>1. NoOlderMain' => ~HasMain(file)
    <3>1. NoOlderMain' => (HasMain(file) => NullPointer.buff = m_buff)
      BY <1>1 DEF NoOlderMain, GetChunk
    <3>2. m_buff # 0
      BY <1>2 DEF IInv, TypeInv, MembersOK
    <3> QED BY <3>1, <3>2 DEF NullPointer, NULL
  <2> QED BY <1>1, <1>2, <2>1 DEF TilesRight
<1>7. TypeInv' /\ ListIsOfFile'
  BY <1>1, <1>2, NoTilesType DEF IInv, ListIsOfFile
<1> QED BY <1>4, <1>5, <1>6, <1>7 DEF IInv

LEMMA StillInv ==
  ASSUME IInv, GetADTFileList \/ UNCHANGED vars
  PROVE  IInv'
<1>1. UNCHANGED <<m_buff, m_pos, m_size, m_eof, m_maps, m_hasADT, filePrefix, file, pc, magic, size,
                  m_chunks, ret, opens>>
  BY DEF GetADTFileList, vars, streamVars, mapVars
<1>2. Place'
  BY <1>1 DEF IInv, Place, IsCut
<1>3. Table'
  <2>1. Here' = Here /\ Seen' = Seen
    BY <1>1 DEF Here, Seen
  <2>2. \A d : EntryFor(d)' = EntryFor(d)
    BY <1>1 DEF EntryFor
  <2> QED BY <1>1, <2>1, <2>2 DEF IInv, Table
<1>4. (NoOlderMain' <=> NoOlderMain) /\ TilesRight'
  <2>1. NoOlderMain' <=> NoOlderMain
    BY <1>1 DEF NoOlderMain, GetChunk
  <2> QED BY <1>1, <2>1 DEF IInv, TilesRight
<1>5. ListIsOfFile'
  <2>1. CASE GetADTFileList
    <3> SUFFICES ASSUME pc = "idle", ret, NoOlderMain, HasMain(file) => MainComplete(file)
                 PROVE  list' = IF HasMain(file) /\ file.tiles # {}
                                THEN {<<file.prefix, t[1], t[2]>> : t \in file.tiles}
                                ELSE {<<file.prefix, Side, Side>>}
      BY <1>1, <1>4 DEF ListIsOfFile
    <3>1. /\ filePrefix = file.prefix /\ m_maps = (IF HasMain(file) THEN file.tiles ELSE {})
          /\ m_hasADT <=> m_maps # {}
      BY DEF IInv, TilesRight
    <3>2. list' = IF m_hasADT THEN {<<filePrefix, t[1], t[2]>> : t \in m_maps}
                              ELSE {<<filePrefix, Side, Side>>}
      BY <2>1 DEF GetADTFileList
    <3> QED BY <3>1, <3>2
  <2>2. CASE UNCHANGED vars
    BY <1>1, <1>4, <2>2 DEF IInv, ListIsOfFile, vars
  <2> QED BY <2>1, <2>2
<1>6. TypeInv'
  BY StillType DEF IInv
<1> QED BY <1>2, <1>3, <1>4, <1>5, <1>6 DEF IInv

LEMMA StepInv == Is64Bit /\ IInv /\ [Next]_vars => IInv'
BY OpenFoundInv, OpenMissingInv, ReadMagicInv, ReadSizeInv, ReadSizeFailsInv, InsertInv,
   ReadTilesInv, NoTilesInv, StillInv DEF Next, LoadStep

-----------------------------------------------------------------------------
\* THEOREMS ABOUT THE TABLE AND THE LIST

\* In a 64-bit build the first open of an object succeeds unless the file ends
\* inside an identifier, and enters every chunk at the bytes of the first one of
\* its kind.
THEOREM TableCorrect == Is64Bit /\ Spec => []TableIsOfFile
<1>1. SUFFICES ASSUME Is64Bit PROVE Spec => []TableIsOfFile
  OBVIOUS
<1>2. IInv => TableIsOfFile
  <2> SUFFICES ASSUME IInv, pc = "idle", opens = 1, file # NoFile
      PROVE /\ ret <=> \A c \in file.chunks : ~IsCut(c)
            /\ ret => /\ DOMAIN m_chunks = {c.id : c \in Present(file)}
                      /\ \A id \in DOMAIN m_chunks :
                            LET place == FirstOf(file, id).at + 2 * WordBytes
                            IN  m_chunks[id] = IF place < file.size
                                               THEN [buff |-> m_buff, off |-> place]
                                               ELSE NullPointer
    BY DEF TableIsOfFile, IsCut
  <2>1. ret <=> \A c \in file.chunks : ~IsCut(c)
    BY DEF IInv, Place
  <2>2. ASSUME ret
        PROVE  /\ DOMAIN m_chunks = {c.id : c \in Present(file)}
               /\ \A id \in DOMAIN m_chunks :
                     LET place == FirstOf(file, id).at + 2 * WordBytes
                     IN  m_chunks[id] = IF place < file.size
                                        THEN [buff |-> m_buff, off |-> place]
                                        ELSE NullPointer
    <3>1. file \in Files /\ m_size = file.size /\ m_pos \in Nat /\ m_pos >= m_size
      BY <2>2 DEF IInv, TypeInv, MembersOK, Running, Place
    <3>2. Seen = Present(file)
      BY <3>1, AllSeen
    <3>3. /\ \A c \in Present(file) : c.id \in DOMAIN m_chunks
          /\ \A id \in DOMAIN m_chunks : \E c \in Present(file) :
                FirstIn(Present(file), c) /\ c.id = id /\ m_chunks[id] = EntryFor(c)
      BY <2>2, <3>2 DEF IInv, Table
    <3>4. \A id \in DOMAIN m_chunks : m_chunks[id] = EntryFor(FirstOf(file, id))
      BY <3>1, <3>3, FirstFacts
    <3>5. DOMAIN m_chunks = {c.id : c \in Present(file)}
      BY <3>3
    <3> QED BY <3>1, <3>4, <3>5 DEF EntryFor
  <2> QED BY <2>1, <2>2
<1>3. IInv /\ [Next]_vars => IInv'
  BY <1>1, StepInv
<1> QED BY <1>2, <1>3, InitInv, PTL DEF Spec

\* In a 64-bit build the names listed are those of the tiles the file has, in
\* every open that meets no older entry for the chunk of the tiles, and nothing
\* of uninitialized memory gets among them.
THEOREM ListCorrect == Is64Bit /\ Spec => []ListIsOfFile
<1>1. SUFFICES ASSUME Is64Bit PROVE Spec => []ListIsOfFile
  OBVIOUS
<1>2. IInv => ListIsOfFile
  BY DEF IInv
<1>3. IInv /\ [Next]_vars => IInv'
  BY <1>1, StepInv
<1> QED BY <1>2, <1>3, InitInv, PTL DEF Spec
=============================================================================
