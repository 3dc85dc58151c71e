--------------------------- MODULE DBCFileProofs ---------------------------
(***************************************************************************)
(* What DBCFile promises, for every set of files, every width of a byte and *)
(* every number of opens: the members keep their types, and on a build      *)
(* whose size_t holds the product of two header words no record and no      *)
(* string of a loaded table lies outside the buffer.                        *)
(***************************************************************************)
EXTENDS DBCFile, TLAPS

-----------------------------------------------------------------------------
\* ARITHMETIC

\* A product is monotone.
LEMMA TimesMonotone ==
  ASSUME NEW a \in Nat, NEW b \in Nat, NEW c \in Nat, a <= b
  PROVE  a * c <= b * c
<1>1. PICK d \in Nat : b = a + d
  BY SMT
<1>2. b * c = a * c + d * c
  BY <1>1, SMT
<1>3. d * c >= 0 /\ a * c \in Nat
  BY SMT
<1> QED BY <1>2, <1>3, SMT

\* A value below the modulus is its own remainder.
LEMMA SmallRemainder ==
  ASSUME NEW n \in Nat \ {0}, NEW x \in 0..n - 1
  PROVE  x % n = x
BY SMT


\* TypeOK in two parts: the provers treat Boolean flags apart from the rest.
FlagsOK == m_eof \in BOOLEAN /\ ret \in BOOLEAN
MembersOK ==
    /\ m_buff \in Nat /\ m_pos \in Nat /\ m_size \in Nat
    /\ class \in Classes
    /\ pc \in {"idle", "magic", "words", "check"}
    /\ file \in Files \cup {NoFile}
    /\ next \in 1..12
    /\ hdr \in [WordNames -> Nat]
    /\ recordData \in PointerType
    /\ stringTable \in PointerType
    /\ m_name \in Names \cup {NoName}
    /\ opens \in 0..MaxOpens
    /\ out \in [Names -> OutputType]

\* While open runs, the stream holds the file it was given and the object
\* holds no pointer and no name yet.
Opening ==
    pc # "idle" =>
        /\ file \in Files
        /\ m_buff = opens /\ opens > 0
        /\ m_size = file.size
        /\ recordData = NullPointer
        /\ m_name = NoName

\* The cursor is where the next word starts; m_eof tells that the words read
\* so far run past the end, and the words before that are exact.
Progress ==
    /\ pc = "magic" => m_pos = 0 /\ ~m_eof /\ next = 1
    /\ pc = "words" => next <= Len(Words(class))
    /\ pc = "check" => next = Len(Words(class)) + 1
    /\ pc \in {"words", "check"} =>
        /\ file.magic = class
        /\ m_pos = WordBytes * next
        /\ m_eof = (m_pos > m_size)
        /\ m_pos <= m_size =>
              \A i \in 1..next - 1 :
                 hdr[Words(class)[i]] = file.word[Words(class)[i]]

\* A loaded object describes the file whose buffer the stream owns.
Loaded ==
    recordData # NullPointer =>
        /\ pc = "idle" /\ ret
        /\ file \in Files
        /\ m_buff = opens /\ opens > 0
        /\ m_size = file.size
        /\ recordData = [buff |-> m_buff, off |-> HeaderSize(class)]
        /\ stringTable = [buff |-> m_buff, off |-> HeaderSize(class) + RecordBytes]
        /\ ClaimedSize <= m_size
        /\ m_name = Last(file.path)
        /\ HeaderSize(class) < m_size
        /\ file.magic = class
        /\ \A i \in 1..Len(Words(class)) :
              hdr[Words(class)[i]] = file.word[Words(class)[i]]

\* The inductive invariant.
IInv ==
    /\ FlagsOK /\ MembersOK /\ CursorInBounds /\ Opening /\ Progress /\ Loaded
    /\ pc = "idle" => IF ret THEN recordData # NullPointer
                      ELSE recordData = NullPointer /\ m_name = NoName

-----------------------------------------------------------------------------
LEMMA TypeParts == TypeOK <=> FlagsOK /\ MembersOK
  BY DEF TypeOK, StreamTypeOK, FlagsOK, MembersOK

\* The tables of header words.

\* The words of both classes have distinct names, and the literals 20 and 48
\* of the size checks are four bytes for each word and the magic number.
LEMMA WordFacts ==
    ASSUME NEW c \in Classes
    PROVE  /\ Len(Words(c)) \in 4..11
           /\ HeaderSize(c) = WordBytes * (Len(Words(c)) + 1)
           /\ \A i \in 1..Len(Words(c)) : Words(c)[i] \in WordNames
           /\ \A i, j \in 1..Len(Words(c)) : Words(c)[i] = Words(c)[j] => i = j
  <1>1. DOMAIN DB2Words = 1..11 /\ Len(DB2Words) = 11 /\ Len(DBCWords) = 4
    BY DEF DB2Words, DBCWords
  <1>2. \A i \in 1..11 : DB2Words[i] \in WordNames
    BY <1>1, Zenon DEF WordNames, Range
  <1>3. \A i, j \in 1..11 : DB2Words[i] = DB2Words[j] => i = j
    BY DEF DB2Words
  <1>4. \A i \in 1..4 : DBCWords[i] = DB2Words[i]
    BY DEF DB2Words, DBCWords
  <1>5. CASE c = "DBC"
    <2>1. Words(c) = DBCWords /\ HeaderSize(c) = 20
      BY <1>5 DEF Words, HeaderSize
    <2>2. \A i \in 1..4 : DBCWords[i] \in WordNames
      BY <1>2, <1>4
    <2>3. \A i, j \in 1..4 : DBCWords[i] = DBCWords[j] => i = j
      BY <1>3, <1>4
    <2>4. Len(Words(c)) = 4
      BY <1>1, <2>1
    <2>5. HeaderSize(c) = WordBytes * (Len(Words(c)) + 1)
      BY <2>1, <2>4 DEF WordBytes
    <2> QED BY <2>1, <2>2, <2>3, <2>4, <2>5
  <1>6. CASE c = "DB2"
    <2>1. Words(c) = DB2Words /\ HeaderSize(c) = 48
      BY <1>6 DEF Words, HeaderSize
    <2>2. Len(Words(c)) = 11
      BY <1>1, <2>1
    <2>3. HeaderSize(c) = WordBytes * (Len(Words(c)) + 1)
      BY <2>1, <2>2 DEF WordBytes
    <2> QED BY <1>2, <1>3, <2>1, <2>2, <2>3
  <1> QED BY <1>5, <1>6 DEF Classes

\* The words the size check multiplies are words of both classes.
LEMMA NamedWords ==
    /\ {"recordCount", "recordSize", "stringSize"} \subseteq WordNames
    /\ \A c \in Classes : \A n \in {"recordCount", "recordSize", "stringSize"} :
          \E i \in 1..Len(Words(c)) : Words(c)[i] = n
  <1>1. /\ \A c \in Classes : Words(c)[1] = "recordCount"
        /\ \A c \in Classes : Words(c)[3] = "recordSize"
        /\ \A c \in Classes : Words(c)[4] = "stringSize"
    <2>1. /\ DBCWords[1] = "recordCount" /\ DB2Words[1] = "recordCount"
          /\ DBCWords[3] = "recordSize" /\ DB2Words[3] = "recordSize"
          /\ DBCWords[4] = "stringSize" /\ DB2Words[4] = "stringSize"
      BY DEF DBCWords, DB2Words
    <2>2. \A c \in Classes : Words(c) = DBCWords \/ Words(c) = DB2Words
      BY Zenon DEF Words
    <2> QED BY <2>1, <2>2
  <1>2. ASSUME NEW c \in Classes PROVE 1..4 \subseteq 1..Len(Words(c))
    <2> DEFINE n == Len(Words(c))
    <2>1. n \in 4..11
      BY WordFacts
    <2> HIDE DEF n
    <2>2. 1..4 \subseteq 1..n
      BY <2>1
    <2> QED BY <2>2 DEF n
  <1> QED BY <1>1, <1>2, WordFacts DEF Classes

\* One read of a word: whole if four bytes are left, and otherwise whatever is
\* left, after which the stream is at its end.
LEMMA ReadOneWord ==
    ASSUME StreamTypeOK, ~m_eof, m_pos <= m_size, Read(WordBytes, 1)
    PROVE  /\ m_pos' = m_pos + WordBytes
           /\ m_eof' = (m_pos' > m_size)
           /\ m_eof' \in BOOLEAN
           /\ CursorInBounds'
           /\ m_buff' = m_buff /\ m_size' = m_size
           /\ BytesOfLastItem(WordBytes, 1) \in 0..WordBytes
           /\ ItemsRead(WordBytes, 1) = 1
           /\ m_pos' <= m_size => BytesOfLastItem(WordBytes, 1) = WordBytes
  <1> DEFINE left == m_size - m_pos
  <1>1. left \in Nat /\ m_pos \in Nat /\ m_size \in Nat
    BY DEF StreamTypeOK
  <1>2. left \div 4 \in Nat /\ (left \div 4 < 1 <=> left < 4) /\ left % 4 \in 0..3
    BY <1>1, SMT
  <1>3. WholeItems(WordBytes) = left \div 4
    BY DEF WholeItems, WordBytes
  <1>4. ItemsRead(WordBytes, 1) = 1
    BY <1>1, <1>2, <1>3 DEF ItemsRead, StreamTypeOK
  <1>5. CASE left < 4
    <2>1. BytesOfLastItem(WordBytes, 1) = left % 4
      BY <1>2, <1>3, <1>5 DEF BytesOfLastItem, WordBytes
    <2>2. m_eof' = TRUE
      BY <1>2, <1>3, <1>5 DEF Read
    <2>3. m_pos' = m_pos + 4 /\ m_buff' = m_buff /\ m_size' = m_size
      BY <1>1, <1>4 DEF Read, WordBytes
    <2>4. (m_pos' > m_size) = TRUE
      BY <1>1, <1>5, <2>3
    <2>5. m_eof' = (m_pos' > m_size)
      BY <2>2, <2>4, Zenon
    <2>6. m_pos' <= m_size => BytesOfLastItem(WordBytes, 1) = WordBytes
      BY <1>1, <1>5, <2>1, <2>3
    <2>7. BytesOfLastItem(WordBytes, 1) \in 0..WordBytes
      BY <1>2, <2>1 DEF WordBytes
    <2>8. CursorInBounds'
      BY <1>1, <1>5, <2>2, <2>3 DEF CursorInBounds
    <2>9. m_eof' \in BOOLEAN
      BY <2>2
    <2> QED BY <1>4, <2>3, <2>5, <2>6, <2>7, <2>8, <2>9, Zenon DEF WordBytes
  <1>6. CASE left >= 4
    <2>0. ~(left \div 4 < 1)
      BY <1>1, <1>2, <1>6
    <2>1. BytesOfLastItem(WordBytes, 1) = WordBytes
      BY <1>3, <2>0, Zenon DEF BytesOfLastItem
    <2>2. m_eof' = FALSE
      BY <1>3, <2>0, Zenon DEF Read
    <2>3. m_pos' = m_pos + 4 /\ m_buff' = m_buff /\ m_size' = m_size
      BY <1>1, <1>4 DEF Read, WordBytes
    <2>4. (m_pos' > m_size) = FALSE
      BY <1>1, <1>6, <2>3
    <2>5. m_eof' = (m_pos' > m_size)
      BY <2>2, <2>4, Zenon
    <2>6. m_pos' <= m_size => BytesOfLastItem(WordBytes, 1) = WordBytes
      BY <1>1, <1>6, <2>1, <2>3
    <2>7. BytesOfLastItem(WordBytes, 1) \in 0..WordBytes
      BY <1>2, <2>1 DEF WordBytes
    <2>8. CursorInBounds'
      BY <1>1, <1>6, <2>2, <2>3 DEF CursorInBounds
    <2>9. m_eof' \in BOOLEAN
      BY <2>2
    <2> QED BY <1>4, <2>3, <2>5, <2>6, <2>7, <2>8, <2>9, Zenon DEF WordBytes
  <1> QED BY <1>1, <1>5, <1>6

\* What a read leaves in a member is a natural number, and the word itself if
\* it was read whole.
LEMMA LowBytesFacts ==
    ASSUME NEW v \in Nat, NEW k \in 0..WordBytes
    PROVE  LowBytes(v, k) \in Nat /\ (k = WordBytes => LowBytes(v, k) = v)
  <1>1. \A i \in 1..4 : ByteWeight[i] \in Nat \ {0}
    <2>1. ByteMod \in Nat \ {0}
      BY ByteModAssumption
    <2>2. ByteMod * ByteMod \in Nat \ {0}
      BY <2>1, SMT
    <2>3. ByteMod * ByteMod * ByteMod \in Nat \ {0}
      BY <2>1, <2>2, SMT
    <2> QED BY <2>1, <2>2, <2>3 DEF ByteWeight
  <1>2. CASE k = WordBytes
    BY <1>2 DEF LowBytes
  <1>3. CASE k # WordBytes
    <2>1. k + 1 \in 1..4 /\ LowBytes(v, k) = v % ByteWeight[k + 1]
      BY <1>3 DEF LowBytes, WordBytes
    <2> QED BY <1>1, <1>3, <2>1
  <1> QED BY <1>2, <1>3

-----------------------------------------------------------------------------
\* The invariant holds at the start and after every step of the object.

LEMMA FileFacts ==
    ASSUME NEW f \in Files
    PROVE  /\ f.size \in Nat /\ f.size > 0
           /\ \A w \in WordNames : f.word[w] \in 0..FieldMod - 1
           /\ Last(f.path) \in Names
  BY FilesAssumption DEF FileType, Names

\* The values of a new object have the types of its members.
LEMMA NewObjectFacts ==
    /\ NULL \in Nat /\ NullPointer \in PointerType
    /\ ZeroHeader \in [WordNames -> Nat]
    /\ Absent \in OutputType /\ Partial \in OutputType
    /\ \A f \in Files : Whole(f) \in OutputType
  <1>1. NULL \in Nat /\ NullPointer \in PointerType
    BY DEF NULL, NullPointer, PointerType
  <1>2. ZeroHeader \in [WordNames -> Nat]
    BY DEF ZeroHeader
  <1>3. Absent \in OutputType /\ Partial \in OutputType
    BY DEF Absent, Partial, OutputType
  <1>4. \A f \in Files : Whole(f) \in OutputType
    BY DEF Whole, OutputType
  <1> QED BY <1>1, <1>2, <1>3, <1>4

LEMMA InitInv == Init => IInv
  <1> SUFFICES ASSUME Init PROVE IInv
    OBVIOUS
  <1>1. FlagsOK
    BY DEF Init, StreamInit, FlagsOK
  <1>2. MembersOK
    BY MaxOpensAssumption, NewObjectFacts DEF Init, StreamInit, MembersOK
  <1>3. CursorInBounds
    BY DEF Init, StreamInit, CursorInBounds
  <1>4. Opening /\ Progress /\ Loaded
    BY DEF Init, Opening, Progress, Loaded
  <1> QED BY <1>1, <1>2, <1>3, <1>4 DEF Init, IInv

LEMMA OpenFoundInv ==
    ASSUME IInv, NEW f \in Files, OpenFound(f)
    PROVE  IInv'
  <1>1. FlagsOK'
    BY DEF IInv, FlagsOK, OpenFound, OpenStream
  <1>2. MembersOK'
    BY FileFacts, NewObjectFacts, MaxOpensAssumption
       DEF IInv, MembersOK, OpenFound, Reset, OpenStream
  <1>3. CursorInBounds'
    BY FileFacts DEF OpenFound, OpenStream, CursorInBounds
  <1>4. Opening'
    BY DEF IInv, MembersOK, OpenFound, Reset, OpenStream, Opening
  <1>5. Progress'
    BY DEF OpenFound, OpenStream, Progress
  <1>6. Loaded'
    BY DEF OpenFound, Reset, Loaded
  <1> QED BY <1>1, <1>2, <1>3, <1>4, <1>5, <1>6 DEF IInv, OpenFound

LEMMA OpenMissingInv ==
    ASSUME IInv, NEW stale \in StaleSizes, OpenMissing(stale)
    PROVE  IInv'
  <1>1. FlagsOK'
    BY DEF IInv, FlagsOK, OpenMissing, OpenStream
  <1>2. MembersOK'
    BY StaleSizesAssumption, NewObjectFacts, MaxOpensAssumption
       DEF IInv, MembersOK, OpenMissing, Reset, OpenStream
  <1>3. CursorInBounds'
    BY StaleSizesAssumption DEF OpenMissing, OpenStream, CursorInBounds
  <1>4. Opening' /\ Progress' /\ Loaded'
    BY DEF OpenMissing, Reset, Opening, Progress, Loaded
  <1>5. recordData' = NullPointer /\ m_name' = NoName /\ ~ret'
    BY DEF OpenMissing, Reset
  <1> QED BY <1>1, <1>2, <1>3, <1>4, <1>5 DEF IInv

LEMMA ReadMagicInv ==
    ASSUME IInv, ReadMagic
    PROVE  IInv'
  <1>1. m_pos = 0 /\ ~m_eof /\ Read(WordBytes, 1)
    BY DEF IInv, Progress, ReadMagic
  <1>2. StreamTypeOK /\ m_pos <= m_size
    BY <1>1 DEF IInv, FlagsOK, MembersOK, StreamTypeOK
  <1>3. /\ m_pos' = WordBytes /\ m_eof' = (m_pos' > m_size)
        /\ m_buff' = m_buff /\ m_size' = m_size
        /\ m_eof' \in BOOLEAN /\ CursorInBounds'
    BY <1>1, <1>2, ReadOneWord DEF WordBytes, StreamTypeOK
  <1>4. pc' \in {"idle", "words"} /\ (pc' = "idle" => ret' = FALSE)
        /\ (pc' = "words" => file.magic = class /\ ret' = ret)
    BY DEF ReadMagic, Return
  <1>5. /\ UNCHANGED <<class, file, next, opens, out>>
        /\ UNCHANGED <<hdr, recordData, stringTable, m_name>>
    BY DEF ReadMagic, objectVars
  <1>6. next = 1 /\ recordData = NullPointer /\ m_name = NoName
    BY DEF IInv, Opening, Progress, ReadMagic
  <1>7. FlagsOK'
    BY <1>3, <1>4 DEF IInv, FlagsOK
  <1>8. MembersOK'
    BY <1>3, <1>4, <1>5 DEF IInv, MembersOK, WordBytes
  <1>9. CursorInBounds'
    BY <1>3
  <1>10. Opening'
    BY <1>3, <1>5 DEF IInv, Opening, ReadMagic
  <1>11. Progress'
    <2>1. m_eof' = (m_pos' > m_size')
      BY <1>3, Zenon
    <2>2. next' <= Len(Words(class')) /\ m_pos' = WordBytes * next'
      <3>1. class \in Classes /\ next' = 1 /\ class' = class /\ m_pos' = 4
        BY <1>3, <1>5, <1>6 DEF IInv, MembersOK, WordBytes
      <3>2. Len(Words(class)) \in 4..11
        BY <3>1, WordFacts
      <3>3. 1 <= Len(Words(class)) /\ 4 = WordBytes * 1
        BY <3>2 DEF WordBytes
      <3> QED BY <3>1, <3>3, Zenon
    <2>3. next' = 1
      BY <1>5, <1>6
    <2>4. \A i \in 1..next' - 1 : FALSE
      BY <2>3, SMT
    <2> QED BY <1>4, <1>5, <2>1, <2>2, <2>4, Zenon DEF Progress
  <1>12. Loaded'
    BY <1>5, <1>6 DEF Loaded
  <1>13. pc' = "idle" => IF ret' THEN recordData' # NullPointer
                         ELSE recordData' = NullPointer /\ m_name' = NoName
    BY <1>4, <1>5, <1>6
  <1> QED BY <1>7, <1>8, <1>9, <1>10, <1>11, <1>12, <1>13 DEF IInv

LEMMA ReadWordInv ==
    ASSUME IInv, ReadWord
    PROVE  IInv'
  <1> DEFINE w == Words(class)[next]
  <1>1. /\ pc = "words" /\ ~m_eof /\ Read(WordBytes, 1)
        /\ hdr' = [hdr EXCEPT ![w] =
                     LowBytes(file.word[w], BytesOfLastItem(WordBytes, 1))]
        /\ next' = next + 1
        /\ pc' = IF next = Len(Words(class)) THEN "check" ELSE "words"
        /\ UNCHANGED <<recordData, stringTable, m_name, class, file, ret, opens, out>>
    BY DEF ReadWord
  <1>2. StreamTypeOK /\ m_pos <= m_size
    BY <1>1 DEF IInv, FlagsOK, MembersOK, StreamTypeOK, CursorInBounds
  <1>3. /\ m_pos' = m_pos + WordBytes /\ m_eof' = (m_pos' > m_size)
        /\ m_buff' = m_buff /\ m_size' = m_size
        /\ m_pos' <= m_size => BytesOfLastItem(WordBytes, 1) = WordBytes
        /\ BytesOfLastItem(WordBytes, 1) \in 0..WordBytes
        /\ m_eof' \in BOOLEAN /\ CursorInBounds'
    BY <1>1, <1>2, ReadOneWord
  <1>4. /\ class \in Classes /\ file \in Files /\ next \in Nat /\ next <= Len(Words(class))
        /\ file.magic = class /\ m_pos = WordBytes * next /\ next \in 1..11
        /\ recordData = NullPointer /\ m_name = NoName
    <2>1. /\ class \in Classes /\ file \in Files /\ next <= Len(Words(class))
          /\ file.magic = class /\ m_pos = WordBytes * next /\ next \in 1..12
          /\ recordData = NullPointer /\ m_name = NoName
      BY <1>1 DEF IInv, MembersOK, Opening, Progress
    <2>2. Len(Words(class)) \in Nat /\ Len(Words(class)) <= 11
      BY <2>1, WordFacts
    <2>3. next \in Nat /\ next \in 1..11
      BY <2>1, <2>2
    <2> QED BY <2>1, <2>3
  <1>5. w \in WordNames /\ file.word[w] \in Nat
    <2>1. w \in WordNames
      BY <1>4, WordFacts
    <2> QED BY <1>4, <2>1, FileFacts
  <1>6. LowBytes(file.word[w], BytesOfLastItem(WordBytes, 1)) \in Nat
    BY <1>3, <1>5, LowBytesFacts
  <1>7. m_pos' <= m_size => hdr' = [hdr EXCEPT ![w] = file.word[w]]
    BY <1>1, <1>3, <1>5, LowBytesFacts
  <1>8. FlagsOK'
    BY <1>1, <1>3 DEF IInv, FlagsOK
  <1>9. MembersOK'
    <2>1. hdr' \in [WordNames -> Nat]
      BY <1>1, <1>5, <1>6 DEF IInv, MembersOK
    <2>2. next' \in 1..12
      BY <1>1, <1>4
    <2>3. m_buff' \in Nat /\ m_pos' \in Nat /\ m_size' \in Nat
      BY <1>3 DEF IInv, MembersOK, WordBytes
    <2> QED BY <1>1, <2>1, <2>2, <2>3 DEF IInv, MembersOK
  <1>10. Opening'
    BY <1>1, <1>3 DEF IInv, Opening
  <1>11. Progress'
    <2>1. m_eof' = (m_pos' > m_size')
      BY <1>3, Zenon
    <2>2. /\ m_pos' = WordBytes * next'
          /\ pc' = "words" => next' <= Len(Words(class'))
          /\ pc' = "check" => next' = Len(Words(class')) + 1
      BY <1>1, <1>3, <1>4, WordFacts DEF WordBytes
    <2>3. ASSUME m_pos' <= m_size', NEW i \in 1..next' - 1
          PROVE  hdr'[Words(class')[i]] = file'.word[Words(class')[i]]
      <3>1. m_pos <= m_size /\ m_pos' <= m_size /\ i \in 1..next
        BY <1>1, <1>2, <1>3, <1>4, <2>3 DEF WordBytes, StreamTypeOK
      <3>2. CASE i = next
        BY <1>1, <1>5, <1>7, <3>1, <3>2 DEF IInv, MembersOK
      <3>3. CASE i # next
        <4>1. i \in 1..next - 1 /\ i \in 1..Len(Words(class)) /\ next \in 1..Len(Words(class))
          BY <1>4, <3>1, <3>3, WordFacts
        <4>2. Words(class)[i] # w /\ Words(class)[i] \in WordNames
          BY <1>4, <3>3, <4>1, WordFacts
        <4>3. hdr[Words(class)[i]] = file.word[Words(class)[i]]
          BY <1>1, <3>1, <4>1 DEF IInv, Progress
        <4> QED BY <1>1, <1>7, <3>1, <4>2, <4>3 DEF IInv, MembersOK
      <3> QED BY <3>2, <3>3
    <2>4. pc' \in {"words", "check"} /\ file'.magic = class'
      BY <1>1, <1>4
    <2> QED BY <2>1, <2>2, <2>3, <2>4, Zenon DEF Progress
  <1>12. Loaded' /\ pc' # "idle"
    BY <1>1, <1>4 DEF Loaded
  <1> QED BY <1>3, <1>8, <1>9, <1>10, <1>11, <1>12 DEF IInv

LEMMA ReadWordFailsInv ==
    ASSUME IInv, ReadWordFails
    PROVE  IInv'
  <1>1. /\ pc = "words" /\ m_eof /\ Read(WordBytes, 1)
        /\ pc' = "idle" /\ ret' = FALSE
        /\ UNCHANGED <<hdr, recordData, stringTable, m_name, class, file, next, opens, out>>
    BY DEF ReadWordFails, Return, objectVars
  <1>2. m_eof = TRUE
    BY <1>1 DEF IInv, FlagsOK
  <1>3. ItemsRead(WordBytes, 1) = 0
    BY <1>2 DEF ItemsRead
  <1>4. m_eof' = TRUE /\ m_pos' = m_pos /\ m_buff' = m_buff /\ m_size' = m_size
    <2>1. m_eof' = TRUE
      BY <1>1, <1>2, Zenon DEF Read
    <2> QED BY <1>1, <1>3, <2>1 DEF Read, IInv, MembersOK, WordBytes
  <1>5. recordData = NullPointer /\ m_name = NoName
    BY <1>1 DEF IInv, Opening
  <1>6. FlagsOK' /\ CursorInBounds'
    BY <1>1, <1>4 DEF FlagsOK, CursorInBounds
  <1>7. MembersOK'
    BY <1>1, <1>4 DEF IInv, MembersOK
  <1>8. Opening' /\ Progress' /\ Loaded'
    BY <1>1, <1>5 DEF Opening, Progress, Loaded
  <1> QED BY <1>1, <1>5, <1>6, <1>7, <1>8 DEF IInv

LEMMA SizeCheckFailsInv ==
    ASSUME IInv, SizeCheckFails
    PROVE  IInv'
  <1>1. /\ pc = "check" /\ pc' = "idle" /\ ret' = FALSE
        /\ UNCHANGED <<hdr, recordData, stringTable, m_name, class, file, next, opens, out>>
        /\ UNCHANGED <<m_buff, m_pos, m_size, m_eof>>
    BY DEF SizeCheckFails, Return, objectVars, streamVars
  <1>2. recordData = NullPointer /\ m_name = NoName
    BY <1>1 DEF IInv, Opening
  <1>3. FlagsOK' /\ CursorInBounds'
    BY <1>1 DEF IInv, FlagsOK, CursorInBounds
  <1>4. MembersOK'
    BY <1>1 DEF IInv, MembersOK
  <1>5. Opening' /\ Progress' /\ Loaded'
    BY <1>1, <1>2 DEF Opening, Progress, Loaded
  <1> QED BY <1>1, <1>2, <1>3, <1>4, <1>5 DEF IInv

\* The three factors of the size check stay natural numbers under size_t.
LEMMA ClaimTypes ==
    ASSUME MembersOK
    PROVE  RecordBytes \in Nat /\ ClaimedSize \in Nat
  <1>1. /\ hdr["recordSize"] \in Nat /\ hdr["recordCount"] \in Nat
        /\ hdr["stringSize"] \in Nat
    BY NamedWords DEF MembersOK
  <1>2. hdr["recordSize"] * hdr["recordCount"] \in Nat
    BY <1>1, SMT
  <1>3. RecordBytes \in Nat
    BY <1>2, SizeModAssumption DEF RecordBytes
  <1>4. HeaderSize(class) \in Nat
    BY DEF HeaderSize
  <1>5. RecordBytes + hdr["stringSize"] + HeaderSize(class) \in Nat
    BY <1>1, <1>3, <1>4
  <1> QED BY <1>3, <1>5, SizeModAssumption DEF ClaimedSize

LEMMA SizeCheckPassesInv ==
    ASSUME IInv, SizeCheckPasses
    PROVE  IInv'
  <1>1. /\ pc = "check" /\ ClaimedSize <= m_size /\ pc' = "idle"
        /\ recordData' = BufferAtCursor
        /\ stringTable' = [BufferAtCursor EXCEPT !.off = @ + RecordBytes]
        /\ UNCHANGED <<hdr, class, file, next, opens, out>>
        /\ UNCHANGED <<m_buff, m_pos, m_size, m_eof>>
    BY DEF SizeCheckPasses, Return, streamVars
  <1>2. IF BufferAtCursor # NullPointer
        THEN m_name' = BaseName(file.path) /\ ret' = TRUE
        ELSE m_name' = m_name /\ ret' = FALSE
    BY DEF SizeCheckPasses, Return
  <1>3. /\ MembersOK /\ file \in Files /\ m_buff = opens /\ opens > 0
        /\ m_size = file.size /\ m_name = NoName /\ file.magic = class
        /\ next = Len(Words(class)) + 1 /\ m_pos = WordBytes * next
        /\ class \in Classes
    BY <1>1 DEF IInv, MembersOK, Opening, Progress
  <1>4. m_pos = HeaderSize(class) /\ m_pos \in Nat
    BY <1>3, WordFacts DEF MembersOK
  <1>5. BufferAtCursor \in PointerType /\ RecordBytes \in Nat
    BY <1>3, NewObjectFacts, ClaimTypes DEF BufferAtCursor, PointerType, MembersOK
  <1>6. BufferAtCursor # NullPointer <=> m_pos < m_size
    BY <1>3 DEF BufferAtCursor, NullPointer, NULL, MembersOK
  <1>7. FlagsOK' /\ CursorInBounds'
    BY <1>1, <1>2 DEF IInv, FlagsOK, CursorInBounds
  <1>8. MembersOK'
    <2>1. m_name' \in Names \cup {NoName}
      BY <1>2, <1>3, FileFacts DEF BaseName
    <2>2. recordData' \in PointerType /\ stringTable' \in PointerType
      BY <1>1, <1>5 DEF PointerType
    <2> QED BY <1>1, <2>1, <2>2 DEF IInv, MembersOK
  <1>9. Opening' /\ Progress'
    BY <1>1 DEF Opening, Progress
  <1>10. Loaded'
    <2>1. SUFFICES ASSUME recordData' # NullPointer PROVE Loaded'
      BY DEF Loaded
    <2>2. m_pos < m_size /\ ret' = TRUE /\ m_name' = Last(file.path)
      BY <1>1, <1>2, <1>6, <2>1 DEF BaseName
    <2>3. /\ recordData' = [buff |-> m_buff, off |-> HeaderSize(class)]
          /\ stringTable' = [buff |-> m_buff, off |-> HeaderSize(class) + RecordBytes]
      BY <1>1, <1>4, <2>2 DEF BufferAtCursor
    <2>4. \A i \in 1..Len(Words(class)) :
             hdr[Words(class)[i]] = file.word[Words(class)[i]]
      BY <1>1, <1>3, <2>2, WordFacts DEF IInv, Progress, MembersOK
    <2>5. RecordBytes' = RecordBytes /\ ClaimedSize' = ClaimedSize
      BY <1>1 DEF RecordBytes, ClaimedSize
    <2> QED BY <1>1, <1>3, <1>4, <2>2, <2>3, <2>4, <2>5 DEF Loaded
  <1>11. pc' = "idle" => IF ret' THEN recordData' # NullPointer
                         ELSE recordData' = NullPointer /\ m_name' = NoName
    BY <1>1, <1>2, <1>3
  <1> QED BY <1>7, <1>8, <1>9, <1>10, <1>11 DEF IInv

LEMMA WriteInv ==
    ASSUME IInv, NEW outcome \in WriteOutcomes, Write(outcome)
    PROVE  IInv'
  <1>1. /\ UNCHANGED <<m_buff, m_pos, m_size, m_eof>>
        /\ UNCHANGED <<hdr, recordData, stringTable, m_name>>
        /\ UNCHANGED <<class, pc, file, next, ret, opens>>
    BY DEF Write, streamVars, objectVars
  <1>2. out' \in [Names -> OutputType]
    <2>1. Written(outcome) \in OutputType
      BY NewObjectFacts DEF Written, IInv, MembersOK, Whole, OutputType
    <2> QED BY <2>1 DEF Write, IInv, MembersOK
  <1>3. FlagsOK' /\ CursorInBounds'
    BY <1>1 DEF IInv, FlagsOK, CursorInBounds
  <1>4. MembersOK'
    BY <1>1, <1>2 DEF IInv, MembersOK
  <1>5. Opening' /\ Progress'
    BY <1>1 DEF IInv, Opening, Progress
  <1>6. Loaded'
    BY <1>1 DEF IInv, Loaded, RecordBytes, ClaimedSize
  <1> QED BY <1>1, <1>3, <1>4, <1>5, <1>6 DEF IInv

LEMMA StepInv == IInv /\ [Next]_vars => IInv'
  <1> SUFFICES ASSUME IInv, [Next]_vars PROVE IInv'
    OBVIOUS
  <1>1. ASSUME NEW f \in Files, OpenFound(f) PROVE IInv'
    BY <1>1, OpenFoundInv
  <1>2. ASSUME NEW stale \in StaleSizes, OpenMissing(stale) PROVE IInv'
    BY <1>2, OpenMissingInv
  <1>3. CASE ReadStep
    BY <1>3, ReadMagicInv, ReadWordInv, ReadWordFailsInv, SizeCheckFailsInv,
       SizeCheckPassesInv DEF ReadStep
  <1>4. ASSUME NEW outcome \in WriteOutcomes, Write(outcome) PROVE IInv'
    BY <1>4, WriteInv
  <1>5. CASE UNCHANGED vars
    <2>1. /\ UNCHANGED <<m_buff, m_pos, m_size, m_eof>>
          /\ UNCHANGED <<hdr, recordData, stringTable, m_name>>
          /\ UNCHANGED <<class, pc, file, next, ret, opens, out>>
      BY <1>5 DEF vars, streamVars, objectVars
    <2>2. FlagsOK' /\ CursorInBounds'
      BY <2>1 DEF IInv, FlagsOK, CursorInBounds
    <2>3. MembersOK'
      BY <2>1 DEF IInv, MembersOK
    <2>4. Opening' /\ Progress'
      BY <2>1 DEF IInv, Opening, Progress
    <2>5. Loaded'
      BY <2>1 DEF IInv, Loaded, RecordBytes, ClaimedSize
    <2> QED BY <2>1, <2>2, <2>3, <2>4, <2>5 DEF IInv
  <1> QED BY <1>1, <1>2, <1>3, <1>4, <1>5 DEF Next

-----------------------------------------------------------------------------
\* The members of an object have their types in every reachable state, after
\* any sequence of open and write calls and at every step inside open.
THEOREM TypeCorrect == Spec => []TypeOK
  <1>1. IInv => TypeOK
    BY TypeParts DEF IInv
  <1> QED BY <1>1, InitInv, StepInv, PTL DEF Spec

\* The difference m_size - m_pos that MPQStream::read computes for a read cut
\* short never wraps, since the cursor passes the end only with m_eof set.
THEOREM CursorCorrect == Spec => []CursorInBounds
  <1>1. IInv => CursorInBounds
    BY DEF IInv
  <1> QED BY <1>1, InitInv, StepInv, PTL DEF Spec

\* With a 64-bit size_t the size check of open compares the true size of the
\* table: neither the product nor the sum can wrap.
LEMMA ExactClaim ==
    ASSUME Is64Bit, NEW rs \in 0..FieldMod - 1, NEW rc \in 0..FieldMod - 1,
           NEW ss \in 0..FieldMod - 1, NEW h \in {20, 48}
    PROVE  /\ (rs * rc) % SizeMod = rs * rc
           /\ (((rs * rc) % SizeMod) + ss + h) % SizeMod = rs * rc + ss + h
  <1>1. FieldMod \in Nat /\ FieldMod > 48
    BY ByteModAssumption, FieldModAssumption
  <1> DEFINE m == FieldMod - 1
  <1>2. m \in Nat /\ FieldMod = m + 1 /\ rs \in Nat /\ rc \in Nat /\ rs <= m /\ rc <= m
    BY <1>1
  <1>3. rs * rc <= m * rc /\ rc * m <= m * m
    BY <1>2, TimesMonotone
  <1>4. rs * rc \in Nat /\ m * m \in Nat /\ m * rc = rc * m /\ rc * m \in Nat
    BY <1>2, SMT
  <1>5. rs * rc <= m * m
    BY <1>3, <1>4, SMT
  <1>6. FieldMod * FieldMod = m * m + m + m + 1
    BY <1>2, SMT
  <1>7. rs * rc + ss + h < FieldMod * FieldMod
    BY <1>1, <1>2, <1>4, <1>5, <1>6, SMT
  <1>8. SizeMod \in Nat \ {0} /\ rs * rc + ss + h \in 0..SizeMod - 1 /\ rs * rc \in 0..SizeMod - 1
    BY <1>1, <1>2, <1>4, <1>7, SizeModAssumption, SMT DEF Is64Bit
  <1> QED BY <1>8, SmallRemainder

LEMMA LoadedInBounds == IInv /\ Is64Bit => TableInBounds
  <1> SUFFICES ASSUME IInv, Is64Bit, recordData # NullPointer
               PROVE  /\ m_buff # NULL
                      /\ recordData.buff = m_buff /\ stringTable.buff = m_buff
                      /\ \A id \in 0..hdr["recordCount"] - 1 :
                            RecordAt(id).off + hdr["recordSize"] <= stringTable.off
                      /\ stringTable.off + hdr["stringSize"] <= m_size
    BY DEF TableInBounds
  <1> DEFINE rs == hdr["recordSize"]
             rc == hdr["recordCount"]
             ss == hdr["stringSize"]
             h  == HeaderSize(class)
  <1>1. /\ m_buff # NULL /\ m_buff \in Nat /\ m_size \in Nat
        /\ recordData = [buff |-> m_buff, off |-> h]
        /\ stringTable = [buff |-> m_buff, off |-> h + RecordBytes]
        /\ ClaimedSize <= m_size /\ file \in Files /\ class \in Classes
        /\ \A i \in 1..Len(Words(class)) :
              hdr[Words(class)[i]] = file.word[Words(class)[i]]
    BY DEF IInv, Loaded, MembersOK, NULL
  <1>2. /\ rs \in 0..FieldMod - 1 /\ rc \in 0..FieldMod - 1 /\ ss \in 0..FieldMod - 1
    <2>1. hdr["recordSize"] = file.word["recordSize"]
      BY <1>1, NamedWords
    <2>2. hdr["recordCount"] = file.word["recordCount"]
      BY <1>1, NamedWords
    <2>3. hdr["stringSize"] = file.word["stringSize"]
      BY <1>1, NamedWords
    <2> QED BY <1>1, <2>1, <2>2, <2>3, NamedWords, FileFacts
  <1>3. h \in {20, 48}
    BY DEF HeaderSize
  <1>4. RecordBytes = rs * rc /\ ClaimedSize = rs * rc + ss + h
    BY <1>2, <1>3, ExactClaim DEF RecordBytes, ClaimedSize
  <1>5. rs \in Nat /\ rc \in Nat /\ ss \in Nat /\ rs * rc \in Nat
    BY <1>2, SMT
  <1>6. ASSUME NEW id \in 0..rc - 1
        PROVE  RecordAt(id).off + rs <= stringTable.off
    <2>1. RecordAt(id).off = h + id * rs
      BY <1>1 DEF RecordAt
    <2>2. id + 1 \in Nat /\ id \in Nat /\ id + 1 <= rc
      BY <1>5
    <2>3. (id + 1) * rs <= rc * rs
      BY <1>5, <2>2, TimesMonotone
    <2>4. (id + 1) * rs = id * rs + rs /\ id * rs \in Nat /\ rc * rs = rs * rc
      BY <1>5, <2>2, SMT
    <2>5. stringTable.off = h + rs * rc
      BY <1>1, <1>4
    <2>6. id * rs + rs <= rs * rc
      BY <2>3, <2>4
    <2> QED BY <1>3, <1>5, <2>1, <2>4, <2>5, <2>6
  <1>7. stringTable.off + ss <= m_size
    BY <1>1, <1>3, <1>4, <1>5
  <1> QED BY <1>1, <1>6, <1>7

\* On a 64-bit build every record and the string block of a loaded table lie
\* in the buffer the stream owns, whatever the header of the file claims and
\* whatever the object held before.
THEOREM TableBounds == Is64Bit /\ Spec => []TableInBounds
  <1>1. SUFFICES ASSUME Is64Bit PROVE Spec => []TableInBounds
    OBVIOUS
  <1>2. IInv => TableInBounds
    BY <1>1, LoadedInBounds
  <1> QED BY <1>2, InitInv, StepInv, PTL DEF Spec

-----------------------------------------------------------------------------
\* After open returned, the object describes the file of that call or, when
\* open failed, no file at all: nothing of an earlier table shows through.
THEOREM FreshObject == Spec => []ObjectIsFresh
  <1>1. IInv => ObjectIsFresh
    BY DEF IInv, Loaded, ObjectIsFresh
  <1> QED BY <1>1, InitInv, StepInv, PTL DEF Spec

\* Once a header was read to its last byte, the size check compares what the
\* file claims, and HeaderSize is where the cursor stands.
LEMMA CheckedClaim ==
    ASSUME IInv, Is64Bit, pc = "check"
    PROVE  /\ m_pos = HeaderSize(class) /\ m_size = file.size /\ file.magic = class
           /\ m_pos \in Nat /\ m_size \in Nat
           /\ m_pos <= m_size =>
                ClaimedSize = HeaderSize(class) + file.word["recordSize"] * file.word["recordCount"]
                                + file.word["stringSize"]
  <1>1. /\ class \in Classes /\ file \in Files /\ m_size = file.size /\ file.magic = class
        /\ m_pos = HeaderSize(class) /\ m_pos \in Nat /\ m_size \in Nat
        /\ next = Len(Words(class)) + 1
    BY WordFacts DEF IInv, MembersOK, Opening, Progress
  <1>2. SUFFICES ASSUME m_pos <= m_size
                 PROVE  ClaimedSize = HeaderSize(class)
                          + file.word["recordSize"] * file.word["recordCount"]
                          + file.word["stringSize"]
    BY <1>1
  <1>3. \A i \in 1..Len(Words(class)) : hdr[Words(class)[i]] = file.word[Words(class)[i]]
    BY <1>1, <1>2, WordFacts DEF IInv, Progress
  <1>4. hdr["recordSize"] = file.word["recordSize"]
    BY <1>1, <1>3, NamedWords
  <1>5. hdr["recordCount"] = file.word["recordCount"]
    BY <1>1, <1>3, NamedWords
  <1>6. hdr["stringSize"] = file.word["stringSize"]
    BY <1>1, <1>3, NamedWords
  <1> DEFINE rs == file.word["recordSize"]
             rc == file.word["recordCount"]
             ss == file.word["stringSize"]
             h  == HeaderSize(class)
  <1>7. rs \in 0..FieldMod - 1 /\ rc \in 0..FieldMod - 1 /\ ss \in 0..FieldMod - 1
    BY <1>1, NamedWords, FileFacts
  <1>8. h \in {20, 48}
    BY DEF HeaderSize
  <1>9. (((rs * rc) % SizeMod) + ss + h) % SizeMod = rs * rc + ss + h
    BY <1>7, <1>8, ExactClaim
  <1>10. ClaimedSize = rs * rc + ss + h
    BY <1>4, <1>5, <1>6, <1>9 DEF ClaimedSize, RecordBytes
  <1>11. rs * rc \in Nat /\ ss \in Nat /\ h \in Nat
    BY <1>7, <1>8, SMT
  <1> QED BY <1>10, <1>11

\* The verdict of open is that of IsTable, by each way open can return.
LEMMA VerdictStep ==
    ASSUME IInv, Is64Bit, OpenAcceptsTables, [Next]_vars
    PROVE  OpenAcceptsTables'
  <1>1. ASSUME NEW f \in Files, OpenFound(f) PROVE OpenAcceptsTables'
    BY <1>1 DEF OpenFound, OpenAcceptsTables
  <1>2. ASSUME NEW stale \in StaleSizes, OpenMissing(stale) PROVE OpenAcceptsTables'
    <2>1. ret' = FALSE /\ file' = NoFile /\ class' = class /\ class \in Classes
      BY <1>2 DEF OpenMissing, IInv, MembersOK
    <2>2. ~IsTable(NoFile, class)
      BY <2>1 DEF IsTable, NoFile, Classes
    <2> QED BY <2>1, <2>2 DEF OpenAcceptsTables
  <1>3. CASE ReadMagic
    <2>1. UNCHANGED <<class, file>>
      BY <1>3 DEF ReadMagic
    <2>2. SUFFICES ASSUME pc' = "idle" PROVE ret' = FALSE /\ ~IsTable(file, class)
      BY <2>1 DEF OpenAcceptsTables
    <2>3. m_pos = 0 /\ ~m_eof /\ Read(WordBytes, 1) /\ m_size = file.size
          /\ m_size \in Nat /\ class \in Classes
      BY <1>3 DEF IInv, Progress, Opening, MembersOK, ReadMagic
    <2>4. StreamTypeOK /\ m_pos <= m_size
      BY <2>3 DEF IInv, FlagsOK, MembersOK, StreamTypeOK
    <2>5. /\ m_pos' = 4 /\ ItemsRead(WordBytes, 1) = 1
          /\ m_pos' <= m_size => BytesOfLastItem(WordBytes, 1) = WordBytes
      BY <2>3, <2>4, ReadOneWord DEF WordBytes
    <2>6. ret' = FALSE /\ (BytesOfLastItem(WordBytes, 1) # WordBytes \/ file.magic # class)
      BY <1>3, <2>2, <2>5 DEF ReadMagic, Return
    <2>7. CASE file.magic # class
      BY <2>6, <2>7 DEF IsTable
    <2>8. CASE BytesOfLastItem(WordBytes, 1) # WordBytes
      <3>1. m_size < 4
        BY <2>3, <2>5, <2>8
      <3>2. HeaderSize(class) >= 20
        BY DEF HeaderSize
      <3>3. ~(file.size > HeaderSize(class))
        BY <2>3, <3>1, <3>2 DEF HeaderSize
      <3> QED BY <2>6, <3>3 DEF IsTable
    <2> QED BY <2>6, <2>7, <2>8
  <1>4. CASE ReadWord
    <2>1. pc' # "idle"
      BY <1>4 DEF ReadWord
    <2> QED BY <2>1 DEF OpenAcceptsTables
  <1>5. CASE ReadWordFails
    <2>1. ret' = FALSE /\ UNCHANGED <<class, file>> /\ pc = "words" /\ m_eof
      BY <1>5 DEF ReadWordFails, Return
    <2>2. /\ m_pos > m_size /\ m_pos = WordBytes * next /\ next <= Len(Words(class))
          /\ m_size = file.size /\ class \in Classes /\ next \in 1..12 /\ m_size \in Nat
      <3>1. m_eof = TRUE
        BY <2>1 DEF IInv, FlagsOK
      <3> QED BY <2>1, <3>1 DEF IInv, Progress, Opening, MembersOK
    <2>3. Len(Words(class)) \in 4..11 /\ HeaderSize(class) = WordBytes * (Len(Words(class)) + 1)
      BY <2>2, WordFacts
    <2>4. ~(file.size > HeaderSize(class))
      BY <2>2, <2>3 DEF WordBytes
    <2> QED BY <2>1, <2>4 DEF IsTable, OpenAcceptsTables
  <1>6. CASE SizeCheckFails
    <2>1. /\ pc = "check" /\ ClaimedSize > m_size /\ ret' = FALSE
          /\ UNCHANGED <<class, file>>
      BY <1>6 DEF SizeCheckFails, Return
    <2>2. CASE m_pos <= m_size
      <3>1. ClaimedSize = HeaderSize(class) + file.word["recordSize"] * file.word["recordCount"]
                            + file.word["stringSize"]
        BY <2>1, <2>2, CheckedClaim
      <3>2. ClaimedSize \in Nat /\ m_size \in Nat /\ m_size = file.size
        BY <2>1, ClaimTypes, CheckedClaim DEF IInv
      <3>3. ~(ClaimedSize <= file.size)
        BY <2>1, <3>2
      <3>4. ~IsTable(file, class)
        BY <3>1, <3>3, Zenon DEF IsTable
      <3> QED BY <2>1, <3>4 DEF OpenAcceptsTables
    <2>3. CASE ~(m_pos <= m_size)
      <3>1. ~(file.size > HeaderSize(class))
        BY <2>1, <2>3, CheckedClaim
      <3> QED BY <2>1, <3>1 DEF IsTable, OpenAcceptsTables
    <2> QED BY <2>2, <2>3
  <1>7. CASE SizeCheckPasses
    <2>1. /\ pc = "check" /\ ClaimedSize <= m_size /\ UNCHANGED <<class, file>>
          /\ ret' = (BufferAtCursor # NullPointer)
      BY <1>7 DEF SizeCheckPasses, Return
    <2>2. BufferAtCursor # NullPointer <=> m_pos < m_size
      <3>1. m_buff \in Nat /\ m_buff > 0
        BY <2>1 DEF IInv, Opening, MembersOK
      <3> QED BY <3>1 DEF BufferAtCursor, NullPointer, NULL
    <2>3. CASE m_pos < m_size
      <3>1. m_pos <= m_size /\ file.size > HeaderSize(class)
        BY <2>1, <2>3, CheckedClaim
      <3>2. IsTable(file, class)
        BY <2>1, <3>1, CheckedClaim DEF IsTable
      <3> QED BY <2>1, <2>2, <2>3, <3>2 DEF OpenAcceptsTables
    <2>4. CASE ~(m_pos < m_size)
      <3>1. ~(file.size > HeaderSize(class))
        BY <2>1, <2>4, CheckedClaim
      <3> QED BY <2>1, <2>2, <2>4, <3>1 DEF IsTable, OpenAcceptsTables
    <2> QED BY <2>3, <2>4
  <1>8. ASSUME NEW outcome \in WriteOutcomes, Write(outcome) PROVE OpenAcceptsTables'
    BY <1>8 DEF Write, OpenAcceptsTables
  <1>9. CASE UNCHANGED vars
    BY <1>9 DEF vars, OpenAcceptsTables
  <1> QED BY <1>1, <1>2, <1>3, <1>4, <1>5, <1>6, <1>7, <1>8, <1>9 DEF Next, ReadStep

LEMMA VerdictInit == Init => OpenAcceptsTables
  BY DEF Init, OpenAcceptsTables, IsTable, NoFile, Classes

\* On a 64-bit build open returns true for exactly the files IsTable
\* describes, whatever the object opened before.
THEOREM VerdictCorrect == Is64Bit /\ Spec => []OpenAcceptsTables
  <1>1. SUFFICES ASSUME Is64Bit PROVE Spec => []OpenAcceptsTables
    OBVIOUS
  <1>2. IInv /\ OpenAcceptsTables /\ [Next]_vars => OpenAcceptsTables'
    BY <1>1, VerdictStep
  <1> QED BY <1>2, InitInv, VerdictInit, StepInv, PTL DEF Spec

\* Only write changes the directory, and it writes the buffer of the table
\* that is open under the name of that table.
LEMMA OutputsStep ==
    ASSUME IInv, OpenAcceptsTables, OutputsAreTables, [Next]_vars
    PROVE  OutputsAreTables'
  <1>1. class' = class
    BY DEF Next, ReadStep, OpenFound, OpenMissing, ReadMagic, ReadWord, ReadWordFails,
           SizeCheckFails, SizeCheckPasses, Write, vars
  <1>2. CASE out' = out
    BY <1>1, <1>2 DEF OutputsAreTables
  <1>3. ASSUME NEW outcome \in WriteOutcomes, Write(outcome) PROVE OutputsAreTables'
    <2>1. SUFFICES ASSUME m_name # NoName, out' = [out EXCEPT ![m_name] = Written(outcome)]
                   PROVE  OutputsAreTables'
      BY <1>2, <1>3 DEF Write
    <2>2. pc = "idle" /\ out \in [Names -> OutputType]
      BY <1>3 DEF Write, IInv, MembersOK
    <2>3. ret /\ m_name = Last(file.path) /\ IsTable(file, class)
      BY <2>1, <2>2 DEF IInv, Loaded, OpenAcceptsTables
    <2>4. Written(outcome).state = "whole" => Written(outcome).of = file
      BY DEF Written, Whole, Partial
    <2>5. ASSUME NEW n \in Names, out'[n].state = "whole"
          PROVE  IsTable(out'[n].of, class) /\ Last(out'[n].of.path) = n
      <3>1. CASE n = m_name
        BY <2>1, <2>2, <2>3, <2>4, <2>5, <3>1
      <3>2. CASE n # m_name
        BY <2>1, <2>2, <2>5, <3>2 DEF OutputsAreTables
      <3> QED BY <3>1, <3>2
    <2> QED BY <1>1, <2>5 DEF OutputsAreTables
  <1>4. CASE \E outcome \in WriteOutcomes : Write(outcome)
    BY <1>3, <1>4
  <1>5. CASE ~\E outcome \in WriteOutcomes : Write(outcome)
    <2>1. out' = out
      BY <1>5 DEF Next, ReadStep, OpenFound, OpenMissing, ReadMagic, ReadWord,
                  ReadWordFails, SizeCheckFails, SizeCheckPasses, vars
    <2> QED BY <1>2, <2>1
  <1> QED BY <1>4, <1>5

LEMMA OutputsInit == Init => OutputsAreTables
  BY DEF Init, OutputsAreTables, Absent

\* On a 64-bit build a whole file of the output directory is a table, and the
\* one its name says: no rejected file, no table under another's name.
THEOREM OutputsCorrect == Is64Bit /\ Spec => []OutputsAreTables
  <1>1. SUFFICES ASSUME Is64Bit PROVE Spec => []OutputsAreTables
    OBVIOUS
  <1>2. IInv /\ OpenAcceptsTables /\ [Next]_vars => OpenAcceptsTables'
    BY <1>1, VerdictStep
  <1>3. IInv /\ OpenAcceptsTables /\ OutputsAreTables /\ [Next]_vars => OutputsAreTables'
    BY OutputsStep
  <1> QED BY <1>2, <1>3, InitInv, VerdictInit, OutputsInit, StepInv, PTL DEF Spec

=============================================================================
