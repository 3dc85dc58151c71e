-------------------------- MODULE ExtractorProofs ---------------------------
(***************************************************************************)
(* Theorems about the program from the first argument to its exit, for any  *)
(* command line, any lists of tables, any contents and any base names.      *)
(***************************************************************************)
EXTENDS Extractor, BuildNumberProofs, WellFoundedInduction

-----------------------------------------------------------------------------
\* MINIMA AND MAXIMA

\* A set of naturals that is not empty has a least element: the order of the
\* naturals is well founded.
LEMMA LeastNatural ==
  ASSUME NEW T \in SUBSET Nat, T # {}
  PROVE  \E x \in T : \A y \in T : x <= y
<1> DEFINE Below == OpToRel(<, Nat)
<1>1. IsWellFoundedOn(Below, Nat)
  BY NatLessThanWellFounded
<1>2. \A x, y \in Nat : y < x => <<y, x>> \in Below
  BY DEF OpToRel
<1> HIDE DEF Below
<1>3. PICK x \in T : \A y \in T : ~(<<y, x>> \in Below)
  BY <1>1, WFMin
<1>4. ASSUME NEW y \in T
      PROVE  x <= y
  <2>1. x \in Nat /\ y \in Nat
    OBVIOUS
  <2>2. ~(y < x)
    BY <1>2, <1>3, <2>1
  <2> QED BY <2>1, <2>2
<1> QED BY <1>4

\* Min of the community modules is what its name says.
LEMMA MinOfNaturals ==
  ASSUME NEW S \in SUBSET Nat, S # {}
  PROVE  Min(S) \in S /\ \A x \in S : Min(S) <= x
BY LeastNatural DEF Min

\* An upper bound in the set is its maximum, be the set finite or not.
LEMMA MaxIs ==
  ASSUME NEW S \in SUBSET Nat, NEW m \in S, \A x \in S : x <= m
  PROVE  Max(S) = m
<1>1. \A x \in S : m >= x
  OBVIOUS
<1>2. Max(S) \in S /\ \A x \in S : Max(S) >= x
  BY <1>1 DEF Max
<1>3. Max(S) \in Nat /\ m \in Nat /\ Max(S) <= m /\ Max(S) >= m
  BY <1>1, <1>2
<1> QED BY <1>3

\* Numbers in order differ.
LEMMA LessDiffer == \A m, n \in Nat : m < n => m # n /\ n # m
OBVIOUS


-----------------------------------------------------------------------------
\* THE INVARIANT

Outputs == {NoOutput, Old} \cup {Partial(n) : n \in Names} \cup {Whole(n) : n \in Names}

Before == {"args", "core", "feeder", "archives"}
Loops == {"next", "open", "write"}

\* What the pointer says of the archives, at every place of the program.
Archives ==
    /\ pc \in Before \cup {"usage"} => m_as = "null" /\ deletes = 0
    /\ pc \in RunStates => m_as = "live" /\ deletes = 0
    /\ pc = "failed" => (m_as = "null" /\ deletes = 0) \/ (m_as = "dangling" /\ deletes = 1)
    /\ pc = "exited" => m_as = "null"

\* The names still to come, with the one in hand.
Pending == todo \cup (IF pc \in {"open", "write"} THEN {name} ELSE {})

\* The two loops: no name is missed, and of the names with one base name those
\* that were handled come before those that are not.
LoopList == world.dbc \cup
            (IF kind = "db2" /\ m_core = CLIENT_CATA THEN world.db2 ELSE {})
Looping ==
    pc \in Loops =>
        /\ m_type \in {0, 1}
        /\ Handled \cup Pending = LoopList
        /\ Pending \subseteq IF kind = "dbc" THEN world.dbc ELSE world.db2
        /\ \A n \in Pending : result[n] = "untouched"
        /\ \A m \in Handled, n \in Pending : BaseOf[m] = BaseOf[n] => m < n
        /\ pc \in {"open", "write"} => name \in Names /\ \A n \in todo : name < n
        /\ pc = "write" => world.holds[name] = "table"

\* What was handled when no loop runs.
HandledSoFar ==
    /\ pc \in Before \cup {"usage", "failed", "run", "mkdir", "list"} => Handled = {}
    /\ pc \in {"mkdir", "list"} => m_type \in {0, 1}
    /\ pc = "ran" => Handled = IF m_type \in {0, 1} THEN Listed ELSE {}
    /\ pc = "exited" => Handled = IF deletes = 1 /\ m_type \in {0, 1} THEN Listed ELSE {}

OnlyTables == \A n \in Handled : result[n] # "passed over" => world.holds[n] = "table"

\* A file of the directory is what the last of the names that reached it left.
LeftBy(n) == IF result[n] = "whole" THEN Whole(n) ELSE Partial(n)
LastWins ==
    \A b \in Bases :
        \/ /\ Touched(b) = {}
           /\ out[b] = IF b \in world.old THEN Old ELSE NoOutput
        \/ \E last \in Touched(b) : /\ \A n \in Touched(b) : n <= last
                                    /\ out[b] = LeftBy(last)

IInv ==
    /\ TypeOK
    /\ Archives /\ Looping /\ HandledSoFar /\ OnlyTables
    /\ LastWins

-----------------------------------------------------------------------------
\* WORLDS

\* The lists of a world are lists of names, and the two have no name, not even
\* a base name, in common.
LEMMA WorldFacts ==
  ASSUME world \in Worlds
  PROVE  /\ world.args \in Seq(STRING) /\ Len(world.args) \in Nat
         /\ world.exes \subseteq Executables
         /\ world.dbc \subseteq Names /\ world.db2 \subseteq Names
         /\ world.old \subseteq Bases
         /\ world.holds \in [Names -> {"table", "junk", "nothing"}]
         /\ \A m \in world.dbc, n \in world.db2 : BaseOf[m] # BaseOf[n]
<1>1. /\ world \in WorldType
      /\ {BaseOf[n] : n \in world.dbc} \cap {BaseOf[n] : n \in world.db2} = {}
  BY WorldsAssumption
<1>2. /\ world.args \in Seq(STRING) /\ world.exes \subseteq Executables
      /\ world.dbc \subseteq Names /\ world.db2 \subseteq Names
      /\ world.old \subseteq Bases
      /\ world.holds \in [Names -> {"table", "junk", "nothing"}]
  BY <1>1 DEF WorldType
<1>3. ASSUME NEW m \in world.dbc, NEW n \in world.db2, BaseOf[m] = BaseOf[n]
      PROVE  FALSE
  <2>1. BaseOf[m] \in {BaseOf[x] : x \in world.dbc}
    OBVIOUS
  <2>2. BaseOf[m] \in {BaseOf[x] : x \in world.db2}
    BY <1>3
  <2> QED BY <1>1, <2>1, <2>2
<1> QED BY <1>2, <1>3

\* An output that stands in the directory has a base name of its own.
LEMMA NameFacts ==
  ASSUME NEW n \in Names
  PROVE  /\ n \in Nat /\ n # 0 /\ BaseOf[n] \in Bases
         /\ Whole(n) \in Outputs /\ Partial(n) \in Outputs
BY NamesAssumption DEF Bases, Outputs

-----------------------------------------------------------------------------
\* THE STEPS

\* What became of the names and what is in the directory belong together: as
\* long as neither changes, the outputs follow the tables.
LEMMA SameResults ==
  ASSUME IInv, UNCHANGED <<world, out, result>>
  PROVE  LastWins' /\ OnlyTables' /\ Handled' = Handled
<1>1. LastWins'
  BY DEF IInv, LastWins, LeftBy, Touched
<1>2. Handled' = Handled
  BY DEF Handled
<1>3. OnlyTables'
  BY <1>2 DEF IInv, OnlyTables
<1> QED BY <1>1, <1>2, <1>3

\* The arguments: nothing is handled, no archive is open.
LEMMA ParseInv == IInv /\ ParseStep => IInv'
<1> SUFFICES ASSUME IInv, ParseStep PROVE IInv'
  OBVIOUS
<1>1. /\ TypeOK /\ pc = "args" /\ world \in Worlds
      /\ UNCHANGED <<world, m_core, m_as, deletes, haveDir, loopVars, out, result>>
      /\ pc' \in {"args", "core", "usage"}
  BY DEF IInv, TypeOK, ParseStep, SetPath, SetType, SkipUnknown, ShowUsage, ArgsDone, Parsing,
         ArgsFrame
<1>2. arg' \in 1..(Len(world.args) + 1) /\ m_type' \in 0..3
  BY <1>1, WorldFacts
     DEF TypeOK, ParseStep, SetPath, SetType, SkipUnknown, ShowUsage, ArgsDone, Parsing, HasValue
<1>3. TypeOK'
  BY <1>1, <1>2 DEF TypeOK, loopVars, States
<1>4. LastWins' /\ OnlyTables' /\ Handled' = Handled
  BY <1>1, SameResults
<1>5. Archives' /\ Looping' /\ HandledSoFar'
  BY <1>1, <1>4 DEF IInv, Archives, Looping, HandledSoFar, Before, Loops, RunStates
<1> QED BY <1>3, <1>4, <1>5 DEF IInv

\* The client and its archives: still nothing is handled.
LEMMA StartInv == IInv /\ core \in -1..6 /\ StartStep => IInv'
<1> SUFFICES ASSUME IInv, core \in -1..6, StartStep PROVE IInv'
  OBVIOUS
<1>1. /\ TypeOK /\ pc \in {"core", "feeder", "archives"}
      /\ UNCHANGED <<world, arg, m_type, haveDir, loopVars, out, result>>
      /\ Handled = {}
  BY DEF IInv, HandledSoFar, Before, initVars, StartStep, SearchVersion, programVars, GetCore,
         FeedLists, OpenArchives, OpenArchivesFails, StartFrame
<1>2. m_core' \in -1..6
  BY <1>1 DEF TypeOK, initVars, StartStep, SearchVersion, programVars, GetCore, FeedLists,
              OpenArchives, OpenArchivesFails
<1>3. m_as = "null" /\ deletes = 0
  BY <1>1 DEF IInv, Archives, Before
<1>4. \/ pc' \in {"core", "feeder", "archives", "failed"} /\ m_as' = "null" /\ deletes' = 0
      \/ pc' = "run" /\ m_as' = "live" /\ deletes' = 0
      \/ pc' = "failed" /\ m_as' = "dangling" /\ deletes' = 1
  BY <1>3 DEF StartStep, SearchVersion, programVars, GetCore, FeedLists, OpenArchives,
              OpenArchivesFails
<1>5. TypeOK'
  BY <1>1, <1>2, <1>4 DEF TypeOK, loopVars, States, RunStates
<1>6. LastWins' /\ OnlyTables' /\ Handled' = Handled
  BY <1>1, SameResults
<1>7. Archives' /\ Looping' /\ HandledSoFar'
  BY <1>1, <1>4, <1>6 DEF Archives, Looping, HandledSoFar, Before, Loops, RunStates
<1> QED BY <1>5, <1>6, <1>7 DEF IInv

\* Run, the directory, the list, and the report: the loop is before or behind.
LEMMA RunInv == IInv /\ (Dispatch \/ \E made \in BOOLEAN : MakeDir(made)) => IInv'
<1> SUFFICES ASSUME IInv, Dispatch \/ \E made \in BOOLEAN : MakeDir(made) PROVE IInv'
  OBVIOUS
<1>1. /\ TypeOK /\ pc \in {"run", "mkdir"} /\ Handled = {}
      /\ m_as = "live" /\ deletes = 0
      /\ UNCHANGED <<world, initVars, m_as, deletes, loopVars, out, result>>
      /\ pc = "mkdir" => m_type \in {0, 1}
  BY DEF IInv, HandledSoFar, Archives, RunStates, Dispatch, MakeDir
<1>2. haveDir' \in BOOLEAN
  BY <1>1 DEF TypeOK, Dispatch, MakeDir
<1>3. \/ pc' \in {"mkdir", "list"} /\ m_type \in {0, 1}
      \/ pc' = "ran" /\ m_type \notin {0, 1}
  BY <1>1 DEF Dispatch, MakeDir
<1>4. TypeOK'
  BY <1>1, <1>2, <1>3 DEF TypeOK, initVars, loopVars, States, RunStates
<1>5. LastWins' /\ OnlyTables' /\ Handled' = Handled
  BY <1>1, SameResults
<1>6. Archives' /\ Looping' /\ HandledSoFar'
  BY <1>1, <1>3, <1>5 DEF Archives, Looping, HandledSoFar, Before, Loops, RunStates, initVars
<1> QED BY <1>4, <1>5, <1>6 DEF IInv

LEMMA ListTablesInv == IInv /\ ListTables => IInv'
<1> SUFFICES ASSUME IInv, ListTables PROVE IInv'
  OBVIOUS
<1>1. /\ TypeOK /\ world \in Worlds /\ Handled = {} /\ m_type \in {0, 1}
      /\ m_as = "live" /\ deletes = 0
      /\ pc' = "next" /\ kind' = "dbc" /\ todo' = world.dbc
      /\ UNCHANGED <<world, initVars, m_as, deletes, haveDir, name, count, out, result>>
  BY DEF IInv, TypeOK, HandledSoFar, Archives, RunStates, ListTables
<1>2. TypeOK'
  BY <1>1, WorldFacts DEF TypeOK, initVars, States, RunStates
<1>3. LastWins' /\ OnlyTables' /\ Handled' = Handled
  BY <1>1, SameResults
<1>4. Pending' = world.dbc /\ LoopList' = world.dbc
  BY <1>1 DEF Pending, LoopList
<1>5. \A n \in Pending' : result'[n] = "untouched"
  BY <1>1, <1>4, WorldFacts DEF Handled
<1>6. Looping'
  BY <1>1, <1>3, <1>4, <1>5 DEF Looping, initVars
<1>7. Archives' /\ HandledSoFar'
  BY <1>1 DEF Archives, HandledSoFar, Before, RunStates
<1> QED BY <1>2, <1>3, <1>6, <1>7 DEF IInv

\* The least of the names still to come is taken in hand.
LEMMA NextNameInv == IInv /\ NextName => IInv'
<1> SUFFICES ASSUME IInv, NextName PROVE IInv'
  OBVIOUS
<1>1. /\ TypeOK /\ pc = "next" /\ todo # {} /\ todo \in SUBSET Names
      /\ m_as = "live" /\ deletes = 0
      /\ pc' = "open" /\ name' = Min(todo) /\ todo' = todo \ {Min(todo)}
      /\ UNCHANGED <<world, initVars, m_as, deletes, haveDir, kind, count, out, result>>
  BY DEF IInv, TypeOK, Archives, RunStates, NextName
<1>2. /\ name' \in todo /\ name' \in Names /\ todo' \subseteq Names
      /\ \A n \in todo' : name' < n
  <2>1. todo \in SUBSET Nat
    BY <1>1, NamesAssumption
  <2>2. Min(todo) \in todo /\ \A n \in todo : Min(todo) <= n
    BY <1>1, <2>1, MinOfNaturals
  <2>3. \A n \in todo' : n \in todo /\ n # name'
    BY <1>1
  <2>4. ASSUME NEW n \in todo'
        PROVE  name' < n
    <3>1. n \in Nat /\ name' \in Nat /\ name' <= n /\ n # name'
      BY <1>1, <2>1, <2>2, <2>3
    <3> QED BY <3>1
  <2> QED BY <1>1, <2>2, <2>4
<1>3. TypeOK'
  BY <1>1, <1>2 DEF TypeOK, initVars, States, RunStates
<1>4. LastWins' /\ OnlyTables' /\ Handled' = Handled
  BY <1>1, SameResults
<1>5. Pending' = todo /\ Pending = todo /\ LoopList' = LoopList
  BY <1>1, <1>2 DEF Pending, LoopList, initVars
<1>6. Looping'
  BY <1>1, <1>2, <1>4, <1>5 DEF IInv, Looping, Loops, initVars
<1>7. Archives' /\ HandledSoFar'
  BY <1>1 DEF Archives, HandledSoFar, Before, RunStates
<1> QED BY <1>3, <1>4, <1>6, <1>7 DEF IInv

LEMMA OpenTableInv == IInv /\ OpenTable => IInv'
<1> SUFFICES ASSUME IInv, OpenTable PROVE IInv'
  OBVIOUS
<1>1. /\ TypeOK /\ pc = "open" /\ world.holds[name] = "table"
      /\ m_as = "live" /\ deletes = 0
      /\ pc' = "write"
      /\ UNCHANGED <<world, initVars, m_as, deletes, haveDir, loopVars, out, result>>
  BY DEF IInv, TypeOK, Archives, RunStates, OpenTable
<1>2. TypeOK'
  BY <1>1 DEF TypeOK, initVars, loopVars, States, RunStates
<1>3. LastWins' /\ OnlyTables' /\ Handled' = Handled
  BY <1>1, SameResults
<1>4. Pending' = Pending /\ LoopList' = LoopList
  BY <1>1 DEF Pending, LoopList, initVars, loopVars
<1>5. Looping'
  BY <1>1, <1>3, <1>4 DEF IInv, Looping, Loops, initVars, loopVars
<1>6. Archives' /\ HandledSoFar'
  BY <1>1 DEF Archives, HandledSoFar, Before, RunStates
<1> QED BY <1>2, <1>3, <1>5, <1>6 DEF IInv

\* The name in hand is handled, one way or another: whatever became of it, the
\* loop goes on with the others.
LEMMA NameHandled ==
  ASSUME IInv, pc \in {"open", "write"}, pc' = "next",
         UNCHANGED <<world, initVars, m_as, deletes, haveDir, kind, todo, name>>,
         NEW how \in Results \ {"untouched"}, result' = [result EXCEPT ![name] = how],
         how # "passed over" => pc = "write",
         count' \in [{"dbc", "db2"} -> Nat], out' \in [Bases -> Outputs]
  PROVE  /\ TypeOK' /\ Archives' /\ Looping' /\ HandledSoFar' /\ OnlyTables'
         /\ name \in Names /\ result[name] = "untouched"
         /\ result'[name] = how /\ \A n \in Names \ {name} : result'[n] = result[n]
<1>1. /\ TypeOK /\ name \in Names /\ \A n \in todo : name < n
      /\ name \in Pending /\ Pending = todo \cup {name}
      /\ Handled \cup Pending = LoopList
      /\ result \in [Names -> Results]
      /\ m_as = "live" /\ deletes = 0
  BY DEF IInv, TypeOK, Looping, Loops, Pending, Archives, RunStates
<1>2. /\ result[name] = "untouched" /\ result'[name] = how
      /\ \A n \in Names \ {name} : result'[n] = result[n]
  BY <1>1 DEF IInv, Looping, Loops
<1>3. Handled' = Handled \cup {name}
  BY <1>1, <1>2 DEF Handled
<1>4. Pending' = todo /\ LoopList' = LoopList
  BY DEF Pending, LoopList, initVars
<1>5. TypeOK'
  BY <1>1 DEF TypeOK, Outputs, initVars, States, RunStates
<1>6. Looping'
  <2>1. Handled' \cup Pending' = LoopList'
    BY <1>1, <1>3, <1>4
  <2>2. \A n \in todo : n \in Names \ {name} /\ n \in Pending /\ name < n
    <3>1. \A n \in todo : n \in Nat /\ n \in Names /\ n \in Pending /\ name < n
      BY <1>1, NamesAssumption DEF TypeOK
    <3>2. name \in Nat
      BY <1>1, NamesAssumption
    <3>3. \A n \in todo : n # name
      BY <3>1, <3>2, LessDiffer, Zenon
    <3> QED BY <3>1, <3>3
  <2>3. \A n \in Pending' : result'[n] = "untouched"
    BY <1>2, <1>4, <2>2 DEF IInv, Looping, Loops
  <2>4. ASSUME NEW m \in Handled', NEW n \in Pending', BaseOf[m] = BaseOf[n]
        PROVE  m < n
    <3>1. CASE m = name
      BY <1>4, <2>2, <3>1
    <3>2. CASE m \in Handled
      BY <1>4, <2>2, <2>4, <3>2 DEF IInv, Looping, Loops
    <3> QED BY <1>3, <3>1, <3>2
  <2>5. m_type' \in {0, 1}
    BY DEF IInv, Looping, Loops, initVars
  <2>6. Pending' \subseteq IF kind' = "dbc" THEN world'.dbc ELSE world'.db2
    BY <1>1, <1>4 DEF IInv, Looping, Loops
  <2> QED BY <2>1, <2>3, <2>4, <2>5, <2>6 DEF Looping
<1>7. OnlyTables'
  <2>1. how # "passed over" => world.holds[name] = "table"
    BY DEF IInv, Looping, Loops
  <2>2. ASSUME NEW n \in Handled', result'[n] # "passed over"
        PROVE  world.holds[n] = "table"
    <3>1. CASE n = name
      BY <1>2, <2>1, <2>2, <3>1
    <3>2. CASE n # name
      <4>1. n \in Handled /\ result'[n] = result[n]
        BY <1>2, <1>3, <3>2 DEF Handled
      <4> QED BY <2>2, <4>1 DEF IInv, OnlyTables
    <3> QED BY <3>1, <3>2
  <2> QED BY <2>2 DEF OnlyTables
<1>8. Archives' /\ HandledSoFar'
  BY <1>1 DEF Archives, HandledSoFar, Before, RunStates
<1> QED BY <1>1, <1>2, <1>5, <1>6, <1>7, <1>8

\* A name that is passed over, or whose file could not be opened for writing,
\* leaves the directory as it is.
LEMMA NotWritten ==
  ASSUME IInv, NEW how \in {"passed over", "refused"},
         name \in Names, result[name] = "untouched", result'[name] = how,
         \A n \in Names \ {name} : result'[n] = result[n],
         UNCHANGED <<world, out>>
  PROVE  LastWins'
<1>1. \A b \in Bases : Touched(b)' = Touched(b)
  BY DEF Touched
<1>2. \A b \in Bases : \A n \in Touched(b) : LeftBy(n)' = LeftBy(n)
  BY DEF Touched, LeftBy
<1> QED BY <1>1, <1>2 DEF IInv, LastWins

\* A write that reaches the file is the last one to: the names that did so
\* before come before this one.
LEMMA Written ==
  ASSUME IInv, pc = "write", NEW how \in {"whole", "partial"},
         name \in Names, result[name] = "untouched", result'[name] = how,
         \A n \in Names \ {name} : result'[n] = result[n],
         out' = [out EXCEPT ![BaseOf[name]] = IF how = "whole" THEN Whole(name) ELSE Partial(name)],
         UNCHANGED <<world, name>>
  PROVE  LastWins'
<1>1. TypeOK /\ name \in Pending /\ name \in Nat
  BY NamesAssumption DEF IInv, Pending
<1>2. PICK c \in Bases : c = BaseOf[name]
  BY NameFacts
<1>3. PICK m \in Names : m = name
  OBVIOUS
<1>4. \A b \in Bases \ {c} :
        /\ Touched(b)' = Touched(b) /\ out'[b] = out[b]
        /\ \A n \in Touched(b) : LeftBy(n)' = LeftBy(n)
  BY <1>1, <1>2 DEF Touched, LeftBy, TypeOK
<1>5. out'[c] = LeftBy(m)'
  BY <1>1, <1>2, <1>3 DEF TypeOK, LeftBy
<1>6. Touched(c)' = Touched(c) \cup {m}
  BY <1>2, <1>3 DEF Touched
<1>7. \A n \in Touched(c) : n <= m
  <2>1. ASSUME NEW n \in Touched(c)
        PROVE  n <= m
    <3>1. n \in Handled /\ BaseOf[n] = BaseOf[name] /\ n \in Nat
      BY <1>2, NamesAssumption DEF Touched, Handled
    <3>2. n < name
      BY <1>1, <3>1 DEF IInv, Looping, Loops
    <3> QED BY <1>1, <1>3, <3>1, <3>2
  <2> QED BY <2>1
<1>8. m \in Touched(c)' /\ \A n \in Touched(c)' : n <= m
  BY <1>1, <1>3, <1>6, <1>7
<1>9. \A b \in Bases \ {c} :
        \/ /\ Touched(b)' = {}
           /\ out'[b] = IF b \in world'.old THEN Old ELSE NoOutput
        \/ \E last \in Touched(b)' : /\ \A n \in Touched(b)' : n <= last
                                     /\ out'[b] = LeftBy(last)'
  BY <1>4 DEF IInv, LastWins
<1> QED BY <1>5, <1>8, <1>9 DEF LastWins

LEMMA PassOverInv == IInv /\ PassOver => IInv'
<1> SUFFICES ASSUME IInv, PassOver PROVE IInv'
  OBVIOUS
<1>1. /\ pc = "open" /\ pc' = "next" /\ result' = [result EXCEPT ![name] = "passed over"]
      /\ UNCHANGED <<world, initVars, m_as, deletes, haveDir, kind, todo, name>>
      /\ UNCHANGED <<count, out>>
  BY DEF PassOver, loopVars
<1>2. count' \in [{"dbc", "db2"} -> Nat] /\ out' \in [Bases -> Outputs]
  BY <1>1 DEF IInv, TypeOK, Outputs
<1>3. /\ TypeOK' /\ Archives' /\ Looping' /\ HandledSoFar' /\ OnlyTables'
      /\ name \in Names /\ result[name] = "untouched"
      /\ result'[name] = "passed over" /\ \A n \in Names \ {name} : result'[n] = result[n]
  BY <1>1, <1>2, NameHandled DEF Results
<1>4. LastWins'
  BY <1>1, <1>3, NotWritten
<1> QED BY <1>3, <1>4 DEF IInv

LEMMA WriteInv == IInv /\ (WriteTable \/ WriteTableShort \/ WriteTableRefused) => IInv'
<1> SUFFICES ASSUME IInv, WriteTable \/ WriteTableShort \/ WriteTableRefused PROVE IInv'
  OBVIOUS
<1>1. PICK how \in {"whole", "partial", "refused"} :
        /\ pc = "write" /\ Wrote(how)
        /\ how = "refused" => UNCHANGED out
        /\ how # "refused" => out' = [out EXCEPT ![BaseOf[name]] =
                                        IF how = "whole" THEN Whole(name) ELSE Partial(name)]
  BY DEF WriteTable, WriteTableShort, WriteTableRefused
<1>2. /\ pc' = "next" /\ result' = [result EXCEPT ![name] = how] /\ count' = Counted
      /\ UNCHANGED <<world, initVars, m_as, deletes, haveDir, kind, todo, name>>
  BY <1>1 DEF Wrote
<1>3. TypeOK /\ name \in Names
  BY <1>1 DEF IInv, Looping, Loops
<1>4. count' \in [{"dbc", "db2"} -> Nat] /\ out' \in [Bases -> Outputs]
  <2>1. count' \in [{"dbc", "db2"} -> Nat]
    BY <1>2, <1>3 DEF TypeOK, Counted
  <2>2. out' \in [Bases -> Outputs]
    BY <1>1, <1>3, NameFacts DEF TypeOK, Outputs
  <2> QED BY <2>1, <2>2
<1>5. /\ TypeOK' /\ Archives' /\ Looping' /\ HandledSoFar' /\ OnlyTables'
      /\ result[name] = "untouched"
      /\ result'[name] = how /\ \A n \in Names \ {name} : result'[n] = result[n]
  BY <1>1, <1>2, <1>4, NameHandled DEF Results
<1>6. LastWins'
  <2>1. CASE how = "refused"
    BY <1>1, <1>2, <1>3, <1>5, <2>1, NotWritten
  <2>2. CASE how \in {"whole", "partial"}
    BY <1>1, <1>2, <1>3, <1>5, <2>2, Written
  <2> QED BY <2>1, <2>2
<1> QED BY <1>5, <1>6 DEF IInv

\* Behind the *.dbc names come the *.db2 names, none of which has the base name
\* of one of them.
LEMMA Db2LoopInv == IInv /\ Db2Loop => IInv'
<1> SUFFICES ASSUME IInv, Db2Loop PROVE IInv'
  OBVIOUS
<1>1. /\ TypeOK /\ world \in Worlds /\ pc = "next" /\ todo = {} /\ kind = "dbc"
      /\ m_as = "live" /\ deletes = 0
      /\ kind' = "db2" /\ todo' = (IF m_core = CLIENT_CATA THEN world.db2 ELSE {})
      /\ pc' = "next"
      /\ UNCHANGED <<world, initVars, m_as, deletes, haveDir, name, count, out, result>>
  BY DEF IInv, TypeOK, Archives, RunStates, Db2Loop
<1>2. TypeOK'
  BY <1>1, WorldFacts DEF TypeOK, initVars, States, RunStates
<1>3. LastWins' /\ OnlyTables' /\ Handled' = Handled
  BY <1>1, SameResults
<1>4. /\ Handled = world.dbc /\ Pending' = todo' /\ todo' \subseteq world.db2
      /\ LoopList' = world.dbc \cup todo'
  BY <1>1 DEF IInv, Looping, Loops, Pending, LoopList, initVars
<1>5. \A m \in world.dbc, n \in todo' : BaseOf[m] # BaseOf[n]
  BY <1>1, <1>4, WorldFacts
<1>6. \A n \in Pending' : result'[n] = "untouched"
  <2>1. \A n \in todo' : n \in Names /\ n \notin world.dbc
    BY <1>1, <1>4, <1>5, WorldFacts
  <2> QED BY <1>1, <1>4, <2>1 DEF Handled
<1>7. Looping'
  BY <1>1, <1>3, <1>4, <1>5, <1>6 DEF IInv, Looping, Loops, initVars
<1>8. Archives' /\ HandledSoFar'
  BY <1>1 DEF Archives, HandledSoFar, Before, RunStates
<1> QED BY <1>2, <1>3, <1>7, <1>8 DEF IInv

LEMMA ReportInv == IInv /\ Report => IInv'
<1> SUFFICES ASSUME IInv, Report PROVE IInv'
  OBVIOUS
<1>1. /\ TypeOK /\ pc = "next" /\ todo = {} /\ kind = "db2" /\ pc' = "ran"
      /\ m_as = "live" /\ deletes = 0
      /\ UNCHANGED <<world, initVars, m_as, deletes, haveDir, loopVars, out, result>>
  BY DEF IInv, Archives, RunStates, Report
<1>2. TypeOK'
  BY <1>1 DEF TypeOK, initVars, loopVars, States, RunStates
<1>3. LastWins' /\ OnlyTables' /\ Handled' = Handled
  BY <1>1, SameResults
<1>4. Handled = Listed /\ m_type \in {0, 1} /\ Listed' = Listed
  BY <1>1 DEF IInv, Looping, Loops, Pending, LoopList, Listed, initVars
<1>5. Archives' /\ Looping' /\ HandledSoFar'
  BY <1>1, <1>3, <1>4 DEF Archives, Looping, Loops, HandledSoFar, Before, RunStates, initVars
<1> QED BY <1>2, <1>3, <1>5 DEF IInv

\* At the exit the number of deletes tells whether the loops were run.
LEMMA ExitInv == IInv /\ Exit => IInv'
<1> SUFFICES ASSUME IInv, Exit PROVE IInv'
  OBVIOUS
<1>1. /\ TypeOK /\ pc \in {"usage", "failed", "ran"} /\ pc' = "exited" /\ m_as' = "null"
      /\ deletes' = (IF m_as = "null" THEN deletes ELSE deletes + 1)
      /\ UNCHANGED <<world, initVars, haveDir, loopVars, out, result>>
  BY DEF IInv, Exit
<1>2. \/ pc \in {"usage", "failed"} /\ deletes' = 0 /\ Handled = {}
      \/ pc = "failed" /\ deletes' = 2 /\ Handled = {}
      \/ pc = "ran" /\ deletes' = 1 /\ Handled = IF m_type \in {0, 1} THEN Listed ELSE {}
  BY <1>1 DEF IInv, Archives, HandledSoFar, RunStates
<1>3. TypeOK'
  BY <1>1, <1>2 DEF TypeOK, initVars, loopVars, States
<1>4. LastWins' /\ OnlyTables' /\ Handled' = Handled
  BY <1>1, SameResults
<1>5. Listed' = Listed
  BY <1>1 DEF Listed, initVars
<1>6. Archives' /\ Looping' /\ HandledSoFar'
  BY <1>1, <1>2, <1>4, <1>5 DEF Archives, Looping, Loops, HandledSoFar, Before, RunStates, initVars
<1> QED BY <1>3, <1>4, <1>6 DEF IInv

LEMMA InitStateInv == InitState => IInv
<1> SUFFICES ASSUME InitState PROVE IInv
  OBVIOUS
<1>1. Handled = {} /\ \A b \in Bases : Touched(b) = {}
  BY DEF InitState, Handled, Touched
<1>2. TypeOK
  <2>1. world \in Worlds /\ 1 \in 1..(Len(world.args) + 1)
    BY WorldFacts DEF InitState
  <2> QED BY <2>1 DEF InitState, TypeOK, States, Results
<1>3. LastWins
  BY <1>1 DEF InitState, LastWins
<1> QED BY <1>1, <1>2, <1>3
        DEF InitState, IInv, Archives, Looping, Loops, HandledSoFar, OnlyTables, Before, RunStates

LEMMA StepInv == IInv /\ core \in -1..6 /\ [Next]_vars => IInv'
<1> SUFFICES ASSUME IInv, core \in -1..6, [Next]_vars PROVE IInv'
  OBVIOUS
<1>1. CASE UNCHANGED vars
  <2>1. TypeOK'
    BY <1>1 DEF vars, programVars, initVars, loopVars, IInv, TypeOK
  <2>2. LastWins' /\ OnlyTables' /\ Handled' = Handled
    BY <1>1, SameResults DEF vars, programVars
  <2>3. Pending' = Pending /\ LoopList' = LoopList /\ Listed' = Listed
    BY <1>1 DEF vars, programVars, initVars, loopVars, Pending, LoopList, Listed
  <2>4. Archives' /\ Looping' /\ HandledSoFar'
    BY <1>1, <2>2, <2>3
       DEF vars, programVars, initVars, loopVars, IInv, Archives, Looping, HandledSoFar
  <2> QED BY <2>1, <2>2, <2>4 DEF IInv
<1>2. CASE ParseStep
  BY <1>2, ParseInv
<1>3. CASE StartStep
  BY <1>3, StartInv
<1>4. CASE ExtractStep
  BY <1>4, RunInv, ListTablesInv, NextNameInv, OpenTableInv, PassOverInv, WriteInv, Db2LoopInv,
     ReportInv DEF ExtractStep
<1>5. CASE Exit
  BY <1>5, ExitInv
<1> QED BY <1>1, <1>2, <1>3, <1>4, <1>5 DEF Next

\* Only GetCoreAndBuildNumber takes steps of the search.
LEMMA SearchOrNot == [Next]_vars => SearchVersion \/ UNCHANGED versionVars
BY DEF Next, ParseStep, SetPath, SetType, SkipUnknown, ShowUsage, ArgsDone, ArgsFrame,
       StartStep, GetCore, FeedLists, OpenArchives, OpenArchivesFails, StartFrame,
       ExtractStep, Dispatch, MakeDir, ListTables, NextName, OpenTable, PassOver, WriteTable,
       WriteTableShort, WriteTableRefused, Wrote, Db2Loop, Report, Exit, vars

\* The core is one of those the search can return.
LEMMA CoreHolds == Spec => [](core \in -1..6)
<1>1. InitState => core \in -1..6
  BY DEF InitState, VersionInit
<1>2. core \in -1..6 /\ [Next]_vars => (core \in -1..6)'
  <2> SUFFICES ASSUME core \in -1..6, [Next]_vars PROVE (core \in -1..6)'
    OBVIOUS
  <2>1. core' = core \/ core' = CoreOf(iBuild)
    <3>1. CASE SearchVersion
      BY <3>1 DEF SearchVersion, NoExecutable, OpenWoWExe, Skip, Scan, ScanEnds, Match,
                  ReadNumber, FindCore
    <3>2. CASE UNCHANGED versionVars
      BY <3>2 DEF versionVars
    <3> QED BY <3>1, <3>2, SearchOrNot
  <2>2. CoreOf(iBuild) \in -1..6
    BY DEF CoreOf
  <2> QED BY <2>1, <2>2
<1> QED BY <1>1, <1>2, PTL DEF Spec

LEMMA InvariantHolds == Spec => []IInv
<1> QED BY InitStateInv, StepInv, CoreHolds, PTL DEF Spec

-----------------------------------------------------------------------------
\* THE COMMAND LINE

\* The recursion of OptionsOf defines a function: the shortest command line for
\* which there were none could be read on from the one before.
IsOption(f, args, k) == k > 0 /\ ~(f[k - 1] /\ args[k - 1] \in TakesValue)

LEMMA OptionsExist ==
  ASSUME NEW args, NEW l \in Nat
  PROVE  \E f : f = [k \in 0..l |-> IsOption(f, args, k)]
<1> DEFINE IsUpTo(f, n) == f = [k \in 0..n |-> IsOption(f, args, k)]
           Bad == {n \in Nat : ~\E f : IsUpTo(f, n)}
<1> SUFFICES ASSUME Bad # {} PROVE FALSE
  OBVIOUS
<1>1. PICK n \in Bad : \A m \in Bad : n <= m
  BY LeastNatural
<1>2. n # 0
  <2> DEFINE f == [k \in 0..0 |-> FALSE]
  <2>1. \A k \in 0..0 : f[k] = IsOption(f, args, k)
    <3> SUFFICES ASSUME NEW k \in 0..0 PROVE f[k] = IsOption(f, args, k)
      OBVIOUS
    <3>1. f[k] = FALSE
      OBVIOUS
    <3>2. ~(k > 0)
      OBVIOUS
    <3> HIDE DEF f
    <3>3. IsOption(f, args, k) = FALSE
      BY <3>2, Zenon DEF IsOption
    <3> QED BY <3>1, <3>3, Zenon
  <2>2. f = [k \in 0..0 |-> f[k]]
    OBVIOUS
  <2> HIDE DEF f
  <2>3. IsUpTo(f, 0)
    BY <2>1, <2>2
  <2>4. 0 \notin Bad
    BY <2>3
  <2> QED BY <1>1, <2>4
<1>3. n \in Nat /\ n - 1 \in Nat /\ ~(n <= n - 1)
  BY <1>1, <1>2
<1>4. PICK g : IsUpTo(g, n - 1)
  <2>1. n - 1 \notin Bad
    BY <1>1, <1>3
  <2> QED BY <1>3, <2>1
<1> DEFINE h == [k \in 0..n |-> IF k = n THEN IsOption(g, args, n) ELSE g[k]]
<1>5. \A k \in 0..n : h[k] = IsOption(h, args, k)
  <2> SUFFICES ASSUME NEW k \in 0..n PROVE h[k] = IsOption(h, args, k)
    OBVIOUS
  <2>1. CASE k = n
    <3>1. h[k] = IsOption(g, args, n) /\ h[n - 1] = g[n - 1]
      BY <1>3, <2>1
    <3> QED BY <2>1, <3>1 DEF IsOption
  <2>2. CASE k # n
    <3>1. k \in 0..n - 1
      BY <1>3, <2>2
    <3>2. g[k] = IsOption(g, args, k)
      BY <1>4, <3>1
    <3>3. h[k] = g[k] /\ (k > 0 => h[k - 1] = g[k - 1])
      BY <1>3, <2>2, <3>1
    <3> HIDE DEF h
    <3> QED BY <3>2, <3>3 DEF IsOption
  <2> QED BY <2>1, <2>2
<1>6. IsUpTo(h, n)
  BY <1>5
<1> QED BY <1>1, <1>6

\* An argument is an option unless the one before it is one that takes it.
LEMMA OptionFacts ==
  ASSUME NEW args \in Seq(STRING)
  PROVE  /\ Len(args) \in Nat /\ OptionsOf(args) \subseteq 1..Len(args)
         /\ \A k \in 1..Len(args) :
               k \in OptionsOf(args) <=>
                  ~(k - 1 \in OptionsOf(args) /\ args[k - 1] \in TakesValue)
<1> DEFINE Is(f) == f = [k \in 0..Len(args) |-> IsOption(f, args, k)]
           option == CHOOSE f : Is(f)
           options == {k \in 1..Len(args) : option[k]}
<1>1. Len(args) \in Nat
  OBVIOUS
<1>2. OptionsOf(args) = options
  BY DEF OptionsOf, IsOption
<1>3. Is(option)
  BY <1>1, OptionsExist
<1> HIDE DEF option
<1>4. \A k \in 0..Len(args) : option[k] <=> IsOption(option, args, k)
  BY <1>3
<1>5. ~option[0]
  BY <1>1, <1>4 DEF IsOption
<1>6. ASSUME NEW k \in 1..Len(args)
      PROVE  k \in options <=> ~(k - 1 \in options /\ args[k - 1] \in TakesValue)
  <2>1. option[k] <=> ~(option[k - 1] /\ args[k - 1] \in TakesValue)
    BY <1>4 DEF IsOption
  <2>2. k - 1 \in options <=> option[k - 1]
    <3>1. CASE k = 1
      BY <1>5, <3>1
    <3>2. CASE k # 1
      <4>1. k - 1 \in 1..Len(args)
        BY <1>1, <3>2
      <4> QED BY <4>1
    <3> QED BY <3>1, <3>2
  <2> QED BY <2>1, <2>2
<1> HIDE DEF options
<1>7. options \subseteq 1..Len(args)
  BY DEF options
<1> QED BY <1>1, <1>2, <1>6, <1>7

\* The options are told apart, and so are the numbers behind -e.
LEMMA FlagFacts ==
  /\ ExtractFlags \subseteq TakesValue /\ HelpFlags \cap TakesValue = {}
  /\ WithValue \subseteq TakesValue /\ WithValue \cap ExtractFlags = {}
  /\ TakesValue = WithValue \cup ExtractFlags
BY DEF ExtractFlags, TakesValue, WithValue, HelpFlags, Flags

LEMMA ValueFacts ==
  ASSUME NEW t
  PROVE  /\ ValueOf(t) \in 1..3 <=> t \in {"1", "2", "3"}
         /\ ValueOf(t) = 1 <=> t = "1"
         /\ ValueOf("0") = 0
<1>1. /\ Numbers["1"] = 1 /\ Numbers["2"] = 2 /\ Numbers["3"] = 3 /\ Numbers["4"] = 4
      /\ DOMAIN Numbers = {"1", "2", "3", "4"}
  BY DEF Numbers
<1> QED BY <1>1 DEF ValueOf

\* What Init asks of an option, and what it knows when it looks at argument a.
GoodAt(args, k) ==
    /\ args[k] \notin HelpFlags
    /\ args[k] \in TakesValue => k < Len(args)
    /\ args[k] \in ExtractFlags => ValueOf(args[k + 1]) \in 1..3
Parsed(args, a, type) ==
    /\ a <= Len(args) => a \in OptionsOf(args)
    /\ \A k \in OptionsOf(args) : k < a => GoodAt(args, k)
    /\ \/ type = 0 /\ \A k \in ExtractsOf(args) : ~(k < a)
       \/ \E k \in ExtractsOf(args) :
             /\ k < a /\ type = ValueOf(args[k + 1])
             /\ \A i \in ExtractsOf(args) : i < a => i <= k

\* A good option is passed, with its value if it takes one.
LEMMA ParsedStep ==
  ASSUME NEW args \in Seq(STRING), NEW a \in Nat, NEW b \in Nat, NEW t, NEW u,
         Parsed(args, a, t), a <= Len(args), GoodAt(args, a),
         b = IF args[a] \in TakesValue THEN a + 2 ELSE a + 1,
         u = IF args[a] \in ExtractFlags THEN ValueOf(args[a + 1]) ELSE t
  PROVE  Parsed(args, b, u)
<1>1. /\ a \in OptionsOf(args) /\ a \in 1..Len(args) /\ OptionsOf(args) \subseteq Nat
      /\ Len(args) \in Nat
  BY OptionFacts DEF Parsed
<1>2. a + 1 <= Len(args) => (a + 1 \in OptionsOf(args) <=> args[a] \notin TakesValue)
  <2> SUFFICES ASSUME a + 1 <= Len(args)
               PROVE  a + 1 \in OptionsOf(args) <=> args[a] \notin TakesValue
    OBVIOUS
  <2> DEFINE k == a + 1
  <2>1. k \in 1..Len(args) /\ k - 1 = a
    BY <1>1
  <2> HIDE DEF k
  <2>2. k \in OptionsOf(args) <=> ~(a \in OptionsOf(args) /\ args[a] \in TakesValue)
    BY <2>1, OptionFacts
  <2> QED BY <1>1, <2>2 DEF k
<1>3. b <= Len(args) => b \in OptionsOf(args)
  <2> SUFFICES ASSUME b <= Len(args) PROVE b \in OptionsOf(args)
    OBVIOUS
  <2>1. CASE args[a] \notin TakesValue
    BY <1>2, <2>1
  <2>2. CASE args[a] \in TakesValue
    <3>1. b \in 1..Len(args) /\ b - 1 = a + 1 /\ a + 1 <= Len(args)
      BY <1>1, <2>2
    <3>2. b - 1 \notin OptionsOf(args)
      BY <1>2, <2>2, <3>1
    <3> QED BY <3>1, <3>2, OptionFacts
  <2> QED BY <2>1, <2>2
<1>4. \A k \in OptionsOf(args) : k < b => k < a \/ k = a
  <2> SUFFICES ASSUME NEW k \in OptionsOf(args), k < b PROVE k < a \/ k = a
    OBVIOUS
  <2>1. k \in Nat /\ k <= Len(args)
    BY OptionFacts
  <2>2. CASE args[a] \notin TakesValue
    BY <1>1, <2>1, <2>2
  <2>3. CASE args[a] \in TakesValue
    <3>1. k # a + 1
      BY <1>2, <2>1, <2>3
    <3> QED BY <1>1, <2>1, <2>3, <3>1
  <2> QED BY <2>2, <2>3
<1>5. \A k \in OptionsOf(args) : k < b => GoodAt(args, k)
  BY <1>4 DEF Parsed
<1>6. \A k \in ExtractsOf(args) : k \in OptionsOf(args) /\ k \in Nat /\ args[k] \in ExtractFlags
  BY <1>1 DEF ExtractsOf
<1>7. a < b /\ b \in Nat
  BY <1>1
<1>8. CASE args[a] \in ExtractFlags
  <2>1. a \in ExtractsOf(args) /\ u = ValueOf(args[a + 1])
    BY <1>1, <1>8 DEF ExtractsOf
  <2>2. \A i \in ExtractsOf(args) : i < b => i <= a
    BY <1>1, <1>4, <1>6
  <2> QED BY <1>3, <1>5, <1>7, <2>1, <2>2 DEF Parsed
<1>9. CASE args[a] \notin ExtractFlags
  <2>1. u = t /\ a \notin ExtractsOf(args)
    BY <1>9 DEF ExtractsOf
  <2>2. \A k \in ExtractsOf(args) : k < b <=> k < a
    <3> SUFFICES ASSUME NEW k \in ExtractsOf(args) PROVE k < b <=> k < a
      OBVIOUS
    <3>1. k \in Nat /\ k # a /\ (k < b => k < a \/ k = a)
      BY <1>4, <1>6, <2>1
    <3> QED BY <1>7, <3>1
  <2> QED BY <1>3, <1>5, <2>1, <2>2 DEF Parsed
<1> QED BY <1>8, <1>9

\* When all arguments are passed the command line is well formed, and m_type is
\* what the last -e asks for; at an option that is not good it is not, or asks
\* for everything by a zero.
LEMMA LineFacts ==
  ASSUME NEW args \in Seq(STRING), NEW a \in Nat, NEW t, Parsed(args, a, t)
  PROVE  /\ a > Len(args) =>
               /\ WellFormed(args)
               /\ t \in {0, 1} <=> AskedFor(args, "0") \/ AskedFor(args, "1")
         /\ a <= Len(args) /\ ~GoodAt(args, a) => ~WellFormed(args) \/ GivesZero(args)
<1>1. /\ Len(args) \in Nat /\ OptionsOf(args) \subseteq 1..Len(args)
      /\ ExtractsOf(args) \subseteq OptionsOf(args)
      /\ \A k \in ExtractsOf(args) : k \in Nat /\ args[k] \in ExtractFlags
  BY OptionFacts DEF ExtractsOf
<1>2. ASSUME a > Len(args)
      PROVE  /\ WellFormed(args)
             /\ t \in {0, 1} <=> AskedFor(args, "0") \/ AskedFor(args, "1")
  <2>1. \A k \in OptionsOf(args) : k < a /\ GoodAt(args, k)
    BY <1>1, <1>2 DEF Parsed
  <2>2. \A k \in ExtractsOf(args) : k < a /\ args[k + 1] \in {"1", "2", "3"}
    BY <1>1, <2>1, ValueFacts DEF GoodAt
  <2>3. WellFormed(args)
    BY <1>1, <2>1, <2>2 DEF WellFormed, GoodAt
  <2>4. CASE ExtractsOf(args) = {}
    <3>1. t = 0
      BY <2>4 DEF Parsed
    <3> QED BY <2>3, <2>4, <3>1 DEF AskedFor
  <2>5. CASE ExtractsOf(args) # {}
    <3>1. PICK k \in ExtractsOf(args) :
            t = ValueOf(args[k + 1]) /\ \A i \in ExtractsOf(args) : i <= k
      BY <2>2, <2>5 DEF Parsed
    <3>2. \A j \in ExtractsOf(args) : (\A i \in ExtractsOf(args) : i <= j) => j = k
      <4> SUFFICES ASSUME NEW j \in ExtractsOf(args), \A i \in ExtractsOf(args) : i <= j
                   PROVE  j = k
        OBVIOUS
      <4>1. j \in Nat /\ k \in Nat /\ k <= j /\ j <= k
        BY <1>1, <3>1
      <4> QED BY <4>1
    <3>3. args[k + 1] \in {"1", "2", "3"}
      BY <2>2
    <3>4. AskedFor(args, "1") <=> args[k + 1] = "1"
      BY <3>1, <3>2 DEF AskedFor
    <3>5. ~AskedFor(args, "0")
      BY <2>5, <3>2, <3>3 DEF AskedFor
    <3>6. t \in 1..3 /\ (t = 1 <=> args[k + 1] = "1")
      BY <3>1, <3>3, ValueFacts
    <3> QED BY <2>3, <3>4, <3>5, <3>6
  <2> QED BY <2>4, <2>5
<1>3. ASSUME a <= Len(args), ~GoodAt(args, a), WellFormed(args) PROVE GivesZero(args)
  <2>1. a \in OptionsOf(args)
    BY <1>3 DEF Parsed
  <2>2. /\ args[a] \notin HelpFlags /\ (args[a] \in TakesValue => a < Len(args))
        /\ \A k \in ExtractsOf(args) : args[k + 1] \in {"0", "1", "2", "3"}
    BY <1>3, <2>1 DEF WellFormed
  <2>3. args[a] \in ExtractFlags /\ ~(ValueOf(args[a + 1]) \in 1..3)
    BY <1>3, <2>2 DEF GoodAt
  <2>4. a \in ExtractsOf(args) /\ a < Len(args)
    BY <2>1, <2>2, <2>3, FlagFacts DEF ExtractsOf
  <2>5. args[a + 1] = "0"
    BY <2>2, <2>3, <2>4, ValueFacts
  <2> QED BY <2>4, <2>5 DEF GivesZero
<1> QED BY <1>2, <1>3


\* Where the program is says which arguments are passed and how far the search
\* is.  The usage is printed at the first option that is not good.
Searched == {"feeder", "archives", "failed"} \cup RunStates
StoppedAt(a) == a <= Len(world.args) /\ ~GoodAt(world.args, a)
SearchPlace ==
    /\ pc = "args" => step = "open"
    /\ pc = "usage" => step = "open" /\ StoppedAt(arg)
    /\ pc = "core" => arg > Len(world.args)
    /\ pc \in Searched => arg > Len(world.args) /\ step = "done"
    /\ pc = "exited" => \/ step = "open" /\ StoppedAt(arg) /\ deletes = 0
                        \/ step = "done" /\ arg > Len(world.args)

\* Behind the search, and wherever a name was handled, the core is known.
Known ==
    Handled # {} \/ pc \in Searched \ {"failed"} =>
        step = "done" /\ m_core = core /\ core # -1

AskedInv == Parsed(world.args, arg, m_type) /\ SearchPlace /\ Known

LEMMA InitAsked == InitState => AskedInv
<1> SUFFICES ASSUME InitState PROVE AskedInv
  OBVIOUS
<1>1. /\ world.args \in Seq(STRING) /\ pc = "args" /\ arg = 1 /\ m_type = 0 /\ step = "open"
      /\ Handled = {}
  BY WorldFacts DEF InitState, VersionInit, Handled
<1>2. /\ Len(world.args) \in Nat /\ OptionsOf(world.args) \subseteq 1..Len(world.args)
      /\ 1 <= Len(world.args) => 1 \in OptionsOf(world.args)
  <2>1. 0 \notin OptionsOf(world.args) /\ 1 - 1 = 0
    BY <1>1, OptionFacts
  <2> QED BY <1>1, <2>1, OptionFacts
<1>3. \A k \in OptionsOf(world.args) : ~(k < 1)
  BY <1>2
<1>4. Parsed(world.args, arg, m_type)
  BY <1>1, <1>2, <1>3 DEF Parsed, ExtractsOf
<1> QED BY <1>1, <1>4 DEF AskedInv, SearchPlace, Known, Searched, RunStates

\* An option that Init passes is good, and one at which it stops is not.
LEMMA ParseAsked == IInv /\ AskedInv /\ ParseStep => AskedInv'
<1> SUFFICES ASSUME IInv, AskedInv, ParseStep PROVE AskedInv'
  OBVIOUS
<1> DEFINE args == world.args
<1>1. /\ pc = "args" /\ step = "open" /\ Parsed(args, arg, m_type) /\ Handled = {}
      /\ args \in Seq(STRING) /\ arg \in Nat
      /\ UNCHANGED <<world, result, versionVars>>
  BY WorldFacts
     DEF IInv, TypeOK, HandledSoFar, Before, AskedInv, SearchPlace, ParseStep, SetPath, SetType,
         SkipUnknown, ShowUsage, ArgsDone, Parsing, ArgsFrame
<1>2. Handled' = {} /\ step' = "open" /\ args' = args
  BY <1>1 DEF Handled, versionVars
<1>3. CASE SetPath \/ SetType \/ SkipUnknown
  <2>1. /\ pc' = "args" /\ arg <= Len(args)
        /\ arg' = IF args[arg] \in TakesValue THEN arg + 2 ELSE arg + 1
        /\ m_type' = IF args[arg] \in ExtractFlags THEN ValueOf(args[arg + 1]) ELSE m_type
    BY <1>1, <1>3, FlagFacts
       DEF SetPath, SetType, SkipUnknown, Parsing, Argument, TakesValue
  <2>2. GoodAt(args, arg)
    BY <1>1, <1>3, FlagFacts
       DEF SetPath, SetType, SkipUnknown, Argument, HasValue, GoodAt, TakesValue
  <2>3. PICK b \in Nat : b = arg'
    BY <1>1, <2>1
  <2>4. Parsed(args, b, m_type')
    BY <1>1, <2>1, <2>2, <2>3, ParsedStep
  <2> QED BY <1>2, <2>1, <2>3, <2>4 DEF AskedInv, SearchPlace, Known, Searched, RunStates
<1>4. CASE ShowUsage
  <2>1. pc' = "usage" /\ UNCHANGED <<arg, m_type>> /\ arg <= Len(args)
    BY <1>4 DEF ShowUsage, Parsing
  <2>2. ~GoodAt(args, arg)
    BY <1>1, <1>4, FlagFacts DEF ShowUsage, Parsing, Argument, HasValue, GoodAt
  <2>3. StoppedAt(arg)'
    BY <1>1, <2>1, <2>2 DEF StoppedAt
  <2> QED BY <1>1, <1>2, <2>1, <2>3 DEF AskedInv, SearchPlace, Known, Searched, RunStates
<1>5. CASE ArgsDone
  <2>1. pc' = "core" /\ UNCHANGED <<arg, m_type>> /\ arg > Len(args)
    BY <1>5 DEF ArgsDone
  <2> QED BY <1>1, <1>2, <2>1 DEF AskedInv, SearchPlace, Known, Searched, RunStates
<1> QED BY <1>3, <1>4, <1>5 DEF ParseStep

\* The core that the search returns is the one that the program goes on with.
LEMMA StartAsked == IInv /\ AskedInv /\ StartStep => AskedInv'
<1> SUFFICES ASSUME IInv, AskedInv, StartStep PROVE AskedInv'
  OBVIOUS
<1>1. /\ pc \in {"core", "feeder", "archives"} /\ Handled = {}
      /\ UNCHANGED <<world, arg, m_type, result>>
  BY DEF IInv, HandledSoFar, Before, programVars, initVars, StartStep, SearchVersion, GetCore,
         FeedLists, OpenArchives, OpenArchivesFails, StartFrame
<1>2. arg > Len(world.args)
  BY <1>1 DEF AskedInv, SearchPlace, Searched
<1>3. Handled' = {} /\ Parsed(world.args, arg, m_type)'
  BY <1>1 DEF Handled, AskedInv
<1>4. CASE SearchVersion
  BY <1>1, <1>2, <1>3, <1>4
     DEF SearchVersion, programVars, AskedInv, SearchPlace, Known, Searched, RunStates
<1>5. CASE GetCore
  <2>1. /\ step' = "done" /\ core' = core /\ m_core' = core
        /\ pc' = IF core = -1 THEN "failed" ELSE "feeder"
    BY <1>5 DEF GetCore, StartFrame, versionVars
  <2> QED BY <1>1, <1>2, <1>3, <2>1 DEF AskedInv, SearchPlace, Known, Searched, RunStates
<1>6. CASE (\E localeFound \in BOOLEAN : FeedLists(localeFound)) \/ OpenArchives \/ OpenArchivesFails
  <2>1. /\ pc' \in {"archives", "run", "failed"} /\ UNCHANGED <<m_core, versionVars>>
        /\ pc \in {"feeder", "archives"}
    BY <1>6 DEF FeedLists, OpenArchives, OpenArchivesFails, StartFrame
  <2>2. step = "done" /\ m_core = core /\ core # -1
    BY <2>1 DEF AskedInv, Known, Searched
  <2>3. UNCHANGED <<step, core>>
    BY <2>1 DEF versionVars
  <2> QED BY <1>1, <1>2, <1>3, <2>1, <2>2, <2>3
          DEF AskedInv, SearchPlace, Known, Searched, RunStates
<1> QED BY <1>4, <1>5, <1>6 DEF StartStep

LEMMA StepAsked == IInv /\ AskedInv /\ [Next]_vars => AskedInv'
<1> SUFFICES ASSUME IInv, AskedInv, [Next]_vars PROVE AskedInv'
  OBVIOUS
<1>1. CASE UNCHANGED vars
  BY <1>1 DEF vars, programVars, versionVars, initVars, AskedInv, SearchPlace, StoppedAt, Known,
              Handled
<1>2. CASE ExtractStep
  <2>1. /\ pc \in RunStates /\ pc' \in RunStates
        /\ UNCHANGED <<world, arg, m_type, m_core, step, core>>
    BY <1>2 DEF ExtractStep, Dispatch, MakeDir, ListTables, NextName, OpenTable, PassOver,
                WriteTable, WriteTableShort, WriteTableRefused, Wrote, Db2Loop, Report,
                RunStates, initVars, versionVars
  <2>2. /\ arg > Len(world.args) /\ step = "done" /\ m_core = core /\ core # -1
        /\ Parsed(world.args, arg, m_type)'
    BY <2>1 DEF AskedInv, SearchPlace, Known, Searched, RunStates
  <2> QED BY <2>1, <2>2 DEF AskedInv, SearchPlace, Known, RunStates
<1>3. CASE Exit
  <2>1. /\ pc \in {"usage", "failed", "ran"} /\ pc' = "exited"
        /\ UNCHANGED <<world, arg, m_type, m_core, result, step, core>>
        /\ deletes' = IF m_as = "null" THEN deletes ELSE deletes + 1
    BY <1>3 DEF Exit, initVars, versionVars
  <2>2. Handled' = Handled /\ Parsed(world.args, arg, m_type)'
    BY <2>1 DEF Handled, AskedInv
  <2>3. pc = "usage" => deletes' = 0
    BY <2>1 DEF IInv, Archives
  <2>4. SearchPlace'
    BY <2>1, <2>3 DEF AskedInv, SearchPlace, StoppedAt, Searched, RunStates
  <2>5. Known'
    BY <2>1, <2>2 DEF AskedInv, Known, Searched, RunStates
  <2> QED BY <2>2, <2>4, <2>5 DEF AskedInv
<1> QED BY <1>1, <1>2, <1>3, ParseAsked, StartAsked DEF Next

LEMMA AskedHolds == Spec => []AskedInv
<1> QED BY InitAsked, StepAsked, InvariantHolds, PTL DEF Spec

-----------------------------------------------------------------------------
\* THE COUNTS

\* A count is the number of the tables of its kind that were opened, whatever
\* became of their write.
CountsOK == \A k \in {"dbc", "db2"} : count[k] = Cardinality(OpenedOf(k))

LEMMA OpenedFinite ==
  ASSUME NEW k \in {"dbc", "db2"}, world \in Worlds
  PROVE  /\ world[k] \subseteq Names
         /\ OpenedOf(k) \subseteq Names /\ IsFiniteSet(OpenedOf(k))
<1>1. world[k] \subseteq Names
  BY WorldFacts
<1>2. OpenedOf(k) \subseteq Names
  BY <1>1 DEF OpenedOf
<1> QED BY <1>1, <1>2, NamesAssumption, FS_Subset

\* While the counts and the opened tables stay, the counts are right.
LEMMA SameCounts ==
  ASSUME CountsOK, UNCHANGED <<world, count>>, \A k \in {"dbc", "db2"} : OpenedOf(k)' = OpenedOf(k)
  PROVE  CountsOK'
BY DEF CountsOK

\* A table is counted once, for its own list.
LEMMA WriteCounts ==
  ASSUME IInv, CountsOK, NEW how \in {"whole", "partial", "refused"}, pc = "write", Wrote(how)
  PROVE  CountsOK'
<1>1. /\ TypeOK /\ name \in Names /\ world \in Worlds /\ name \in Pending
      /\ kind \in {"dbc", "db2"} /\ UNCHANGED <<world, name, kind>>
  BY DEF IInv, TypeOK, Looping, Loops, Pending, Wrote
<1>2. /\ result[name] = "untouched" /\ result'[name] = how
      /\ \A n \in Names \ {name} : result'[n] = result[n]
  BY <1>1 DEF IInv, Looping, Loops, TypeOK, Wrote
<1>3. name \in world[kind] /\ \A k \in {"dbc", "db2"} : k # kind => name \notin world[k]
  BY <1>1, WorldFacts DEF IInv, Looping, Loops
<1>4. \A k \in {"dbc", "db2"} : count'[k] = IF k = kind THEN count[k] + 1 ELSE count[k]
  BY <1>1 DEF Wrote, Counted, TypeOK
<1> SUFFICES ASSUME NEW k \in {"dbc", "db2"}
             PROVE  count'[k] = Cardinality(OpenedOf(k)')
  BY DEF CountsOK
<1>5. count[k] = Cardinality(OpenedOf(k)) /\ IsFiniteSet(OpenedOf(k)) /\ world[k] \subseteq Names
  BY <1>1, OpenedFinite DEF CountsOK
<1>6. CASE k = kind
  <2>1. name \notin OpenedOf(k)
    BY <1>2 DEF OpenedOf
  <2>2. OpenedOf(k)' = OpenedOf(k) \cup {name}
    BY <1>1, <1>2, <1>3, <1>5, <1>6 DEF OpenedOf
  <2>3. Cardinality(OpenedOf(k) \cup {name}) = Cardinality(OpenedOf(k)) + 1
    BY <1>5, <2>1, FS_AddElement
  <2> QED BY <1>4, <1>5, <1>6, <2>2, <2>3
<1>7. CASE k # kind
  <2>1. OpenedOf(k)' = OpenedOf(k)
    BY <1>1, <1>2, <1>3, <1>5, <1>7 DEF OpenedOf
  <2> QED BY <1>4, <1>5, <1>7, <2>1
<1> QED BY <1>6, <1>7

LEMMA StepCounts == IInv /\ CountsOK /\ [Next]_vars => CountsOK'
<1> SUFFICES ASSUME IInv, CountsOK, [Next]_vars PROVE CountsOK'
  OBVIOUS
<1>1. CASE WriteTable \/ WriteTableShort \/ WriteTableRefused
  BY <1>1, WriteCounts DEF WriteTable, WriteTableShort, WriteTableRefused
<1>2. CASE PassOver
  <2>1. /\ pc = "open" /\ name \in Names /\ name \in Pending
        /\ result' = [result EXCEPT ![name] = "passed over"]
        /\ UNCHANGED <<world, count>> /\ result \in [Names -> Results] /\ world \in Worlds
    BY <1>2 DEF IInv, TypeOK, Looping, Loops, Pending, PassOver, loopVars
  <2>2. result[name] = "untouched"
    BY <2>1 DEF IInv, Looping, Loops
  <2>3. \A k \in {"dbc", "db2"} : OpenedOf(k)' = OpenedOf(k)
    BY <2>1, <2>2, OpenedFinite DEF OpenedOf
  <2> QED BY <2>1, <2>3, SameCounts
<1>3. CASE UNCHANGED <<world, count, result>>
  <2>1. \A k \in {"dbc", "db2"} : OpenedOf(k)' = OpenedOf(k)
    BY <1>3 DEF OpenedOf
  <2> QED BY <1>3, <2>1, SameCounts
<1>4. \/ UNCHANGED <<world, count, result>>
      \/ PassOver \/ WriteTable \/ WriteTableShort \/ WriteTableRefused
  BY DEF Next, ParseStep, SetPath, SetType, SkipUnknown, ShowUsage, ArgsDone, ArgsFrame,
         StartStep, SearchVersion, GetCore, FeedLists, OpenArchives, OpenArchivesFails, StartFrame,
         ExtractStep, Dispatch, MakeDir, ListTables, NextName, OpenTable, Db2Loop, Report,
         Exit, vars, programVars, loopVars
<1> QED BY <1>1, <1>2, <1>3, <1>4

LEMMA InitCounts == InitState => CountsOK
<1> SUFFICES ASSUME InitState, NEW k \in {"dbc", "db2"} PROVE count[k] = Cardinality(OpenedOf(k))
  BY DEF CountsOK
<1>1. OpenedOf(k) = {}
  <2>1. world[k] \subseteq Names
    BY OpenedFinite DEF InitState
  <2> QED BY <2>1 DEF InitState, OpenedOf
<1> QED BY <1>1, FS_EmptySet DEF InitState

LEMMA CountsHold == Spec => []CountsOK
<1> QED BY InitCounts, StepCounts, InvariantHolds, PTL DEF Spec

\* Only listed names are handled, and the file of a name of one list is the
\* file of no name of the other.
LEMMA FileOf ==
  ASSUME IInv, NEW k \in {"dbc", "db2"}
  PROVE  /\ \A b \in FilesOf(k) : /\ out[b].of \in OpenedOf(k) /\ BaseOf[out[b].of] = b
         /\ \A n \in OpenedOf(k) : result[n] = "whole" =>
               /\ BaseOf[n] \in FilesOf(k)
               /\ BaseOf[out[BaseOf[n]].of] = BaseOf[n]
<1>1. TypeOK /\ world \in Worlds /\ world[k] \subseteq Names
  BY OpenedFinite DEF IInv, TypeOK
<1>2. Handled \subseteq world.dbc \cup world.db2
  <2>1. CASE pc \in Loops
    BY <2>1 DEF IInv, Looping, LoopList
  <2>2. CASE pc \notin Loops
    BY <1>1, <2>2 DEF IInv, TypeOK, States, RunStates, Loops, Before, HandledSoFar, Listed
  <2> QED BY <2>1, <2>2
<1>3. ASSUME NEW b \in Bases, Touched(b) # {}
      PROVE  /\ out[b].of \in Touched(b) /\ BaseOf[out[b].of] = b
             /\ \A n \in Touched(b) : n \in world[k] => out[b].of \in world[k]
  <2>1. PICK last \in Touched(b) : out[b] = LeftBy(last)
    BY <1>3 DEF IInv, LastWins
  <2>2. out[b].of = last /\ BaseOf[last] = b
    BY <2>1 DEF LeftBy, Whole, Partial, Touched
  <2>3. \A n \in Touched(b) : n \in world.dbc \cup world.db2 /\ BaseOf[n] = b
    BY <1>2 DEF Touched, Handled
  <2>4. \A n \in Touched(b) : n \in world[k] => last \in world[k]
    BY <1>1, <2>1, <2>3, WorldFacts
  <2> QED BY <2>1, <2>2, <2>4
<1>4. ASSUME NEW b \in FilesOf(k)
      PROVE  out[b].of \in OpenedOf(k) /\ BaseOf[out[b].of] = b
  <2>1. b \in Bases /\ out[b].of \in world[k]
    BY DEF FilesOf
  <2>2. out[b].of # 0
    BY <1>1, <2>1, NamesAssumption
  <2>3. Touched(b) # {}
    BY <2>1, <2>2 DEF IInv, LastWins, Old, NoOutput
  <2> QED BY <1>3, <2>1, <2>3 DEF OpenedOf, Touched
<1>5. ASSUME NEW n \in OpenedOf(k), result[n] = "whole"
      PROVE  BaseOf[n] \in FilesOf(k) /\ BaseOf[out[BaseOf[n]].of] = BaseOf[n]
  <2>1. n \in Names /\ n \in world[k] /\ BaseOf[n] \in Bases
    BY <1>1, NameFacts DEF OpenedOf
  <2>2. n \in Touched(BaseOf[n])
    BY <1>5, <2>1 DEF Touched
  <2> QED BY <1>3, <2>1, <2>2 DEF FilesOf
<1> QED BY <1>4, <1>5

-----------------------------------------------------------------------------
\* THE THEOREMS

\* The variables keep their types, and no argument behind the last is read.
THEOREM TypeCorrect == Spec => []TypeOK
<1>1. IInv => TypeOK
  BY DEF IInv
<1> QED BY <1>1, InvariantHolds, PTL

\* Whatever fails, a file in the output directory is what the last write that
\* reached it left there, and every other file is as it was.
THEOREM OutputsCorrect == Spec => []OutputsFollowTables
<1>1. IInv => OutputsFollowTables
  <2> SUFFICES ASSUME IInv, NEW b \in Bases
               PROVE  IF Touched(b) = {} THEN out[b] = IF b \in world.old THEN Old ELSE NoOutput
                      ELSE LET last == Max(Touched(b)) IN
                           out[b] = IF result[last] = "whole" THEN Whole(last) ELSE Partial(last)
    BY DEF OutputsFollowTables
  <2>1. CASE Touched(b) = {}
    BY <2>1 DEF IInv, LastWins
  <2>2. CASE Touched(b) # {}
    <3>1. PICK last \in Touched(b) : /\ \A n \in Touched(b) : n <= last
                                     /\ out[b] = LeftBy(last)
      BY <2>2 DEF IInv, LastWins
    <3>2. Touched(b) \in SUBSET Nat
      BY NamesAssumption DEF Touched
    <3>3. Max(Touched(b)) = last
      BY <3>1, <3>2, MaxIs
    <3> QED BY <2>2, <3>1, <3>3 DEF LeftBy
  <2> QED BY <2>1, <2>2
<1> QED BY <1>1, InvariantHolds, PTL

\* At the exit that was done which the arguments ask for, whatever they are: the
\* client was looked for exactly if they are well formed, exactly the names they
\* ask for were handled, and only tables were written.
THEOREM AskedIsDone == Spec => []ExtractsAsAsked
<1>1. IInv /\ AskedInv => ExtractsAsAsked
  <2> SUFFICES ASSUME IInv, AskedInv, pc = "exited"
               PROVE  /\ GivesZero(world.args) \/ DoesAsAsked
                      /\ \A n \in Handled : result[n] # "passed over" => world.holds[n] = "table"
    BY DEF ExtractsAsAsked
  <2> DEFINE args == world.args
             asked == AskedFor(args, "0") \/ AskedFor(args, "1")
  <2>1. args \in Seq(STRING) /\ arg \in Nat /\ Parsed(args, arg, m_type)
    BY WorldFacts DEF IInv, TypeOK, AskedInv
  <2>2. /\ arg > Len(args) => WellFormed(args) /\ (m_type \in {0, 1} <=> asked)
        /\ StoppedAt(arg) => ~WellFormed(args) \/ GivesZero(args)
    BY <2>1, LineFacts DEF StoppedAt
  <2>3. Handled = IF deletes = 1 /\ m_type \in {0, 1} THEN Listed ELSE {}
    BY DEF IInv, HandledSoFar
  <2>4. GivesZero(args) \/ DoesAsAsked
    <3>1. CASE step = "open" /\ StoppedAt(arg) /\ deletes = 0
      BY <2>2, <2>3, <3>1 DEF DoesAsAsked
    <3>2. CASE step = "done" /\ arg > Len(args)
      BY <2>2, <2>3, <3>2 DEF DoesAsAsked
    <3> QED BY <3>1, <3>2 DEF AskedInv, SearchPlace
  <2> QED BY <2>4 DEF IInv, OnlyTables
<1> QED BY <1>1, InvariantHolds, AskedHolds, PTL

\* The search that the program runs is the one of BuildNumber, step for step:
\* it opens the executables of its world only, and no other part of the program
\* touches its variables (GetCoreAndBuildNumber).
THEOREM ContainsSearch == Spec => VersionInit /\ [][VersionNext]_versionVars
<1>1. InitState => VersionInit
  BY DEF InitState
<1>2. IInv /\ [Next]_vars => [VersionNext]_versionVars
  <2> SUFFICES ASSUME IInv, SearchVersion PROVE VersionNext
    BY SearchOrNot
  <2>1. world.exes \subseteq Executables
    BY WorldFacts DEF IInv, TypeOK
  <2> QED BY <2>1 DEF SearchVersion, VersionNext
<1> QED BY <1>1, <1>2, InvariantHolds, PTL DEF Spec

\* Tables are extracted only from a client whose executable names a known build,
\* and those of one core only from the client with that build.
THEOREM ClientCorrect == Spec => []ClientIsNamed
<1>1. IInv /\ AskedInv /\ VersionInv => ClientIsNamed
  <2> SUFFICES ASSUME IInv, AskedInv, VersionInv, Handled # {}
               PROVE  \E p \in Occurs :
                         \/ NumberBegins(p) + NumberLength - 1 > Size
                         \/ LET build == NumberAt(NumberBegins(p)) IN
                            build \in KnownBuilds
                            /\ (Handled \cap world.db2 # {} => build = 15595)
    BY DEF ClientIsNamed
  <2>1. step = "done" /\ m_core = core /\ core # -1
    BY DEF AskedInv, Known
  <2>2. /\ iBuild \in KnownBuilds /\ core = CoreOf(iBuild)
        /\ \E p \in Occurs : \/ NumberBegins(p) + NumberLength - 1 > Size
                             \/ NumberAt(NumberBegins(p)) = iBuild
    BY <2>1, CoreFacts
  <2>3. ASSUME Handled \cap world.db2 # {} PROVE iBuild = 15595
    <3>1. TypeOK /\ world \in Worlds
      BY DEF IInv, TypeOK
    <3>2. \A n \in world.db2 : n \notin world.dbc
      BY <3>1, WorldFacts
    <3>3. m_core = CLIENT_CATA
      <4>1. CASE pc \in Loops
        BY <2>3, <3>2, <4>1 DEF IInv, Looping, LoopList
      <4>2. CASE pc \notin Loops
        BY <2>3, <3>1, <3>2, <4>2
           DEF IInv, TypeOK, States, RunStates, Loops, Before, HandledSoFar, Listed
      <4> QED BY <4>1, <4>2
    <3>4. CoreOf(iBuild) = 3
      BY <2>1, <2>2, <3>3 DEF CLIENT_CATA
    <3> QED BY <3>4 DEF CoreOf
  <2> QED BY <2>2, <2>3
<1>2. Spec => []VersionInv
  BY ContainsSearch, VersionInvHolds, PTL
<1> QED BY <1>1, <1>2, InvariantHolds, AskedHolds, PTL

\* Tables are read from live archives only, and a program that deletes them
\* twice has handled no name.
THEOREM ArchivesCorrect == Spec => []ArchivesHeld
<1>1. IInv => ArchivesHeld
  <2> SUFFICES ASSUME IInv PROVE ArchivesHeld
    OBVIOUS
  <2>1. pc \in RunStates => m_as = "live" /\ deletes = 0
    BY DEF IInv, Archives
  <2>2. ASSUME deletes = 2
        PROVE  pc = "exited" /\ Handled = {}
    <3>1. pc = "exited"
      BY <2>2 DEF IInv, TypeOK, Archives, States, Before
    <3> QED BY <2>2, <3>1 DEF IInv, HandledSoFar
  <2> QED BY <2>1, <2>2 DEF ArchivesHeld
<1> QED BY <1>1, InvariantHolds, PTL

\* The reported counts are no smaller than the numbers of files, and equal to
\* them when every write succeeded and no two tables share a file.
THEOREM ReportIsBound == Spec => []ReportBoundsFiles
<1>1. IInv /\ CountsOK => ReportBoundsFiles
  <2> SUFFICES ASSUME IInv, CountsOK, NEW k \in {"dbc", "db2"}
               PROVE  /\ Cardinality(FilesOf(k)) <= count[k]
                      /\ (NoClash(k) /\ \A n \in OpenedOf(k) : result[n] = "whole")
                            => Cardinality(FilesOf(k)) = count[k]
    BY DEF ReportBoundsFiles
  <2> DEFINE f == [b \in FilesOf(k) |-> out[b].of]
  <2>1. count[k] = Cardinality(OpenedOf(k)) /\ IsFiniteSet(OpenedOf(k))
    BY OpenedFinite DEF CountsOK, IInv, TypeOK
  <2>2. f \in Injection(FilesOf(k), OpenedOf(k))
    BY FileOf DEF Injection, IsInjective
  <2>3. /\ Cardinality(FilesOf(k)) <= Cardinality(OpenedOf(k))
        /\ Cardinality(FilesOf(k)) = Cardinality(OpenedOf(k)) <=>
              f \in Surjection(FilesOf(k), OpenedOf(k))
    BY <2>1, <2>2, FS_Injection
  <2>4. ASSUME NoClash(k), \A n \in OpenedOf(k) : result[n] = "whole"
        PROVE  f \in Surjection(FilesOf(k), OpenedOf(k))
    <3>1. ASSUME NEW n \in OpenedOf(k)
          PROVE  BaseOf[n] \in FilesOf(k) /\ f[BaseOf[n]] = n
      <4>1. BaseOf[n] \in FilesOf(k) /\ BaseOf[out[BaseOf[n]].of] = BaseOf[n]
        BY <2>4, FileOf
      <4>2. out[BaseOf[n]].of \in OpenedOf(k)
        BY <4>1, FileOf
      <4> QED BY <2>4, <4>1, <4>2 DEF NoClash
    <3>2. f \in [FilesOf(k) -> OpenedOf(k)]
      BY FileOf
    <3> HIDE DEF f
    <3> QED BY <3>1, <3>2 DEF Surjection
  <2> QED BY <2>1, <2>3, <2>4
<1> QED BY <1>1, InvariantHolds, CountsHold, PTL

=============================================================================
