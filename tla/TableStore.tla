----------------------------- MODULE TableStore -----------------------------
(***************************************************************************)
(* What the set of archives promises to the rest of the extractor: a store  *)
(* of named tables in which every request is answered, with the newest      *)
(* version that can be read.                                                *)
(*                                                                         *)
(* store[n] is the sequence of the chains (see PatchChain) the archives     *)
(* hold for name n, oldest archive first.  It does not change.              *)
(***************************************************************************)
EXTENDS Integers, Sequences, SequencesExt

CONSTANTS Names

VARIABLES store,
          asked,      \* the name a request is pending for, or NoName
          answer      \* the version the last request was answered with

vars == <<store, asked, answer>>

NoName == "none"
Nothing == [archive |-> 0, parts |-> {}]

\* The content of a chain, built from the bottom: a complete entry replaces
\* what was below it, a patch adds to it, and a chain that never had a
\* complete entry has no content.
Unreadable == {0}
AfterEntry(content, entry, i) ==
    CASE entry = "absent" -> content
      [] entry = "full" -> {i}
      [] entry = "marker" -> Unreadable
      [] entry = "corrupt" -> Unreadable
      [] entry = "patch" -> IF content \in {{}, Unreadable} THEN content ELSE content \cup {i}
      [] entry = "badpatch" -> IF content = {} THEN {} ELSE Unreadable

\* ContentsOf(chain)[i] is the content after the first i entries.
ContentsOf(chain) ==
    LET upTo[i \in 0..Len(chain)] ==
            IF i = 0 THEN {} ELSE AfterEntry(upTo[i - 1], chain[i], i)
    IN  upTo
Content(chain) == ContentsOf(chain)[Len(chain)]

HasContent(chain) == Content(chain) \notin {{}, Unreadable}

\* The newest archive in which the name has readable content wins.
Newest(chains) ==
    LET readable == {k \in 1..Len(chains) : HasContent(chains[k])}
    IN  IF readable = {} THEN Nothing
        ELSE LET k == Max(readable)
             IN  [archive |-> k, parts |-> Content(chains[k])]

Init == asked = NoName /\ answer = Nothing /\ DOMAIN store = Names

Ask(n) ==
    /\ asked = NoName
    /\ asked' = n
    /\ answer' = Nothing
    /\ UNCHANGED store

Answer ==
    /\ asked # NoName
    /\ answer' = Newest(store[asked])
    /\ asked' = NoName
    /\ UNCHANGED store

Next == (\E n \in Names : Ask(n)) \/ Answer

\* What the answers are, and that every request is answered.
Safety == Init /\ [][Next]_vars
Spec == Safety /\ WF_vars(Answer)

=============================================================================
