----------------------------- MODULE PatchChain -----------------------------
(***************************************************************************)
(* What one file name means to an MPQ archive that has patch archives       *)
(* attached: the part of StormLib that ArchiveSet::ReadFile relies on.      *)
(*                                                                         *)
(* A chain is the sequence of the entries the archive (first) and its       *)
(* patches, in the order they were attached, hold for that name.            *)
(***************************************************************************)
EXTENDS Integers, Sequences, FiniteSetsExt

\* An entry as the library tells entries apart:
\*   absent    SFileOpenFileEx does not open it
\*   full      a complete file, MPQ_FILE_PATCH_FILE clear
\*   corrupt   a complete file whose data cannot be read back
\*   marker    a deletion marker: an entry that exists, of size 0
\*   patch     a patch that applies to the version below it
\*   badpatch  a patch that opens, but fails to load or to verify
EntryKinds == {"absent", "full", "corrupt", "marker", "patch", "badpatch"}
IsPatch(entry) == entry \in {"patch", "badpatch"}
IsPlain(entry) == entry \in {"full", "corrupt", "marker"}

Plain(chain) == {i \in DOMAIN chain : IsPlain(chain[i])}

\* OpenPatchedFile: the entries whose file structures stay linked in the
\* handle, empty when it fails.  It searches upwards for the first entry that
\* is not a patch, links every entry above it, and then frees what lies below
\* the last entry that is not a patch: that one carries the handle.
Opened(chain) ==
    IF Plain(chain) = {} THEN {}
    ELSE {i \in DOMAIN chain : i >= Max(Plain(chain)) /\ chain[i] # "absent"}

\* SFileGetFileSize takes the size of the newest linked entry; only a deletion
\* marker has size 0.
SizeIsZero(chain) == chain[Max(Opened(chain))] = "marker"

\* SFileReadFile: the data of the oldest linked entry is loaded, and then each
\* patch above it, in turn, must load and match the checksum of the version
\* before it.  On a deletion marker there are no bytes to match.  A patch that
\* gives no size of the version before it is not checked against that version
\* (SFilePatchArchives.cpp:364): on a marker it reads like a complete file, and
\* stands there as an entry of kind "full".
ReadSucceeds(chain) ==
    /\ chain[Min(Opened(chain))] = "full"
    /\ \A i \in Opened(chain) : chain[i] # "badpatch"

=============================================================================
