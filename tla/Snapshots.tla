----------------------------- MODULE Snapshots -----------------------------
(***************************************************************************)
(* The worker's cache of source packages (sources.py): a directory per     *)
(* package with its files and a receipt that names the revisions in it.    *)
(* Publication renames a directory that is complete; removal goes file by  *)
(* file, and is cut short when the worker dies.                            *)
(***************************************************************************)
EXTENDS Integers, FiniteSets

CONSTANTS
    Packages,       \* the checksums of packages, as numbers: their order matters
    Commit,         \* the revisions
    Revisions,      \* Revisions[p] is the set of revisions in package p
    MaxSnapshots    \* 64 in sources.py

ASSUME SnapshotsAssumption ==
    /\ Packages \subseteq Nat \ {0}
    /\ Revisions \in [Packages -> SUBSET Commit]
    /\ MaxSnapshots \in Nat

Absent == [files |-> "none", receipt |-> FALSE]

Whole == [files |-> "whole", receipt |-> TRUE]

Caches == [Packages -> [files : {"none", "whole", "cut"}, receipt : BOOLEAN]]

\* Not a package: the mirror of the repository, the package just unpacked.
Mirror == 0

Import == -1

Receipts(cache) == {p \in Packages : cache[p].receipt}

\* The highest of the packages whose receipt names the revision, or the mirror.
Lookup(cache, commit) ==
    LET found == {p \in Receipts(cache) : commit \in Revisions[p]} IN
    IF found = {} THEN {Mirror} ELSE {p \in found : \A q \in found : q <= p}

\* Mutant: what is there already is reported as installed, receipt or not.
MayReuseAny(cache, p) == cache[p].files # "none"

\* What is there already is taken as it is; without its receipt that raises.
MayReuse(cache, p) == cache[p].files # "none" /\ cache[p].receipt

MayPublish(cache, p) == cache[p].files = "none" /\ Cardinality(Receipts(cache)) < MaxSnapshots

Published(cache, p) == [cache EXCEPT ![p] = Whole]

\* The first file is gone. The receipt is one of the files.
Opened(cache, p) == [cache EXCEPT ![p].files = "cut"]

Unreceipted(cache, p) == [cache EXCEPT ![p].receipt = FALSE]

Removed(cache, p) == [cache EXCEPT ![p] = Absent]
=============================================================================
