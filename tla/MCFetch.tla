------------------------------ MODULE MCFetch ------------------------------
(* Plans for Fetch.                                                         *)
EXTENDS Fetch

\* A model assembled from parts without hashes, which the server changes.
Unhashed == [hasHash |-> FALSE, assembly |-> TRUE, keepParts |-> FALSE, maxVersions |-> 2]

\* Hashed files, of which the server first has another version.
Hashed == [hasHash |-> TRUE, assembly |-> FALSE, keepParts |-> TRUE, maxVersions |-> 2]

\* The same, assembled.
HashedParts == [Hashed EXCEPT !.assembly = TRUE]
HashedPartsRemoved == [HashedParts EXCEPT !.keepParts = FALSE]

MCPlans == {Unhashed, Hashed, HashedParts, HashedPartsRemoved}
=============================================================================
