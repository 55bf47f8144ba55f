--------------------------- MODULE MCOpmlImports ---------------------------
(* OpmlImports with small sets for TLC. *)
EXTENDS OpmlImports, TLC

CONSTANTS i1, i2, u1, u2, u3

\* u3 has the hash of u1.
CollidingHash == u1 :> 1 @@ u2 :> 2 @@ u3 :> 1

Table(legacy, hashed) ==
    [u \in Urls |-> IF u \in legacy THEN "legacy" ELSE IF u \in hashed THEN "hashed" ELSE "none"]

\* Nothing yet, or a feed registered before hashes were stored.
OldTables == {Table({}, {}), Table({u2}, {})}

\* Two files with the same feeds in opposite orders, the second with a bad and
\* a repeated outline, or malformed.
MixedDocuments == i1 :> {<<u1, u2>>} @@ i2 :> {<<u2, BadUrl, u1, u1>>, Malformed}

\* One import: two feeds and a repeated one, or a malformed file.
OneImport == i1 :> {<<u1, u2, u1>>, Malformed}

TwoAttempts == [k \in Kinds |-> 2]

Symmetry == Permutations(Slots)
=============================================================================
