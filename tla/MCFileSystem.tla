--------------------------- MODULE MCFileSystem -----------------------------
(* Values of the constants of FileSystem for TLC. *)
EXTENDS FileSystemTree

CONSTANTS a, aLong, MaxDepth

\* All paths of up to MaxDepth components.
MCPaths == UNION {[1 .. n -> Names] : n \in 0 .. MaxDepth}

\* The same, and one path with a component too many: it is cut down to <<a>>.
MCLongPaths == MCPaths \cup {<<aLong, a>>}

\* aLong is a longer spelling of a, which parse() cuts down to a.
MCTruncated == [n \in Names |-> IF n = aLong THEN a ELSE n]

\* With either the client can name every object: the hypothesis EveryPath of TreeImplemented.
ASSUME MCEveryPath ==
    Paths \in {MCPaths, MCLongPaths} =>
        Parsed = UNION {[1 .. n -> {m \in Names : Truncated[m] = m}] : n \in 0 .. MaxPathLen}

\* A negative length, and lengths within and at the end of a block.
MCTruncLens == {-1, 0, 1, 3, 4}

\* No action reads reply: states that differ in it alone have the same successors.
MCView == <<disk, bitmap, statVfs>>

\* Without aLong nothing tells one name from another.
MCSymmetry == Permutations(Names)
=============================================================================
