---------------------------- MODULE MCUnitTests -----------------------------
(* Values of the constants of UnitTests for TLC. *)
EXTENDS UnitTests

\* The names the tests use.
MCTestNames ==
    UNION {UNION {Range(s.path) : s \in Range(FlattenSeq(Suite(prog)))} : prog \in {1, 2}}
        \cup UNION {Range(s.dst) : s \in {x \in Range(rename_test) : x.op = "rename"}}
        \cup {"this-dir-name-is-way-too-lo"}

\* The one of them that is longer than MAX_NAME_LEN.
MCTestTruncated ==
    [n \in MCTestNames |->
        IF n = "this-dir-name-is-way-too-long" THEN "this-dir-name-is-way-too-lo" ELSE n]

=============================================================================
