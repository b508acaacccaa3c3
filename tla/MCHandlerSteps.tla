-------------------------- MODULE MCHandlerSteps ----------------------------
(* Values of the constants of HandlerSteps for TLC. *)
EXTENDS HandlerSteps, MCFileSystem

\* Every read and write seeks first: an offset nobody has sought is not used.
MCStepView ==
    <<disk, bitmap, statVfs, thr, owed, stops, settled,
      IF \E t \in Threads : thr[t].sought > 0 THEN offset ELSE 0>>


\* A negative length, and lengths that keep all, some or none of a file of up to two blocks.
MCStepTruncLens == {-1, 0, 2}

CONSTANT b
\* Two names beside each other, and one below the first.
MCStepPaths == {<<>>, <<a>>, <<b>>, <<a, b>>}

\* The same without the root.
MCCrashPaths == MCStepPaths \ {<<>>}

\* One file, and two files beside each other.
MCOneFile  == {<<a>>}
MCTwoFiles == {<<a>>, <<b>>}

\* Without the counters, which decide nothing but whether a write may begin under MaxFree.
MCCrashView ==
    <<disk, bitmap, owed, stops,
      [t \in Threads |-> [thr[t] EXCEPT !.seen.statVfs = Idle.seen.statVfs]],
      IF \E t \in Threads : thr[t].sought > 0 THEN offset ELSE 0>>

\* No other thread has moved the offset since a thread sought its block.
MCUnmoved == \A t \in Threads : Ready(t) => offset = Lba(t)

\* What calls do once they have gone astray is not followed.
MCFollowed == ~stops.astray
=============================================================================
