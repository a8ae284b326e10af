------------------------------ MODULE MCSession ------------------------------
(* Session.ts checked with two tabs.  One unit of time stands for ten       *)
(* seconds of the code: SESSION_RESET_FREQ = 30 s is 3 units; the session   *)
(* timeout is scaled down from 600 s to 6 units, which keeps the order of   *)
(* the two bounds and leaves Grace = 2 units between them.                  *)
EXTENDS Session, TLC

CONSTANTS t1, t2

MCTabs == {t1, t2}

TabSymmetry == Permutations(MCTabs)

\* What the session runs tell states apart by.  No guard and no property of
\* theirs reads dojoConfig, or whether a settled GetBuildInfo was answered
\* or failed (the count of lost requests is kept), so states differing only
\* there are explored once.
SessionView ==
    <<page, watching, idleAge, idleNotice, sinceReset, status, timeoutOn,
      inflight, touchAge, expired, lost, lastOutcome, activeAge, clockSteps,
      [t \in Tabs |-> buildInfo[t] = "pending"]>>
==============================================================================
