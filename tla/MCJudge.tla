------------------------------- MODULE MCJudge -------------------------------
(* Judge on a small instance: limits of two seconds for a test and three for  *)
(* the build, a second of two ticks, a context of six seconds and a half.        *)
EXTENDS Judge

Program(runs, code, text, holds) ==
  [runs |-> runs, code |-> code, text |-> text, holds |-> holds]

\* Instant and slow programs with every kind of ending, and some that leave a process
\* with their output behind; 100 ticks are for ever as far as any limit here is
\* concerned.
MCPrograms ==
  {Program(0, 0, t, 0) : t \in Texts}
    \cup {Program(r, 0, "exact", 0) : r \in {3, 5, 100}}
    \cup {Program(r, SIGKILL, "exact", 0) : r \in {1, 3}}
    \cup {Program(0, c, "exact", 0) : c \in {1, SIGXCPU}}
    \cup {Program(0, 0, "exact", h) : h \in {2, 100}}
    \cup {Program(1, SIGKILL, "exact", 2), Program(100, 0, "exact", 1)}
==============================================================================
