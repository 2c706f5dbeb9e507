----------------------------- MODULE MCRequest ------------------------------
(* Request on small instances: six language directories, every kind of     *)
(* payload on both ways in, at most two tests.  Limits of 5 s and 256 MB   *)
(* as in configs/languages; bash has 128 MB.                               *)
EXTENDS Request

Phase(command, flags, time, mem) ==
  [command |-> command, flags |-> flags, time |-> time, mem |-> mem]
Lang(name, source, artifact, build, run) ==
  [name |-> name, source |-> source, artifact |-> artifact, build |-> build, run |-> run]
File(lang) == [yaml |-> TRUE, lang |-> lang]

Python == Lang("py", "main.py", "", None, Phase("python3", {}, 5, 262144))
Bash == Lang("bash", "main.sh", "", None, Phase("bash", {}, 5, 131072))
C == Lang("c", "main.c", "main", Phase("gcc", {"-O2", "-g"}, 15, 524288), Phase("./main", {}, 5, 262144))
NoLimits == Lang("c", "main.c", "main", Phase("gcc", {}, 0, 0), Phase("./main", {"-v"}, 0, 0))

MCDirectories ==
  { <<File(Bash), File(C), File(Python)>>,
    <<File(C), File(NoLimits), [yaml |-> FALSE, lang |-> None]>>,
    <<File(C), File(Lang("py", "unsafe", "", None, Python.run))>>,
    <<File(Lang("c", "main.c", "unsafe", C.build, C.run)), File(Python)>>,
    <<File(Python), File(Lang("c", "main.c", "main", C.build, None))>>,
    <<File(Python), File(None)>> }

Seqs(S, n) == UNION {[1..k -> S] : k \in 0..n}
Input(text, nl) == [text |-> text, nl |-> nl]
Inputs == {Input("a", FALSE), Input("a", TRUE), Input("b", FALSE), Input("c", TRUE)}
Expected == {"x", "y"}

Submission(type, language, source, tests, timeMs, memMb) ==
  [type |-> type, language |-> language, source |-> source, tests |-> tests,
   timeMs |-> timeMs, memMb |-> memMb]
OneTest == <<[input |-> Input("a", FALSE), expected |-> "x"]>>

\* Every list of up to three tests, and every combination of the other fields.
MCSubmissions ==
  {Submission(type, language, "fits", tests, 2000, 256) :
     type \in {"run", "submit", "Submit"}, language \in {"py", "c"},
     tests \in Seqs([input : Inputs, expected : Expected], 3)}
  \cup
  {Submission(type, language, source, tests, timeMs, memMb) :
     type \in {None, "run", "submit", "other"}, language \in {"py", "PY", "c", "bash", "zz", ""},
     source \in {"", "fits", "big"}, tests \in {<< >>, OneTest},
     timeMs \in {None, -1000, 400, 500, 2000, 5499, 5500}, memMb \in {None, 0, 64, 128, 256}}

Test(text, time, mem) ==
  [input |-> Input(text, FALSE), expected |-> "x", time |-> time, mem |-> mem]
HttpTests ==
  {<< >>, <<Test("a", 0, 0), Test("a", 0, 0)>>, <<Test("a", 0, 0), Test("b", 6, 0)>>,
   <<Test("b", 0, 0), Test("a", 0, 0), Test("c", 0, 0)>>}
    \cup {<<Test("a", time, mem)>> : time \in {-1, 0, 3, 6}, mem \in {0, 512, 262144, 300000}}

MCPosts ==
  [decodes : BOOLEAN, language : {"", "py", "c", "zz"}, source : {"", "fits", "big"},
   buildFlags : {{}, {"-O2"}, {"-evil"}}, runFlags : {{}, {"-v"}}, tests : HttpTests,
   time : {-1, 3, 6}, mem : {0, 262144, 300000}]
==============================================================================
