------------------------------ MODULE Registry ------------------------------
(***************************************************************************)
(* internal/registry: the languages goboxd serves, read once at startup    *)
(* from the *.yaml files of a directory, in the order of their names.      *)
(*                                                                         *)
(* A language is a record [name, source, artifact, build, run]; source and *)
(* artifact are file names, "" when missing and "unsafe" when safeName     *)
(* does not match.  A phase is None or [command, flags, time, mem]: a      *)
(* limit the file does not mention is zero.                                *)
(***************************************************************************)
EXTENDS Integers, Sequences, FiniteSets

CONSTANT None      \* a nil pointer, an absent field

\* A file is [yaml, lang]: whether its name ends in .yaml or .yml, and what it
\* decodes to, None if it does not.
Entries(files) == {i \in DOMAIN files : files[i].yaml}

Valid_RunUnchecked(l) ==       \* mutant: a language without a run phase is let in
  l.name # "" /\ l.source # "" /\ (l.build # None => l.build.command # "")

\* validate: limits, flags and the safety of file names are not looked at.
Valid(l) ==
  /\ l.name # "" /\ l.source # ""
  /\ l.run # None /\ l.run.command # ""
  /\ l.build # None => l.build.command # ""

\* LoadDir: the first file that does not decode or is not valid ends the program.
Loads(files) ==
  \A i \in Entries(files) : files[i].lang # None /\ Valid(files[i].lang)

LoadDir(files) ==
  LET names == {files[i].lang.name : i \in Entries(files)}
      last(n) == CHOOSE i \in Entries(files) :
                   /\ files[i].lang.name = n
                   /\ \A k \in Entries(files) : files[k].lang.name = n => k <= i
  IN  [n \in names |-> files[last(n)].lang]
==============================================================================
