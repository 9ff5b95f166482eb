----------------------------- MODULE TestFiles ------------------------------
(***************************************************************************)
(* Which files `calisto test` runs (test.rs 28-175).                       *)
(*                                                                         *)
(* A path is a sequence of names, absolute if it begins with "/"; the      *)
(* ending that marks a test is a name of its own, so that                  *)
(* test/user_test.rb is <<"test", "user", "_test.rb">>.  A tree says what  *)
(* files are under the root of the project, and where the command was      *)
(* given.                                                                  *)
(***************************************************************************)
EXTENDS SequencesExt, FiniteSets

Absolute(p) == p[1] = "/"

\* TestFramework::dir, TestFramework::suffix.
Dir == [minitest |-> "test", rspec |-> "spec"]
Suffix == [minitest |-> "_test.rb", rspec |-> "_spec.rb"]

\* walk_files below a directory of the root; relative paths.
WalkFiles(tree, dir, suffix) ==
  {f \in tree.files : f[1] = dir /\ Last(f) = suffix}

\* detect_framework.
DetectFramework(tree) ==
  IF <<".rspec">> \in tree.files \/ WalkFiles(tree, "spec", "_spec.rb") # {}
  THEN "rspec" ELSE "minitest"

IsFile(tree, p) ==
  \E f \in tree.files : tree.root \o f = IF Absolute(p) THEN p ELSE tree.cwd \o p

\* cmd_test: a filter keeps the files it is equal to or a directory of; files
\* are absolute here, and only a relative filter that is a whole path is
\* compared under the root.
Keeps(tree, pat, f) == f = pat \/ IsPrefix(pat, f) \/ f = tree.root \o pat

\* A filter that is a file is added even outside the tests' directory.
Explicit(tree, pats) ==
  {IF Absolute(p) THEN p ELSE tree.root \o p : p \in {q \in pats : IsFile(tree, q)}}

\* The files of a command, without duplicates.
Selected(tree, pats) ==
  LET fw == DetectFramework(tree)
      found == {tree.root \o f : f \in WalkFiles(tree, Dir[fw], Suffix[fw])}
  IN  IF pats = {} THEN found
      ELSE {f \in found : \E p \in pats : Keeps(tree, p, f)} \cup Explicit(tree, pats)

\* files.sort(); the order itself is left open.
InOrder(S) ==
  CHOOSE q \in [1 .. Cardinality(S) -> S] : \A f \in S : \E i \in 1 .. Cardinality(S) : q[i] = f

\* What the user named: the files that the filters are, seen from where the
\* command was given.
Named(tree, pats) ==
  {IF Absolute(p) THEN p ELSE tree.cwd \o p : p \in {q \in pats : IsFile(tree, q)}}
=============================================================================
