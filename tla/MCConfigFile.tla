---------------------------- MODULE MCConfigFile ----------------------------
(***************************************************************************)
(* ConfigFile for TLC, and that IsConfig and TreeOf, which count, are what *)
(* a grammar and a printer say that recur.                                 *)
(***************************************************************************)
EXTENDS ConfigFile

\* The files of at most n tokens, comments apart:
\*   config ::= (word word* (";" | "{" config "}"))*
RECURSIVE Files(_)
Files(n) ==
  IF n < 2 THEN {<<>>}
  ELSE LET words(k) == [i \in 1 .. k |-> "NORMAL"]
       IN  {<<>>} \cup
           {words(k) \o <<"STATEMENT_END">> \o rest :
              k \in 1 .. n - 1, rest \in Files(n - 2)} \cup
           {words(k) \o <<"START_BLOCK">> \o block \o <<"END_BLOCK">> \o rest :
              k \in 1 .. n - 2, block \in Files(n - 3), rest \in Files(n - 3)}

ValidFiles == {file \in Files(MaxTokens) : Len(file) <= MaxTokens}

\* The tokens a tree of statements stands for.
RECURSIVE Unparse(_, _)
UnparseStatement(stmt, block) ==
  [i \in 1 .. stmt.size |-> "NORMAL"] \o
  (IF stmt.child = Parser!NoChild THEN <<"STATEMENT_END">>
   ELSE <<"START_BLOCK">> \o block \o <<"END_BLOCK">>)
Unparse(c, heap) ==
  FlattenSeq([i \in DOMAIN heap[c] |->
    UnparseStatement(heap[c][i],
      IF heap[c][i].child = Parser!NoChild THEN <<>> ELSE Unparse(heap[c][i].child, heap))])

\* Up to the bound IsConfig holds of the files of the grammar and no others.
ASSUME ConfigsAreTheGrammar ==
  {file \in BoundedSeq(Parser!TokenTypes \ {"COMMENT", "ERROR"}, MaxTokens) :
     Parser!IsConfig(file)} = ValidFiles

\* A file's tree, printed, is the file.
ASSUME TreePrintsAsTheFile ==
  \A file \in ValidFiles : Unparse(1, Parser!TreeOf(file)) = file
=============================================================================
