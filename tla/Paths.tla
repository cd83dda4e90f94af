------------------------------- MODULE Paths -------------------------------
(***************************************************************************)
(* What the dispatcher, the session and the request handlers all do to     *)
(* paths and targets.  A path is a sequence of characters.                 *)
(***************************************************************************)
EXTENDS Integers, Sequences

Root == <<"/">>

\* Seeded fault of Strip: pop_back() down to the empty path.
StripAll(path) ==
  LET ends == {0} \cup {n \in 1 .. Len(path) : path[n] # "/"}
  IN  SubSeq(path, 1, CHOOSE n \in ends : \A m \in ends : m <= n)

\* "while (path.length() > 1 && path.back() == '/') path.pop_back()"
Strip(path) ==
  LET ends == {n \in 1 .. Len(path) : n = 1 \/ path[n] # "/"}
  IN  IF path = <<>> THEN path
      ELSE SubSeq(path, 1, CHOOSE n \in ends : \A m \in ends : m <= n)

\* Seeded fault of Matches: what both have is compared.
MatchesShorter(key, path) ==
  \A n \in 1 .. Len(key) : n <= Len(path) => key[n] = path[n]

\* "path.substr(0, key.length()) == key"
Matches(key, path) == Len(key) <= Len(path) /\ SubSeq(path, 1, Len(key)) = key
=============================================================================
