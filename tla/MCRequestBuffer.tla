--------------------------- MODULE MCRequestBuffer --------------------------
(* Small instances of RequestBuffer for TLC. *)
EXTENDS RequestBuffer

UpToSix == UNION {[1 .. n -> Byte] : n \in 1 .. 6}
NoneOrOne == {<<>>, <<"n">>}
=============================================================================
