---------------------------- MODULE MCListObjects ----------------------------
EXTENDS ListObjects

(* Character 2 is the delimiter, between 1 and 3 in order: two keys under  *)
(* a common prefix, one of them ending with the delimiter, an object after *)
(* them, and a key with the delimiter twice.                               *)
SomeKeys == {<<1, 2>>, <<1, 2, 3>>, <<1, 3>>, <<3, 2, 2, 1>>}

SomePrefixes == {<<>>, <<1, 2>>}
SomeDelimiters == {<<2>>, <<2, 2>>}

(* A temporary file is outside the longer prefix.                          *)
SomeTemps == {<<0, 1>>}
=============================================================================
