------------------------------- MODULE MCRoutines -----------------------------
(* Three layers with any scale, and sizes at, between, above and far below the
   entries of the table; strings of two characters, split with one or two of them,
   that overlap; outputs around the sizes that zlib is given. *)
EXTENDS Routines

SomeTokens == {<<"a">>, <<"a", "a">>, <<"a", "b">>}
=============================================================================
