--------------------------- MODULE MCCompletionText ---------------------------
(***************************************************************************)
(* TLC instance of CompletionText: markers that begin alike, that begin    *)
(* with what another one ends with, and that repeat their first character. *)
(***************************************************************************)
EXTENDS CompletionText

MCMarkers == {<<"a", "b">>, <<"a", "a", "c">>, <<"b", "c", "a">>}

=============================================================================
