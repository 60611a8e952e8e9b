--------------------------- MODULE MCPlayground -----------------------------
(* TLC instances of Playground. *)
EXTENDS Playground

\* After the first request: texts in one piece, edited or not.
ShortHistory == {<<>>, <<"a">>, <<"answer">>, <<"video">>, <<"typed">>, <<"typed", "video">>}
=============================================================================
