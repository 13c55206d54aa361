---------------------------- MODULE MCExtraction ----------------------------
EXTENDS Extraction

(* A schema with both types that JSON takes a narrower view of, and categories of
   which one begins another. *)
MCSchema == <<"string", "number">>
MCCategories == {<<"a">>, <<"a", "b">>, <<"c", "d", "e">>}
=============================================================================
