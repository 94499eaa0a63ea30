------------------------------ MODULE MCReadGuard ------------------------------
(* Five calls on a cache of one entry: three of one query, of which one in *)
(* a transaction, and two of a query that names a schema that is not there,*)
(* which only the permissive one may run.                                  *)
EXTENDS ReadGuard, TLC

CONSTANTS a, b, c, permissive, strict

Texts == (a :> "people") @@ (b :> "people") @@ (c :> "people")
           @@ (permissive :> "absent") @@ (strict :> "absent")

ReadKeys == {<<"people", "strict">>, <<"people", "permissive">>, <<"absent", "permissive">>}
==============================================================================
