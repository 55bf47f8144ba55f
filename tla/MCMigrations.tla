--------------------------- MODULE MCMigrations ---------------------------
(* Migrations with small sets for TLC. *)
EXTENDS Migrations, TLC

\* The running image, the next one with a file more, and one whose second file
\* was edited.
Images == "old" :> <<"one", "two">> @@ "new" :> <<"one", "two", "three">> @@ "edited" :> <<"one", "TWO">>

Tables == {<<NoBody, NoBody, NoBody>>, <<"one", Unhashed, NoBody>>}
=============================================================================
