----------------------------- MODULE MCMigrate -----------------------------
(* Three runs, each of the old build with two migrations, of a new one     *)
(* with a third, or of one in which the text of the second was edited.     *)
EXTENDS Migrate

MCSize == [b \in {"old", "new", "edited"} |-> IF b = "old" THEN 2 ELSE 3]
MCChecksum ==
  [b \in {"old", "new", "edited"} |->
     [m \in 1 .. 3 |-> IF b = "edited" /\ m = 2 THEN "edited text" ELSE "text"]]
=============================================================================
