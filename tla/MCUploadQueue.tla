--------------------------- MODULE MCUploadQueue ---------------------------
(* Small instances of UploadQueue: two songs of one title and a third.         *)
EXTENDS UploadQueue

CONSTANTS ode, odeByAnother, air

MCSongs  == {ode, odeByAnother, air}
MCTitles == {"Ode", "Air"}
MCTitle  == [song \in MCSongs |-> IF song = air THEN "Air" ELSE "Ode"]

(* One row's request or upload at a time, and one answer that comes after its  *)
(* screen is gone.                                                             *)
OneRow  == Cardinality({a \in asks \cup answers \cup uploading : a.by = "row"}) <= 1
OneLeft == Cardinality({a \in asks \cup answers : a.by = "left"}) <= 1
=============================================================================
