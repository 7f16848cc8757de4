----------------------- MODULE MCDatabaseAvailability -----------------------
(***************************************************************************)
(* Two databases and two recipients, as in the source's checks and the     *)
(* smallest list with a partial delivery.                                  *)
(***************************************************************************)
EXTENDS DatabaseAvailability
=============================================================================
