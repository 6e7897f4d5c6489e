------------------------------- MODULE MCPhotos -------------------------------
(* A small instance of DuckPhotos: the two commands are two lives of the     *)
(* page, the two captures a photo that is taken again.                       *)
EXTENDS DuckPhotos
===============================================================================
