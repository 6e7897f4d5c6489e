------------------------------- MODULE MCLive -------------------------------
(* A small instance of LiveUpdates: a user with one of two roles.            *)
EXTENDS LiveUpdates

CONSTANTS director, registrar

OneRole == {director}
=============================================================================
