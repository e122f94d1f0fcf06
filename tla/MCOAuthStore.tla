---------------------------- MODULE MCOAuthStore ----------------------------
(* A small instance of OAuthStore for TLC. It checks liveness, so its keys,    *)
(* though interchangeable, are no symmetry sets.                               *)
EXTENDS OAuthStore
=============================================================================
