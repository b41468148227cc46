---------------------------- MODULE MCApiService ----------------------------
(* TLC instance of ApiService, with two of the four providers.             *)
EXTENDS ApiService, TLC

CONSTANTS db, http

Providers == <<db, http>>
=============================================================================
