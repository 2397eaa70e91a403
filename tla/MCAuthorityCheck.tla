-------------------------- MODULE MCAuthorityCheck --------------------------
(* Small instances of AuthorityCheck for TLC.                              *)
EXTENDS AuthorityCheck
=============================================================================
