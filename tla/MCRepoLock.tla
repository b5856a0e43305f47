----------------------------- MODULE MCRepoLock -----------------------------
(* Four requests over two repositories: chains of up to four on one key,   *)
(* and both keys busy at once.                                             *)
EXTENDS RepoLock
=============================================================================
