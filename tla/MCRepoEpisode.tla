--------------------------- MODULE MCRepoEpisode ---------------------------
(* Five requests and seven decisions under every policy and both rules.    *)
EXTENDS RepoEpisode
=============================================================================
