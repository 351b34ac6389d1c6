---------------------------- MODULE MCLifecycle ----------------------------
(* An instance of Lifecycle for TLC.  The second release has a migration   *)
(* more than the first.                                                    *)
EXTENDS Lifecycle
MCReleases == {<<1>>, <<1, 2>>}
=============================================================================
