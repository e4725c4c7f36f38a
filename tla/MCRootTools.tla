----------------------------- MODULE MCRootTools -----------------------------
(***************************************************************************)
(* The tools of the administrator, for TLC: see Root_tools.cfg for the        *)
(* bounds.                                                                   *)
(***************************************************************************)
EXTENDS RootTools

\* Two stable releases, a commit of main and a working copy of the second.
Release(channel, version) == [channel |-> channel, version |-> version]
First == Release("stable", 1)
Releases == {First, Release("stable", 2), Release("main", 2), Release("local", 2)}

=============================================================================
