---------------------------- MODULE MCWebStores ----------------------------
(***************************************************************************)
(* The stores of the service, for TLC: see Web_stores.cfg for the bounds.    *)
(***************************************************************************)
EXTENDS WebStores

\* Three processes take locks: the workers and the scan.
Everyone == Workers \cup {Scanner}

=============================================================================
