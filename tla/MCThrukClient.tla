----------------------------- MODULE MCThrukClient -----------------------------
(* A client with one cacheable path, for TLC.                              *)
EXTENDS ThrukClient, TLC

GetSites == [method |-> "GET", path |-> "sites", background |-> FALSE]
PostCommand == [method |-> "POST", path |-> "cmd", background |-> FALSE]
SitesJob == [method |-> "GET", path |-> "sites", background |-> TRUE]

\* The requests alone, and reads with a background job.
Requests == {GetSites, PostCommand}
ReadsAndJobs == {GetSites, SitesJob}

\* The keys under which these calls may be cached, written out so that they do
\* not depend on the definition of KeyOf.
MCCacheKeys == {<<"sites", FALSE>>, <<"sites", TRUE>>}
Symmetry == Permutations(Tasks)
================================================================================
