----------------------------- MODULE MCUserPage -----------------------------
(* Values of the constants of UserPage for TLC.                              *)
EXTENDS UserPage

CONSTANT Ann            \* a profile: every user is an Ann
MCProfiles == {Ann}
MCFilters == {{Ann}, {}} \* the search that finds everybody, one that finds nobody
MCOneFilter == {{Ann}}
MCOneUser == 1..1
MCTwoUsers == 1..2
=============================================================================
