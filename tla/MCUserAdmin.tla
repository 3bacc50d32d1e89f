---------------------------- MODULE MCUserAdmin ----------------------------
(* Values of the constants of UserAdmin for TLC.                             *)
EXTENDS UserAdmin

CONSTANTS q1, q2, q3, Admin, Ann
MCRequests == {q1, q2, q3}
MCRoles == {Admin}
MCProfiles == {Ann}
MCUserIds == 1..2
MCRowIds == 1..3
=============================================================================
