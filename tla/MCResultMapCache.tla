-------------------------- MODULE MCResultMapCache --------------------------
(* Values of the constants of ResultMapCache for TLC.                        *)
EXTENDS ResultMapCache

CONSTANTS t1, t2, m1, m2, Bean
MCThreads == {t1, t2}
MCMaps == {m1, m2}
MCTypes == {Bean}
\* Two statements with rows of one class.
MCTypeOf == [m \in MCMaps |-> Bean]
=============================================================================
