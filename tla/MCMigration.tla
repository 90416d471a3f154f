---------------------------- MODULE MCMigration ----------------------------
(* Instances of Migration for TLC.                                          *)
EXTENDS Migration, TLC

S(version, checksum) == [version |-> version, checksum |-> checksum]

\* An old build and the next one; a build with an edited step, one with a step put in
\* between, and one whose versions do not increase.
Builds == {<<S(1, "a"), S(3, "a")>>, <<S(1, "a"), S(3, "a"), S(4, "a")>>, <<S(1, "a"), S(3, "b")>>,
           <<S(1, "a"), S(2, "a"), S(3, "a")>>, <<S(4, "a"), S(2, "a")>>}

MigratorSymmetry == Permutations(Migrators)
=============================================================================
