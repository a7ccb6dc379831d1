---------------------------- MODULE MCRegression ---------------------------
(* Room for two seeds.  A file edited by hand may repeat a seed, hold one   *)
(* that is not the oldest first, or hold three.                             *)
EXTENDS Regression

CONSTANTS s1, s2, s3, s4

FourSeeds  == {s1, s2, s3, s4}
MCFiles    == {<<>>, <<s2, s1>>, <<s1, s1, s2>>, <<s1, s2, s3>>}
=============================================================================
