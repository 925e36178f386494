---------------------------- MODULE MCShakeBuild ----------------------------
(* An executable that is published and has two tests, one with an XML report. *)
EXTENDS ShakeBuild

CONSTANTS exe, bin, test, report, all

TheDeps == [r \in Rules |->
  CASE r = exe -> {}
    [] r = bin -> {exe}
    [] r \in {test, report} -> {bin}
    [] r = all -> {bin, test, report}]
==============================================================================
