------------------------------- MODULE MCJobs -------------------------------
(***************************************************************************)
(* Instance of Jobs for TLC: two solves and an extraction for a pool of    *)
(* two processes, so that there is always one more than can run.           *)
(***************************************************************************)
EXTENDS Jobs

CONSTANTS solve1, solve2, ocr, p1, p2

MCJobIds == {solve1, solve2, ocr}
MCTaskOf == [j \in MCJobIds |-> IF j = ocr THEN "ocr" ELSE "solve"]
MCSlots  == {p1, p2}
=============================================================================
