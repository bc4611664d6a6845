----------------------------- MODULE MCWebClient -----------------------------
(***************************************************************************)
(* Instances of WebClient for TLC.                                         *)
(***************************************************************************)
EXTENDS WebClient

CONSTANTS q1, q2, u1

\* a question and a file, or two questions
TwoJobs == {{q1, u1}, {q1, q2}}
AFile == {{u1}}
=============================================================================
