---------------------------- MODULE MCAsmCorpus ----------------------------
(***************************************************************************)
(* Two test files, one of them marked KnownFailure, and a driver that is   *)
(* started twice.                                                          *)
(***************************************************************************)
EXTENDS AsmCorpus

CONSTANTS add, svc
MCTests == {add, svc}
MCTestSeq == <<add, svc>>
MCKnownFailure == {svc}
=============================================================================
