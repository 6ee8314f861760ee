---------------------------- MODULE MCOcrDrafts ----------------------------
(***************************************************************************)
(* Three days and a time to live of one: a draft of the first day can be   *)
(* swept on the last.  Two workers, for the event that comes twice.  The   *)
(* limit of one draft a day is run with two requests and three drafts, so  *)
(* that the bound on the overrun is reached and could be passed.           *)
(***************************************************************************)
EXTENDS OcrDrafts, TLC

Interchangeable == Permutations(Drafts) \cup Permutations(Requests) \cup Permutations(Workers)
=============================================================================
