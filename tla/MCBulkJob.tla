------------------------------- MODULE MCBulkJob -------------------------------
(* Small instances of BulkJob.                                              *)
EXTENDS BulkJob

CONSTANTS a, b, c

(* Three resources, and one asked for twice.                                *)
SomeRequests == {<<a, b, c>>, <<a, a>>}
=============================================================================
