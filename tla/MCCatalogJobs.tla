---------------------------- MODULE MCCatalogJobs ----------------------------
(* Small instances of CatalogJobs.                                          *)
EXTENDS CatalogJobs
=============================================================================
