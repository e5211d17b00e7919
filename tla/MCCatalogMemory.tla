-------------------------- MODULE MCCatalogMemory ---------------------------
(* Lists of up to three directories of up to three files, for TLC.          *)
EXTENDS CatalogMemory
=============================================================================
