-------------------------- MODULE MCCatalogRefresh --------------------------
(* Small instances of CatalogRefresh for TLC.                              *)
EXTENDS CatalogRefresh, TLC

CONSTANTS s1, s2, k1, auto
=============================================================================
