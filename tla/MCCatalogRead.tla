---------------------------- MODULE MCCatalogRead ----------------------------
(***************************************************************************)
(* CatalogRead for TLC: one page, one process that answers all readers.    *)
(***************************************************************************)
EXTENDS CatalogRead

MCApis == {"api"}
MCApiOf == [r \in Readers |-> "api"]
=============================================================================
