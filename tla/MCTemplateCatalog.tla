------------------------- MODULE MCTemplateCatalog -------------------------
(* TemplateCatalog with two sources that ship a chart of the same name, and *)
(* an app with two environments.                                            *)
EXTENDS TemplateCatalog
=============================================================================
