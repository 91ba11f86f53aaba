---------------------------- MODULE MCCatalogSearch ----------------------------
EXTENDS CatalogSearch

\* With and without an export, to a file and to stdout, and one path for both.
Invocations ==
  {[output |-> "report", export |-> "xml"], [output |-> "none", export |-> "xml"],
   [output |-> "report", export |-> "none"], [output |-> "xml", export |-> "xml"]}
=============================================================================
