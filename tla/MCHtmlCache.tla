----------------------------- MODULE MCHtmlCache -----------------------------
EXTENDS HtmlCache, TLC
Symmetry == Permutations(Procs) \cup Permutations(Pages)
=============================================================================
