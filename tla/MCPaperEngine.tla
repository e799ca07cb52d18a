--------------------------- MODULE MCPaperEngine ---------------------------
(* Small paper engines for TLC: days of six slots, four or five of them in *)
(* the session.                                                            *)
EXTENDS PaperEngine, TLC

\* The indices and the threadpool threads are interchangeable; not used by the
\* run that checks a liveness property.
Symmetry == Permutations(Indices) \cup Permutations(Manual)

MCPnls == {-1, 1}
MCLosses == {-1}
=============================================================================
