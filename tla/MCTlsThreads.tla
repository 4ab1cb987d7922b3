---------------------------- MODULE MCTlsThreads ----------------------------
(***************************************************************************)
(* TlsThreads over the segments of MCTlsLayout.                            *)
(***************************************************************************)
EXTENDS TlsThreads, MCTlsLayout

=============================================================================
