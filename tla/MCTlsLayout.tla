---------------------------- MODULE MCTlsLayout ----------------------------
(***************************************************************************)
(* TlsLayout with pointers of two bytes, so that a block can be smaller    *)
(* than a pointer, and an array that three blocks may or may not fit into. *)
(***************************************************************************)
EXTENDS TlsLayout

Segment(memsz, filesz) == [tls |-> TRUE, memsz |-> memsz, filesz |-> filesz]
MCImages == {[tls |-> FALSE, memsz |-> 0, filesz |-> 0],
             Segment(1, 1), Segment(2, 0), Segment(3, 2), Segment(4, 4)}

\* errno lies below the blocks of sloader.
MCLibcTlsAddr == -3

=============================================================================
