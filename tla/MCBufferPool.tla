---------------------------- MODULE MCBufferPool ----------------------------
(* Two threads and three buffers: lists of two entries can be stolen while *)
(* a third buffer is in use.                                               *)
EXTENDS BufferPool

CONSTANTS t1, t2, e1, e2, e3
=============================================================================
