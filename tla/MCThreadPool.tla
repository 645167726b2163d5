---------------------------- MODULE MCThreadPool ---------------------------
(* Small pools for TLC.                                                    *)
EXTENDS ThreadPool

CONSTANTS w1, w2, main, other, t1, t2, t3
=============================================================================
