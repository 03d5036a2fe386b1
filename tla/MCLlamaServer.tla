--------------------------- MODULE MCLlamaServer ----------------------------
(***************************************************************************)
(* LlamaServer on small instances.                                         *)
(***************************************************************************)
EXTENDS LlamaServer

CONSTANT t1

TheTerminal == {t1}
Clocks == {306, 408, 510, 612, 714, 816, 918, 1020}
=============================================================================
