------------------------------ MODULE TsConst ------------------------------
(***************************************************************************)
(* Constants shared by the modules (ts_module_const.h).                    *)
(***************************************************************************)
EXTENDS Integers

RefreshRate == {"100ms", "1s", "1m"}

\* The answer "no client" of the queue.
None == -1
=============================================================================
