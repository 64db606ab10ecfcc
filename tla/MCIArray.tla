------------------------------ MODULE MCIArray ------------------------------
(* TLC instances of IArray.                                                *)
EXTENDS IArray
=============================================================================
