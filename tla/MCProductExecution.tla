------------------------- MODULE MCProductExecution -------------------------
(***************************************************************************)
(* Small instances of ProductExecution.                                    *)
(***************************************************************************)
EXTENDS ProductExecution

CONSTANTS e1, e2

MCExecs == {e1, e2}

=============================================================================
