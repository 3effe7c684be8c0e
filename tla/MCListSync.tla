------------------------------ MODULE MCListSync ------------------------------
(* One entry that calls and a retry work on.                                *)
EXTENDS ListSync

CONSTANTS e1, c1, c2, t1

One      == {e1}
OneCall  == {c1}
TwoCalls == {c1, c2}
Retrying == {t1}
Unknown  == {0}
Known    == {0, 7}
=============================================================================
