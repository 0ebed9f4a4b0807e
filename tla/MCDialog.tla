------------------------------ MODULE MCDialog -------------------------------
(* A small instance of Dialog for TLC.                                     *)
EXTENDS Dialog

SomePresets ==
    { Unset,
      [Unset EXCEPT !.device = "sdb"],
      [Unset EXCEPT !.url = "given"],
      [Unset EXCEPT !.password = <<"preset">>, !.wifi = TRUE],
      [Unset EXCEPT !.keys = TRUE, !.server = TRUE],
      [Unset EXCEPT !.silent = TRUE, !.device = "sda", !.token = TRUE],
      [Unset EXCEPT !.silent = TRUE, !.device = "sda", !.url = "given"] }

DiskChoices == {{}, {"sda"}, {"sda", "sdb"}}
=============================================================================
