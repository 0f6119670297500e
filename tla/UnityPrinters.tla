--------------------------- MODULE UnityPrinters ----------------------------
(***************************************************************************)
(* Every printer of Unity, one call at a time: the variables of the others *)
(* stand still.                                                            *)
(***************************************************************************)
EXTENDS UnityPrinting, UnityText, UnityFloatPrint

printer_vars == <<number_vars, text_vars, float_vars>>

NoNumber == style = NULL /\ given = 0 /\ mask = 0 /\ printed = NULL

NoText ==
  /\ color = FALSE /\ routine = NULL
  /\ string = <<>> /\ pch = 0 /\ out = <<>> /\ taken = <<>>

NoFloat ==
  /\ input_number = Rat(0, 1) /\ phase = NULL
  /\ number = Rat(0, 1) /\ exponent = 0 /\ n_int = 0 /\ n = 0
  /\ text = <<>>

PrintersInit ==
  \/ PrintingInit /\ NoText /\ NoFloat
  \/ NoNumber /\ TextInit /\ NoFloat
  \/ NoNumber /\ NoText /\ FloatPrintInit

PrintersNext ==
  \/ PrintNumber /\ UNCHANGED <<text_vars, float_vars>>
  \/ TextNext /\ UNCHANGED <<number_vars, float_vars>>
  \/ FloatPrintNext /\ UNCHANGED <<number_vars, text_vars>>

PrintersSpec == PrintersInit /\ [][PrintersNext]_printer_vars
=============================================================================
