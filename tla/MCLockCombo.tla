----------------------------- MODULE MCLockCombo -----------------------------
(***************************************************************************)
(* LockCombo with the code's ring of 8: combinations of two to four keys,  *)
(* in the orders that matter (Win first, Win last), the default            *)
(* Ctrl+Alt+Win+L among them, and one of five keys, too long for the ring. *)
(***************************************************************************)
EXTENDS LockCombo

MCCombos ==
  {<<"lwin", "l">>, <<"lwin", "ctrl", "alt", "l">>, <<"ctrl", "alt", "rwin", "l">>,
   <<"lwin", "ctrl", "alt", "shift", "l">>}

=============================================================================
