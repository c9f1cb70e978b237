---------------------------- MODULE MCLockSecure ----------------------------
(* Small instances of LockSecure. *)
EXTENDS LockSecure, TLC

CONSTANTS phoneA, r1

MCReplay ==
  {<<"locked", "no">>, <<"is_user_present", "no">>, <<"state", "online">>,
   <<"shift_state", "P">>}
MCLive ==
  {<<"locked", "no">>, <<"locked", "yes">>, <<"is_user_present", "no">>,
   <<"healthy", "yes">>}
=============================================================================
