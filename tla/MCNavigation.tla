---------------------------- MODULE MCNavigation ----------------------------
(* Small instances of Navigation. *)
EXTENDS Navigation

CONSTANTS home, work, cellA, cellB

(* Nearly there, so that the session is arriving; a change to work is new. *)
RouteHome == [to |-> home, place |-> cellA, left |-> 20]
RouteWork == [to |-> work, place |-> cellB, left |-> 1000]

MCLive ==
  {<<"state", "online">>, <<"state", "driving">>, <<"healthy", "yes">>,
   <<"active_route", RouteWork>>, <<"active_route", Invalid>>}
MCReplay == {<<"active_route", RouteHome>>}
=============================================================================
