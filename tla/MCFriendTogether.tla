-------------------------- MODULE MCFriendTogether --------------------------
(* Small instances of FriendTogether.  A tick stands for ten minutes for   *)
(* an invitation and for a second between two reads: only the order of     *)
(* what is due matters.                                                    *)
EXTENDS FriendTogether, TLC

CONSTANTS card, ticket, join, rejoin, share, reshare, none, first, second

MCEverything == {Optional}

Randoms == Permutations(RequestIDs) \cup Permutations(GrantIDs)
             \cup Permutations(InvitationIDs) \cup Permutations(Readers)
=============================================================================
