--------------------------- MODULE NavigationLegs ---------------------------
(***************************************************************************)
(* src/navigation_leg.go: when a published route is the leg already under  *)
(* way, the same stop under another name, a stop to be confirmed, or a new *)
(* leg.  Coordinates are cells: two places are close if they are the same. *)
(* Distances are in units of 10 m; minutes go with the distance.           *)
(***************************************************************************)
EXTENDS Integers

CONSTANTS
  Stops,    \* destinations by name, case folded
  Places,   \* coordinates, as cells at least 150 m apart
  Lefts     \* remaining distances

NoLeft == -1
Nowhere == ""

ASSUME LeftsAreDistances == Lefts \subseteq Nat

Routes == [to : Stops \cup {Nowhere}, place : Places \cup {Nowhere},
           left : Lefts \cup {NoLeft}]
NoRoute == [to |-> Nowhere, place |-> Nowhere, left |-> NoLeft]

(* A stop staged for confirmation, observed less than two seconds ago or   *)
(* up to thirty; after that it counts as not staged.                       *)
Ages == {"fresh", "ripe"}
Staged == [to : Stops \cup {Nowhere}, place : Places \cup {Nowhere}, age : Ages]
NothingStaged == [to |-> Nowhere, place |-> Nowhere, age |-> "fresh"]

Older(staged) ==
  IF staged.to = Nowhere \/ staged.age = "ripe" THEN NothingStaged
  ELSE [staged EXCEPT !.age = "ripe"]

Close(a, b) == a.place # Nowhere /\ a.place = b.place
Far(a, b) == a.place # Nowhere /\ b.place # Nowhere /\ a.place # b.place

Larger(x, y) == IF x > y THEN x ELSE y
Smaller(x, y) == IF x < y THEN x ELSE y

LooksArrived(left) == left # NoLeft /\ left <= 35
NearArrival(left) == left # NoLeft /\ left <= 50

(* navigationRemainingDeltaStartsNewLeg *)
StartsNewLeg(previous, current) ==
  /\ previous # NoLeft /\ current # NoLeft
  /\ Larger(previous, current) - Smaller(previous, current)
       > Smaller(300, Larger(15, (8 * Larger(previous, current)) \div 100))

(* navigationRemainingLooksLikeNewSameNameStop *)
IsNewStopOfSameName(previous, current) ==
  current > previous + 15 /\ StartsNewLeg(previous, current)

NeedsConfirmation(route) == route.left = NoLeft \/ LooksArrived(route.left)

(* classifyNavigationLegChange, for a valid route *)
Classify(leg, route) ==
  LET same == leg.to = route.to IN
  IF leg.to = Nowhere \/ (same /\ Close(leg, route)) THEN "keep"
  ELSE IF Far(leg, route) THEN IF NeedsConfirmation(route) THEN "stage" ELSE "new"
  ELSE IF same THEN IF IsNewStopOfSameName(leg.left, route.left) THEN "new" ELSE "keep"
  ELSE IF Close(leg, route) THEN "alias"
  ELSE IF leg.left = NoLeft \/ route.left = NoLeft THEN "stage"
  ELSE IF StartsNewLeg(leg.left, route.left) THEN "new" ELSE "alias"

(* applyRouteCandidate: what the route leaves out stays. *)
Applied(leg, route) ==
  [to |-> route.to,
   place |-> IF route.place = Nowhere THEN leg.place ELSE route.place,
   left |-> IF route.left = NoLeft THEN leg.left ELSE route.left]

(* pendingRouteCandidateMatches *)
Matches(staged, route) ==
  staged.to # Nowhere /\ staged.to = route.to /\ ~Far(staged, route)

(* stagePendingCandidate *)
Stage(staged, route) ==
  [to |-> route.to, place |-> route.place,
   age |-> IF Matches(staged, route) THEN staged.age ELSE "fresh"]

(* pendingRouteCandidateConfirmed, while driving *)
Confirmed(staged, route) == Matches(staged, route) /\ staged.age = "ripe"
=============================================================================
