---------------------------- MODULE LockEpisodes ----------------------------
(***************************************************************************)
(* What the lock-secure monitor promises about one car: a live lock is     *)
(* answered by at most one round of pushes, rounds begin at least Cooldown *)
(* apart, across restarts too, and once the car has reported anything else *)
(* a round tells at most the phone it was about to tell.  Rounds come      *)
(* closer only when the car left the fleet in between, or when the time of *)
(* the last round could not be written and the process then died.          *)
(***************************************************************************)
EXTENDS Integers

CONSTANTS Rounds, Cooldown

VARIABLES
  open,     \* a live lock waits for its round
  rest,     \* time since the last round began, up to Cooldown
  saved,    \* the same, as a restart would find it
  unsaved,  \* that write of it failed, and none succeeded since
  round     \* "none", "current", or of an earlier report of the car:
            \* "about to tell" a phone, or "over"

promise == <<open, rest, saved, unsaved, round>>

RoundStates == {"none", "current", "about to tell", "over"}

PromiseInit ==
  /\ open = FALSE /\ rest = Cooldown /\ saved = Cooldown /\ unsaved = FALSE
  /\ round = [r \in Rounds |-> "none"]

Written == saved' = rest' /\ unsaved' = FALSE
MayWrite == Written \/ UNCHANGED <<saved, unsaved>>

(* What was current may become a round of an earlier report. *)
Aged(s) == IF s = "current" THEN {"about to tell", "over"} ELSE {s}

(* The car reports something, or the monitor starts over: *)
(* only the first opens an episode.                       *)
Reports ==
  /\ open' \in BOOLEAN
  /\ \/ UNCHANGED round
     \/ round' \in [Rounds -> RoundStates] /\ \A r \in Rounds : round'[r] \in Aged(round[r])
  /\ UNCHANGED rest /\ MayWrite

Begins(r) ==
  /\ open /\ open' = FALSE
  /\ rest = Cooldown /\ rest' = 0
  /\ Written \/ (saved' = saved /\ unsaved' = TRUE)
  /\ round[r] = "none" /\ round' = [round EXCEPT ![r] = "current"]

(* The episode is given up without a round. *)
Lapses == open' = FALSE /\ UNCHANGED <<rest, saved, unsaved, round>>

Tells(r) ==
  /\ round[r] \in {"current", "about to tell"}
  /\ round' = [round EXCEPT ![r] = IF @ = "current" THEN "current" ELSE "over"]
  /\ MayWrite
  /\ UNCHANGED <<open, rest>>

Ends(r) ==
  /\ round' = [round EXCEPT ![r] = "none"]
  /\ MayWrite
  /\ UNCHANGED <<open, rest>>

Passes(t) == IF t = Cooldown THEN t ELSE t + 1

Waits ==
  /\ rest' = Passes(rest) /\ saved' = Passes(saved)
  /\ unsaved' = (unsaved /\ rest' # Cooldown)
  /\ open' \in {FALSE, open} /\ UNCHANGED round

(* The car has left the fleet and its last round with it. *)
Leaves ==
  /\ open' = FALSE /\ rest' = Cooldown /\ UNCHANGED <<saved, unsaved>>
  /\ round' \in [Rounds -> RoundStates] /\ \A r \in Rounds : round'[r] \in Aged(round[r])

(* A restart goes on from what was written: it forgets a round only if its *)
(* write failed.                                                           *)
Restarts ==
  /\ saved <= rest \/ unsaved
  /\ open' = FALSE /\ rest' = saved /\ UNCHANGED saved /\ unsaved' = FALSE
  /\ round' = [r \in Rounds |-> "none"]

PromiseNext ==
  \/ Reports \/ Lapses \/ Waits \/ Leaves \/ Restarts
  \/ \E r \in Rounds : Begins(r) \/ Tells(r) \/ Ends(r)

PromiseSpec == PromiseInit /\ [][PromiseNext]_promise
=============================================================================
