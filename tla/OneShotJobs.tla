---------------------------- MODULE OneShotJobs ----------------------------
(***************************************************************************)
(* What a work list promises about its jobs: a job that was put on the     *)
(* list is waiting until somebody takes it; whoever takes it may put it    *)
(* back as it was, fire it once, or lose it; after that it is over.        *)
(***************************************************************************)
EXTENDS Naturals

CONSTANT Jobs

VARIABLES state, shots

TypeOK ==
    /\ state \in [Jobs -> {"unborn", "waiting", "taken", "over"}]
    /\ shots \in [Jobs -> Nat]

Init ==
    /\ state = [j \in Jobs |-> "unborn"]
    /\ shots = [j \in Jobs |-> 0]

Move(j, from, to) ==
    /\ state[j] \in from
    /\ state' = [state EXCEPT ![j] = to]

Add(j) == Move(j, {"unborn"}, "waiting") /\ UNCHANGED shots

Take(j) == Move(j, {"waiting"}, "taken") /\ UNCHANGED shots

PutBack(j) == Move(j, {"taken"}, "waiting") /\ UNCHANGED shots

Fire(j) == Move(j, {"taken"}, "over") /\ shots' = [shots EXCEPT ![j] = @ + 1]

Lose(j) == Move(j, {"waiting", "taken"}, "over") /\ UNCHANGED shots

Next == \E j \in Jobs : Add(j) \/ Take(j) \/ PutBack(j) \/ Fire(j) \/ Lose(j)

Spec == Init /\ [][Next]_<<state, shots>>

=============================================================================
