---------------------------- MODULE OneShotEffect ---------------------------
(***************************************************************************)
(* What the approval gate promises about the outside world: each item is    *)
(* decided once; only an authorised item is attempted, and only once; the   *)
(* attempt makes at most Limit[i] provider calls; after a human conclusion  *)
(* no call is made for it any more.                                         *)
(***************************************************************************)
EXTENDS Naturals

CONSTANTS Items,   \* the approved pieces of work
          Limit    \* [Items -> Nat]: provider calls of one attempt at most

VARIABLES phase,   \* [Items -> Phases]
          made     \* [Items -> Nat], provider calls issued so far

vars == <<phase, made>>

Phases == {"undecided", "refused", "authorised", "attempted", "finished", "sealed"}

Init == /\ phase = [i \in Items |-> "undecided"]
        /\ made = [i \in Items |-> 0]

Move(i, from, to) == /\ phase[i] \in from
                     /\ phase' = [phase EXCEPT ![i] = to]
                     /\ UNCHANGED made

Authorise(i) == Move(i, {"undecided"}, "authorised")
Refuse(i) == Move(i, {"undecided"}, "refused")
Start(i) == Move(i, {"authorised"}, "attempted")
Finish(i) == Move(i, {"attempted"}, "finished")
Seal(i) == Move(i, {"attempted", "finished"}, "sealed")

Call(i) == /\ phase[i] = "attempted"
           /\ made[i] < Limit[i]
           /\ made' = [made EXCEPT ![i] = @ + 1]
           /\ UNCHANGED phase

Next == \E i \in Items : \/ Authorise(i) \/ Refuse(i) \/ Start(i)
                         \/ Call(i) \/ Finish(i) \/ Seal(i)

Spec == Init /\ [][Next]_vars
=============================================================================
