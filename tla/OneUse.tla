------------------------------- MODULE OneUse -------------------------------
(***************************************************************************)
(* What a challenge, a ceremony or a registration token promises whoever   *)
(* handed it out: it is good from then on until it is used, runs out or is *)
(* forgotten, and whatever becomes of it, it has been used at most once.   *)
(***************************************************************************)
EXTENDS Naturals

CONSTANT Tokens

VARIABLES
  good, \* handed out, and still of use
  void, \* of no use any more
  uses  \* what each has been used for

vars == <<good, void, uses>>

Init == good = {} /\ void = {} /\ uses = [t \in Tokens |-> 0]

Give(t) ==
  /\ t \notin good \cup void
  /\ good' = good \cup {t}
  /\ UNCHANGED <<void, uses>>

Use(t) ==
  /\ t \in good
  /\ good' = good \ {t}
  /\ void' = void \cup {t}
  /\ uses' = [uses EXCEPT ![t] = 1]

\* Time takes tokens one by one, a wrong answer one, the end of the dashboard
\* all of them.
Forget ==
  /\ good' \subseteq good
  /\ void' = void \cup (good \ good')
  /\ UNCHANGED uses

Next == (\E t \in Tokens : Give(t) \/ Use(t)) \/ Forget

Spec == Init /\ [][Next]_vars
=============================================================================
