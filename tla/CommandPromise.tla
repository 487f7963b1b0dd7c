--------------------------- MODULE CommandPromise ---------------------------
(***************************************************************************)
(* What the dashboard's hub promises the HTTP handlers that call           *)
(* Hub.SendCommand, with no goroutine, channel, lock or timer in sight:    *)
(*                                                                         *)
(*   - a command reaches its agent at most once, and only if the call has  *)
(*     not failed;                                                         *)
(*   - a call is settled at most once, by the agent's answer, by the       *)
(*     timeout or by a failure to send, and what the caller gets back is   *)
(*     that settlement;                                                    *)
(*   - an answer is the answer to a command the agent received, and a call *)
(*     that fails leaves nothing behind that could still run.              *)
(*                                                                         *)
(* A timed-out command may still reach the agent, and run: the hub does    *)
(* not promise otherwise.                                                  *)
(***************************************************************************)
CONSTANT Cmds       \* the calls of SendCommand

VARIABLES phase,    \* phase of each call
          outcome,  \* what settled it, "none" until then
          executed  \* the commands that reached an agent

promiseVars == <<phase, outcome, executed>>

Outcomes == {"result", "timeout", "error"}

Init == /\ phase = [c \in Cmds |-> "new"]
        /\ outcome = [c \in Cmds |-> "none"]
        /\ executed = {}

\* A call that finds the agent offline fails at once.
Refuse(c) == /\ phase[c] = "new"
             /\ phase' = [phase EXCEPT ![c] = "closed"]
             /\ outcome' = [outcome EXCEPT ![c] = "error"]
             /\ UNCHANGED executed

Issue(c) == /\ phase[c] = "new"
            /\ phase' = [phase EXCEPT ![c] = "open"]
            /\ UNCHANGED <<outcome, executed>>

\* The agent receives the command: once, and never after a failed call.
Execute(c) == /\ phase[c] # "new"
              /\ c \notin executed
              /\ outcome[c] # "error"
              /\ executed' = executed \cup {c}
              /\ UNCHANGED <<phase, outcome>>

Settle(c, o) == /\ phase[c] = "open"
                /\ outcome[c] = "none"
                /\ o = "result" => c \in executed
                /\ o = "error" => c \notin executed
                /\ outcome' = [outcome EXCEPT ![c] = o]
                /\ UNCHANGED <<phase, executed>>

\* The call ends and hands its outcome to the caller.
Return(c) == /\ phase[c] = "open"
             /\ outcome[c] # "none"
             /\ phase' = [phase EXCEPT ![c] = "closed"]
             /\ UNCHANGED <<outcome, executed>>

Next == \E c \in Cmds : \/ Refuse(c)
                        \/ Issue(c)
                        \/ Execute(c)
                        \/ \E o \in Outcomes : Settle(c, o)
                        \/ Return(c)

Spec == Init /\ [][Next]_promiseVars
=============================================================================
