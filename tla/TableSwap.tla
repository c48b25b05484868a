------------------------------ MODULE TableSwap ------------------------------
(***************************************************************************)
(* What the swap printer's terminal claim promises (swap_terminal.py): the  *)
(* change_table command of one print goes out at most once, only after the  *)
(* print was completed, and only after the intent to send it is durable.    *)
(* A process that dies between the intent and the answer leaves the claim   *)
(* to nobody: it is held, never sent again.                                 *)
(***************************************************************************)
EXTENDS Naturals

CONSTANT Runs

VARIABLES
    completed,   \* the prints that ended well
    claim,       \* of each print: what is known of its command
    commands     \* of each print: how many commands left the server

swapVars == <<completed, claim, commands>>

SwapInit ==
    /\ completed = {}
    /\ claim = [r \in Runs |-> "open"]
    /\ commands = [r \in Runs |-> 0]

Completes(r) ==
    /\ completed' = completed \cup {r}
    /\ UNCHANGED <<claim, commands>>

Intend(r) ==
    /\ claim[r] = "open" /\ r \in completed
    /\ claim' = [claim EXCEPT ![r] = "intended"]
    /\ UNCHANGED <<completed, commands>>

Send(r) ==
    /\ claim[r] = "intended" /\ commands[r] = 0
    /\ commands' = [commands EXCEPT ![r] = 1]
    /\ UNCHANGED <<completed, claim>>

(* The answer closes the claim whether or not the command left. *)
Answer(r) ==
    /\ claim[r] = "intended"
    /\ claim' = [claim EXCEPT ![r] = "answered"]
    /\ UNCHANGED <<completed, commands>>

(* The sender dies or gives up: every claim it still had is nobody's. *)
Abandon ==
    /\ \E lost \in SUBSET {r \in Runs : claim[r] = "intended"} :
          /\ lost # {}
          /\ claim' = [r \in Runs |-> IF r \in lost THEN "unknown" ELSE claim[r]]
    /\ UNCHANGED <<completed, commands>>

SwapNext ==
    \/ \E r \in Runs : Completes(r) \/ Intend(r) \/ Send(r) \/ Answer(r)
    \/ Abandon

SwapSpec == SwapInit /\ [][SwapNext]_swapVars

(* The consequence a farm cares about. *)
AtMostOneCommand == \A r \in Runs : commands[r] <= 1
=============================================================================
