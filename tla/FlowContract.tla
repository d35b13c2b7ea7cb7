----------------------------- MODULE FlowContract -----------------------------
(***************************************************************************)
(* What internal/workflow/engine promises of one flow instance, whatever   *)
(* its graph: rounds of approval are opened under fresh numbers, one       *)
(* operation settles at most one of them, and an instance that has ended   *)
(* has none open and never changes again.  How votes are counted, how      *)
(* gateways route and how a transaction works is left to FlowEngine.       *)
(***************************************************************************)
EXTENDS Integers

VARIABLES phase,   \* flow_instances.status
          open,    \* the rounds that still wait for votes
          issued   \* how many rounds were ever opened

NoRound == 0

Init == phase = "absent" /\ open = {} /\ issued = 0

\* The flow moves on: round r (or none) is settled, fresh rounds are opened, and
\* with nothing left to wait for it may be complete.
Advance(r) ==
  /\ phase' \in {"running", "completed"} /\ (phase' = "completed" => open' = {})
  /\ issued' >= issued
  /\ open \ {r} \subseteq open'
  /\ open' \subseteq (open \ {r}) \cup (issued + 1 .. issued')

Begin == phase = "absent" /\ Advance(NoRound)
Settle == phase = "running" /\ \E r \in open \cup {NoRound} : Advance(r)

Stop == /\ phase \in {"running", "suspended"} /\ phase' = "terminated"
        /\ open' = {} /\ UNCHANGED issued

Pause == phase = "running" /\ phase' = "suspended" /\ UNCHANGED <<open, issued>>
Continue == phase = "suspended" /\ phase' = "running" /\ UNCHANGED <<open, issued>>

Next == Begin \/ Settle \/ Stop \/ Pause \/ Continue

Spec == Init /\ [][Next]_<<phase, open, issued>>
===============================================================================
