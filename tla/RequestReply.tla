----------------------------- MODULE RequestReply -----------------------------
(***************************************************************************)
(* What a pair of edge tasks promises: its client asks, its server answers *)
(* that request and no other, the client takes the answer and asks again,  *)
(* until the pair is torn down.  How the request travels is not said.      *)
(***************************************************************************)
EXTENDS Integers

CONSTANT Window         \* requests are told apart modulo Window

VARIABLES turn,         \* whose move it is; "reply": the answer is ready
          number        \* the request last made

turnVars == <<turn, number>>

Turns == {"closed", "client", "server", "reply"}

Open ==
    /\ turn = "closed"
    /\ turn' = "client"
    /\ number' = 0

Ask ==
    /\ turn = "client"
    /\ turn' = "server"
    /\ number' = (number + 1) % Window

Serve ==
    /\ turn = "server"
    /\ turn' = "reply"
    /\ UNCHANGED number

Take ==
    /\ turn = "reply"
    /\ turn' = "client"
    /\ UNCHANGED number

Close ==
    /\ turn # "closed"
    /\ turn' = "closed"
    /\ number' = 0

TurnInit == turn = "closed" /\ number = 0

TurnNext == Open \/ Ask \/ Serve \/ Take \/ Close

TurnSafety == TurnInit /\ [][TurnNext]_turnVars

\* A request is answered and its answer taken, unless the pair is closed; a
\* client need not ask.
TurnSpec ==
    /\ TurnSafety
    /\ WF_turnVars(Serve) /\ WF_turnVars(Take)
===============================================================================
