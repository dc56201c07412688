---------------------------- MODULE TurnProtocol ----------------------------
(***************************************************************************)
(* What the negotiation graph promises to the simulation it serves: a turn *)
(* either is one more round, after which the simulation waits for the      *)
(* student, or it ends the simulation; at the limit it can only end it.    *)
(***************************************************************************)
EXTENDS Naturals

CONSTANT MaxTurns

VARIABLES status, turn_count

protocolVars == <<status, turn_count>>

ProtocolInit == status = "active" /\ turn_count = 0

Runnable == status \in {"active", "paused"}

AnotherRound ==
    /\ Runnable
    /\ turn_count < MaxTurns
    /\ turn_count' = turn_count + 1
    /\ status' = "paused"

LastTurn ==
    /\ Runnable
    /\ status' = "completed"
    /\ UNCHANGED turn_count

ProtocolNext == AnotherRound \/ LastTurn

ProtocolSpec == ProtocolInit /\ [][ProtocolNext]_protocolVars
=============================================================================
