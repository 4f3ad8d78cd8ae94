-------------------------- MODULE MCParticipantTurn --------------------------
EXTENDS ParticipantTurn
CONSTANTS r1
MCTarget == [c \in Callers |-> r1]
=============================================================================
