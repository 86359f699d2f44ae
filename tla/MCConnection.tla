---------------------------- MODULE MCConnection ----------------------------
(* Connection with a timeout of two seconds, two addresses, and a caller    *)
(* that stays away for longer than a timeout.                               *)
EXTENDS Connection

TwoSeconds == 2

TwoAddresses == 2

MCKMax == 1

MCMaxPings == 1

MCMaxAway == 3

MCMaxSilence == 8
=============================================================================
