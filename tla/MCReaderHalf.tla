---------------------------- MODULE MCReaderHalf ----------------------------
(* ReaderHalf where one packet is told apart from more, and an unanswered     *)
(* PINGREQ from none.                                                       *)
EXTENDS ReaderHalf

MCKMax == 2

MCMaxPings == 1

OneSecond == 1
=============================================================================
