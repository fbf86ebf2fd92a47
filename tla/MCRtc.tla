-------------------------------- MODULE MCRtc --------------------------------
(* Instances of Rtc for TLC.                                               *)
EXTENDS Rtc

Hours12 == [binary : BOOLEAN, h24 : {FALSE}]

(* A clock of 24 hours, around noon and midnight.                          *)
DayFirst == <<0, 0, 0, 1, 1, 2023>>
DayCount == <<60, 60, 24, 31, 12, 100>>
Noon ==
  {<<59, 59, 11, 9, 7, 2023>>, <<0, 0, 12, 9, 7, 2023>>,
   <<59, 59, 23, 9, 7, 2023>>, <<0, 0, 0, 10, 7, 2023>>}
=============================================================================
