-------------------------- MODULE MCRealTimeClock --------------------------
(***************************************************************************)
(* The clock with eight registers, the seven of the date and the control   *)
(* register.  At power on the clock runs and is about to begin a year, and *)
(* a bit that is no part of the date is set in most registers.  The dates  *)
(* are two the code can represent, of which one is about to carry into the *)
(* hours and one into the day, perhaps into the month, and one beyond it.  *)
(* The clock advances at the end of a minute only.                         *)
(***************************************************************************)
EXTENDS RealTimeClock

\* 12:59:59, Sunday 8 October 2017, 23:59:59, Monday 30 October 2017, and
\* 23:00:30, Saturday 31 December 2101.
MCDates == {<<59, 59, 12, 6, 8, 9, 2017>>, <<59, 59, 23, 0, 30, 9, 2017>>,
            <<30, 0, 23, 5, 31, 11, 2101>>}

\* 23:59:59 on 31 December of the year 99, day 2 of the week.
MCInitialRegisters ==
  {[r \in Register |->
      LET now == <<59, 59, 23, 2, 31, 12, 99>>
      IN  IF r = 3 THEN convertToBCD(now[4])
          ELSE {7} \union (IF r < 7 THEN convertToBCD(now[r + 1]) ELSE {})]}

MCAddresses == {3, 7}
MCValues == {{0, 4}}
MCPointer == [i \in 0 .. 3 |-> {i + 4}]
=============================================================================
