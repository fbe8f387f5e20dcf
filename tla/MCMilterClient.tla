--------------------------- MODULE MCMilterClient ---------------------------
(* MilterClient with filters that skip different commands.                 *)
EXTENDS MilterClientProps, TLC

TestFlagSets ==
  {{}, {"C", "H"}, {"L"}, {"N", "B"}, {"M", "B"}, {"C", "H", "M", "R", "L", "N", "B"}}
=============================================================================
