------------------------------- MODULE MCShell -------------------------------
(* The keys, among them one for each command word, but for those whose     *)
(* output another has too (m, ppm, panic, reboot, waitwrite).              *)
EXTENDS Shell

AllKeys ==
  {"enter", "bs", "up", "y", "space", "ls", "le", "help", "clear", "exit", "g", "fatinit",
   "shutdown", "color", "echo", "un"}
=============================================================================
