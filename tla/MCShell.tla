------------------------------ MODULE MCShell -------------------------------
(* The lines typed at the shell.                                           *)
EXTENDS Shell

MCLines ==
  {<<"(", "echo", ";", "cat", "<", "f", ">", "h", ")", "|", "wc", "+", "g">>,
   <<"echo", "|", "cat", "|", "wc">>,
   <<"cat", ">", "f", "&">>,
   <<"echo", "|", "cat", "&", ";", "wc", "<", "f">>,
   <<"echo", "|", "nofile">>,
   <<"echo", "|", ")">>}
=============================================================================
