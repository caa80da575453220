------------------------------ MODULE MCShell ------------------------------
(* Shell on a screen of 5 by 2 cells, with names of up to three letters for  *)
(* the commands.                                                            *)
EXTENDS Shell, TLC

MCCommands ==
  (<<"a">> :> "echo") @@ (<<"b">> :> "clear") @@ (<<"a", "a">> :> "cat") @@
  (<<"a", "a", "a">> :> "help") @@ (<<"b", "b", "b">> :> "pwd") @@
  (<<"a", "b">> :> "ls") @@ (<<"b", "a">> :> "cd") @@ (<<"b", "b">> :> "exit")

MCBanner == <<"newline">>
MCPrompt == <<"a">>
MCMessage == <<"b", "newline">>
MCFileBlock == <<"a">>

\* The user types and nobody else prints; a thread prints while the user
\* types; two threads print.
MCBudgets == {[keys |-> 5, print |-> 0], [keys |-> 2, print |-> 1],
              [keys |-> 0, print |-> 3]}

Threads == Permutations(Writers \ {Shell})
============================================================================
