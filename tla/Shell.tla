------------------------------- MODULE Shell -------------------------------
(***************************************************************************)
(* The user shell (user/shell/shell.c) on the text console: readline with   *)
(* its echo, parse_line and the commands, each as the writes and the file   *)
(* system calls it makes.  The shell is one of the console's writers; the   *)
(* others are kernel threads.  What a message says is left out: every one   *)
(* is the constant Message.                                                 *)
(***************************************************************************)
EXTENDS Console

CONSTANTS
  Shell,       \* the shell's process, one of the writers
  Keys,        \* the keys that are typed
  Banner,      \* what it prints first
  PROMPT,
  MaxLine,     \* MAX_LINE
  MaxArgs,     \* MAX_ARGS
  Commands,    \* the command table: the names and what each is the name of
  Message,     \* any text the shell prints on its own account
  FileBlock,   \* what one read of a file returns to cat
  MaxBlocks    \* a bound on the reads until a file ends

ASSUME ShellAssumption ==
  /\ Shell \in Writers
  /\ MaxLine \in Nat /\ MaxLine > 1
  /\ MaxArgs \in Nat /\ MaxArgs > 1
  /\ PROMPT \in Seq(Printable)

VARIABLES
  at,        \* where the shell is
  line,      \* buf[0 .. pos - 1] of readline
  argv,
  fd,        \* the descriptor a command holds: the reads left, or Closed
  home,      \* history: the column in which the prompt began
  stuck,     \* history: a character was erased from column 0 since then
  alone      \* history: nobody else printed since then

Closed == -1
shellVars == <<at, line, argv, fd, home, stuck, alone>>
vars == <<consoleVars, shellVars>>

Init ==
  /\ ConsoleInit
  /\ at = "start" /\ line = <<>> /\ argv = <<>> /\ fd = Closed
  /\ home = 0 /\ stuck = FALSE /\ alone = TRUE

\* sys_write has returned: the shell is back in its own code.
Ready == pc[Shell] = "idle" /\ out[Shell] = <<>>

\* write(1, s, n): sys_write calls vga_putchar for each character.
write(s) ==
  /\ out' = [out EXCEPT ![Shell] = s]
  /\ UNCHANGED <<shared, private, history>>

----------------------------------------------------------------------------
(* The main loop and readline.                                             *)

Start ==
  /\ at = "start"
  /\ write(Banner)
  /\ at' = "prompt"
  /\ UNCHANGED <<budget, line, argv, fd, home, stuck, alone>>

Prompt ==
  /\ at = "prompt" /\ Ready
  /\ write(PROMPT)
  /\ at' = "read" /\ line' = <<>> /\ argv' = <<>>
  /\ home' = cursor_x /\ stuck' = FALSE
  /\ alone' = \A v \in Writers \ {Shell} : pc[v] = "idle"
  /\ UNCHANGED <<budget, fd>>

\* The line becomes l; the loop of readline ends when the buffer is full.
Line(l) ==
  /\ line' = l
  /\ at' = IF Len(l) < MaxLine - 1 THEN "read" ELSE "parse"

Enter ==
  /\ write(<<"newline">>)
  /\ at' = "parse"
  /\ UNCHANGED <<line, stuck>>

Ignore == UNCHANGED <<at, line, stuck, out, shared, private, history>>

Erased ==
  /\ Line(SubSeq(line, 1, Len(line) - 1))
  /\ stuck' = (stuck \/ cursor_x = 0)

\* A form of Backspace that erases on the screen even if the line is empty.
BackspaceEchoed ==
  /\ write(<<"backspace", " ", "backspace">>)
  /\ IF line = <<>> THEN UNCHANGED <<at, line, stuck>> ELSE Erased

Backspace ==
  IF line = <<>> THEN Ignore
  ELSE write(<<"backspace", " ", "backspace">>) /\ Erased

Character(c) == write(<<c>>) /\ Line(Append(line, c)) /\ UNCHANGED stuck

\* One turn of readline, getchar_blocking included: polling has no effect
\* until there is a key.
readline(key) ==
  /\ at = "read" /\ Ready /\ budget.keys > 0
  /\ CASE key \in {"newline", "return"} -> Enter
       [] key = "backspace" -> Backspace
       [] key \in Printable -> Character(key)
       [] OTHER -> Ignore
  /\ budget' = [budget EXCEPT !.keys = @ - 1]
  /\ UNCHANGED <<argv, fd, home, alone>>

\* A form of parse_line that keeps no room for the final NULL of argv.
parse_lineLast(l) ==
  LET n == Len(l)
      skip[p \in 1 .. n + 1] == IF p <= n /\ l[p] = " " THEN skip[p + 1] ELSE p
      end[p \in 1 .. n + 1]  == IF p <= n /\ l[p] # " " THEN end[p + 1] ELSE p
      args[p \in 1 .. n + 1, k \in 0 .. MaxArgs] ==
        LET s == skip[p]
            e == end[s]
        IN IF p > n \/ k = MaxArgs \/ s > n THEN <<>>
           ELSE <<SubSeq(l, s, e - 1)>> \o
                args[IF e <= n THEN e + 1 ELSE e, k + 1]
  IN args[1, 0]

\* parse_line: p is the position in the line, k is argc.
parse_line(l) ==
  LET n == Len(l)
      skip[p \in 1 .. n + 1] == IF p <= n /\ l[p] = " " THEN skip[p + 1] ELSE p
      end[p \in 1 .. n + 1]  == IF p <= n /\ l[p] # " " THEN end[p + 1] ELSE p
      args[p \in 1 .. n + 1, k \in 0 .. MaxArgs - 1] ==
        LET s == skip[p]
            e == end[s]
        IN IF p > n \/ k = MaxArgs - 1 \/ s > n THEN <<>>
           ELSE <<SubSeq(l, s, e - 1)>> \o
                args[IF e <= n THEN e + 1 ELSE e, k + 1]
  IN args[1, 0]

\* An empty line, or one of blanks only, leads back to the prompt.
Parse ==
  /\ at = "parse" /\ Ready
  /\ argv' = parse_line(line)
  /\ at' = IF argv' = <<>> THEN "prompt" ELSE "execute"
  /\ UNCHANGED <<consoleVars, line, fd, home, stuck, alone>>

----------------------------------------------------------------------------
(* execute_command and the commands.                                       *)

Command(args) ==
  IF args[1] \in DOMAIN Commands THEN Commands[args[1]] ELSE "unknown"

\* A command that prints s and is done.
say(s) == write(s) /\ at' = "prompt" /\ UNCHANGED fd

Repeated(c, n) == [i \in 1 .. n |-> c]

\* The arguments after the first word, one blank between two of them.
Joined(args) ==
  LET from[i \in 2 .. Len(args) + 1] ==
        IF i > Len(args) THEN <<>>
        ELSE (IF i > 2 THEN <<" ">> ELSE <<>>) \o args[i] \o from[i + 1]
  IN from[2]

\* help, pwd and a name that is not in the table.
Tell == Command(argv) \in {"help", "pwd", "unknown"} /\ say(Message)

cmd_echo ==
  Command(argv) = "echo" /\ say(Joined(argv) \o <<"newline">>)

\* A form of cmd_clear that is one newline short.
cmd_clearShort ==
  Command(argv) = "clear" /\ say(Repeated("newline", Height - 1))

cmd_clear == Command(argv) = "clear" /\ say(Repeated("newline", Height))

\* chdir succeeds and nothing is printed, or it fails.
cmd_cd ==
  Command(argv) = "cd" /\ (say(<<>>) \/ say(Message))

cmd_exit ==
  /\ Command(argv) = "exit"
  /\ write(Message) /\ at' = "exited" /\ UNCHANGED fd

\* open fails, or it returns a descriptor for a file of n blocks.
Open ==
  \/ say(Message)
  \/ \E n \in 0 .. MaxBlocks : fd' = n /\ at' = Command(argv) /\ write(<<>>)

cmd_cat ==
  /\ Command(argv) = "cat"
  /\ IF Len(argv) < 2 THEN say(Message) ELSE Open

\* The shell's S_IFDIR is not the kernel's, so fstat never reports a
\* directory to it: ls prints the path whatever the path names.
cmd_ls == Command(argv) = "ls" /\ Open

execute_command ==
  /\ at = "execute" /\ Ready
  /\ Tell \/ cmd_echo \/ cmd_clear \/ cmd_cd \/ cmd_exit \/ cmd_cat \/ cmd_ls
  /\ UNCHANGED <<budget, line, argv, home, stuck, alone>>

\* A turn of cat's loop: a block is read and written, or the file is closed.
CatLoop ==
  /\ at = "cat" /\ Ready
  /\ IF fd > 0 THEN write(FileBlock) /\ fd' = fd - 1 /\ UNCHANGED at
               ELSE write(<<>>) /\ fd' = Closed /\ at' = "prompt"
  /\ UNCHANGED <<budget, line, argv, home, stuck, alone>>

\* A form of LsName that returns without closing the descriptor.
LsNameKeeps ==
  /\ at = "ls" /\ Ready
  /\ write((IF Len(argv) > 1 THEN argv[2] ELSE Message) \o <<"newline">>)
  /\ at' = "prompt"
  /\ UNCHANGED <<budget, line, argv, fd, home, stuck, alone>>

LsName ==
  /\ at = "ls" /\ Ready
  /\ write((IF Len(argv) > 1 THEN argv[2] ELSE Message) \o <<"newline">>)
  /\ fd' = Closed /\ at' = "prompt"
  /\ UNCHANGED <<budget, line, argv, home, stuck, alone>>

----------------------------------------------------------------------------
ShellNext ==
  \/ Start \/ Prompt \/ (\E key \in Keys : readline(key)) \/ Parse
  \/ execute_command \/ CatLoop \/ LsName

Next ==
  \/ ShellNext
  \/ \E w \in Writers :
       /\ Step(w) \/ (w # Shell /\ kprintf(w))
       /\ alone' = (alone /\ w = Shell)
       /\ UNCHANGED <<at, line, argv, fd, home, stuck>>

Spec == Init /\ [][Next]_vars

----------------------------------------------------------------------------
\* The screen shows the prompt and then exactly the characters in readline's
\* buffer, from row to row as far as they have not scrolled away, and the
\* cursor is behind them.
Shown ==
  LET text == PROMPT \o line
      end  == home + Len(text)
  IN /\ cursor_x = end % Width
     /\ \A i \in 1 .. Len(text) :
          LET cell == home + i - 1
              r == cursor_y - (end \div Width) + (cell \div Width)
          IN r >= 0 => vga_buffer[vga_index(cell % Width, r)] = text[i]

\* While the user edits a line, and nobody else prints, readline's buffer is
\* what the screen shows, whatever was typed and erased before, also where
\* the line wraps at the edge of the screen or scrolls it, and however other
\* writers had torn the screen before the prompt.  Excepted is a line from
\* which a character was erased with the cursor in column 0.
LineShown == at = "read" /\ Ready /\ alone /\ ~stuck => Shown

\* "Supports backspace for editing" (readline's comment), at the edge of the
\* screen too.  It does not hold: vga_putchar does not take the cursor back
\* to the row above, so the character erased from the buffer stays there.
EditingShown == at = "read" /\ Ready /\ alone => Shown

\* The first and last positions of the words of a line.
Words(l) ==
  {w \in (1 .. Len(l)) \X (1 .. Len(l)) :
     /\ w[1] <= w[2] /\ \A i \in w[1] .. w[2] : l[i] # " "
     /\ w[1] = 1 \/ l[w[1] - 1] = " "
     /\ w[2] = Len(l) \/ l[w[2] + 1] = " "}

\* A command gets the words of the line, whole, in their order and from the
\* first on, as many as argv has room for beside its final NULL; blanks
\* before, between and after them make no difference.
ArgumentsParsed ==
  at = "execute" =>
    /\ Len(argv) = IF Cardinality(Words(line)) < MaxArgs - 1
                   THEN Cardinality(Words(line)) ELSE MaxArgs - 1
    /\ \A k \in 1 .. Len(argv) : \E w \in Words(line) :
         /\ argv[k] = SubSeq(line, w[1], w[2])
         /\ Cardinality({v \in Words(line) : v[1] < w[1]}) = k - 1

\* As long as no two writers overlapped, "clear" leaves a blank screen: its
\* newlines scroll away whatever row the cursor was in and all rows above.
ClearBlanks ==
  (/\ at = "prompt" /\ Ready /\ alone /\ ~torn
   /\ argv # <<>> /\ Command(argv) = "clear")
    => cursor_x = 0 /\ \A i \in DOMAIN vga_buffer : vga_buffer[i] = " "

\* No command leaves a descriptor open, however its calls ended: back at the
\* prompt the shell holds none.
DescriptorsClosed == at \in {"prompt", "read"} => fd = Closed
============================================================================
