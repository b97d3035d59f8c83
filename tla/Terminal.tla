------------------------------ MODULE Terminal ------------------------------
(***************************************************************************)
(* The screen (drivers/vga.c) and those who write on it: the shell and its *)
(* commands (bin), the loop of kmain, and the echo of scanf. All of them   *)
(* go by one line counter, which may run ahead of the screen: print and    *)
(* update_cursor then scroll it, and the shell takes the counter back.     *)
(*                                                                         *)
(* What a command prints is a sequence of steps. A text is one character,  *)
(* any, several times, so that it shows when one is written over another.  *)
(* No text here is longer than the rest of its row.                        *)
(***************************************************************************)
EXTENDS Integers, Sequences

CONSTANTS
    Rows, Cols,  \* 25 and 80
    Lengths,     \* of texts that are printed
    Characters,  \* they are made of
    MaxLines,    \* how many lines a command prints, and a file has
    FetchLines   \* 15

ASSUME ScreenAssumption ==
    /\ Rows \in Nat /\ Rows > 5 /\ Cols \in Nat /\ Cols > 3
    /\ Lengths \subseteq 0 .. Cols - 2
    /\ MaxLines \in Nat /\ FetchLines \in Nat
    /\ Characters \cap {"blank", "prompt", "key"} = {}

VARIABLES
    screen,        \* the video memory, row after row
    cursor,        \* the position the video card was told
    current_line,
    cmd, todo,     \* the command in s_buf, and what it has still to do
    pc,            \* in scanf, on the way to shell_func, or in a command
    at, typed      \* row and column given to scanf, and how much it has read

vars == <<screen, cursor, current_line, cmd, todo, pc, at, typed>>

Cells == 0 .. Rows * Cols - 1
Marks == {"blank", "prompt", "key"} \cup Characters

-----------------------------------------------------------------------------
(* vga.c.                                                                   *)

clear_screen == [c \in Cells |-> "blank"]

\* Fault: the last row is left as it was.
scroll_keeps_last_row(s) ==
    [c \in Cells |-> IF c + Cols \in Cells THEN s[c + Cols] ELSE s[c]]

scroll_screen(s) == [c \in Cells |-> IF c + Cols \in Cells THEN s[c + Cols] ELSE "blank"]

\* Writes go to memory in a row, and those past the screen are not seen. The mark
\* is the character that a text consists of, or what a prompt or a key leaves.
Put(s, cell, len, mark) == [c \in Cells |-> IF c \in cell .. cell + len - 1 THEN mark ELSE s[c]]

print(s, row, col, len, mark) ==
    IF row >= Rows THEN Put(scroll_screen(s), (Rows - 1) * Cols + col, len, mark)
                   ELSE Put(s, row * Cols + col, len, mark)

update_cursor(s, x, y) ==
    /\ screen' = IF y >= Rows THEN scroll_screen(s) ELSE s
    /\ cursor' = (IF y >= Rows THEN Rows - 1 ELSE y) * Cols + x

-----------------------------------------------------------------------------
(* What the commands do on the screen. A part is printed on the row of what *)
(* follows it, or meant to be.                                              *)

Part(col, lens, marks) ==
    [do |-> "print", col |-> col, lens |-> lens, marks |-> marks, next |-> FALSE]
Line     == [Part(0, Lengths, Characters) EXCEPT !.next = TRUE]
Rest     == [Line EXCEPT !.col = 2]
Prompt   == Part(0, {2}, {"prompt"})
Clamp    == [Prompt EXCEPT !.do = "clamp"]
Clear    == [Prompt EXCEPT !.do = "clear"]
Ask      == [Prompt EXCEPT !.do = "scanf", !.col = 3]
Lines(n) == [i \in 1 .. n |-> Line]
\* A heading ends where what belongs behind it begins, but for a blank (disk.c:31-32,
\* shell.c:348-356).
Halves   == <<Part(0, {n \in Lengths : n <= 2}, Characters), Rest>>
Question == <<Prompt, [Part(2, {1}, Characters) EXCEPT !.next = TRUE], Ask>>

\* info, help, mkdir, ls, cd, rmdir, format and unknown commands.
builtin == {Lines(n) \o <<Prompt>> : n \in 0 .. MaxLines}

\* Fault: the counter is not moved on between the two lines.
mydir_on_one_line == {<<Part(0, Lengths, Characters)>> \o Lines(n) \o <<Prompt>> : n \in 0 .. 1}

mydir == {Lines(n) \o <<Prompt>> : n \in 1 .. 2}

touch == {Lines(n) \o <<Prompt>> : n \in 0 .. 1}
echo  == {<<Rest, Prompt>>}
clear == {<<Clear, Prompt>>}
\* Of the two files at the end each may be read or not.
test_fs == {Lines(n) \o halves \o <<Line, Prompt>> :
              n \in 1 .. MaxLines, halves \in {<<>>, Halves, Halves \o Halves}}

fetch == {Lines(FetchLines)}

\* Each line of the file is followed by a test of the counter, an error is not.
cat == {[i \in 1 .. 2 * n |-> IF i % 2 = 1 THEN Line ELSE Clamp] \o <<Prompt>> :
            n \in 0 .. MaxLines} \cup {<<Line, Prompt>>}

\* The counter is taken back before the prompt.
disk == {Lines(n) \o <<Clamp, Prompt>> : n \in 1 .. MaxLines}
          \cup {<<Line>> \o Halves \o Halves \o <<Line, Clamp, Prompt>>}

\* Three questions, perhaps a result, and a path where others have "/".
calc(path) == {Question \o Question \o Question \o Lines(n)
                 \o <<Part(0, {path}, {"prompt"}), Part(1, {1}, {"prompt"})>> : n \in 0 .. 1}

Commands == {"plain", "echo", "clear", "test_fs", "fetch", "cat", "disk", "calc", "calc_below_root"}

StepsOf(c) ==
    CASE c = "plain"   -> builtin \cup mydir \cup touch
      [] c = "echo"    -> echo
      [] c = "clear"   -> clear
      [] c = "test_fs" -> test_fs
      [] c = "fetch"   -> fetch
      [] c = "cat"     -> cat
      [] c = "disk"    -> disk
      [] c = "calc"    -> calc(1)
      [] OTHER         -> calc(3)

-----------------------------------------------------------------------------

Init ==
    /\ \E n \in Lengths \ {0}, char \in Characters :
         screen = print(print(print(clear_screen, 0, 1, n, char), 3, 0, n, char),
                        5, 0, 2, "prompt")
    /\ cursor = 0 /\ current_line = 5
    /\ cmd = "plain" /\ todo = <<>>
    /\ pc = "scanf" /\ at = [row |-> 5, col |-> 2] /\ typed = 0

Input == at.row * Cols + at.col

\* The bound keeps what is typed in its row. Every letter draws the prompt anew.
Letter ==
    /\ pc = "scanf" /\ at.col + typed < Cols
    /\ typed' = typed + 1
    /\ update_cursor(print(Put(screen, Input + typed, 1, "key"), at.row, 0, 2, "prompt"),
                     at.col + typed + 1, at.row)
    /\ UNCHANGED <<current_line, cmd, todo, pc, at>>

Backspace ==
    /\ pc = "scanf" /\ typed > 0
    /\ typed' = typed - 1
    /\ update_cursor(Put(screen, Input + typed - 1, 1, "blank"), at.col + typed - 1, at.row)
    /\ UNCHANGED <<current_line, cmd, todo, pc, at>>

Enter ==
    /\ pc = "scanf"
    /\ typed' = 0
    /\ update_cursor(screen, at.col, at.row + 2)
    /\ pc' = IF todo = <<>> THEN "shell" ELSE "command"
    /\ UNCHANGED <<current_line, cmd, todo, at>>

shell_func(c) ==
    /\ pc = "shell" /\ pc' = "command"
    /\ current_line' = current_line + 1
    /\ cmd' = c /\ todo' \in StepsOf(c)
    /\ UNCHANGED <<screen, cursor, at, typed>>

Clamped == IF current_line >= Rows THEN Rows - 1 ELSE current_line

\* The steps of a command.
Do(what) ==
    /\ pc = "command" /\ todo # <<>> /\ Head(todo).do = what
    /\ todo' = Tail(todo)
    /\ UNCHANGED <<cursor, cmd, typed>>

PrintPart ==
    /\ Do("print")
    /\ \E len \in Head(todo).lens, mark \in Head(todo).marks :
         screen' = print(screen, current_line, Head(todo).col, len, mark)
    /\ current_line' = current_line + (IF Head(todo).next THEN 1 ELSE 0)
    /\ UNCHANGED <<pc, at>>

TakeBack == Do("clamp") /\ current_line' = Clamped /\ UNCHANGED <<screen, pc, at>>

ClearScreen ==
    Do("clear") /\ screen' = clear_screen /\ current_line' = 1 /\ UNCHANGED <<pc, at>>

AskForLine ==
    /\ Do("scanf")
    /\ pc' = "scanf" /\ at' = [row |-> current_line - 1, col |-> Head(todo).col]
    /\ UNCHANGED <<screen, current_line>>

\* Fault: the counter is not taken back.
return_unclamped ==
    /\ pc = "command" /\ todo = <<>>
    /\ pc' = "scanf" /\ at' = [row |-> current_line, col |-> 2]
    /\ UNCHANGED <<screen, cursor, current_line, cmd, todo, typed>>

\* The end of shell_func, and kmain's next call of scanf.
Return ==
    /\ pc = "command" /\ todo = <<>>
    /\ current_line' = Clamped
    /\ pc' = "scanf" /\ at' = [row |-> Clamped, col |-> 2]
    /\ UNCHANGED <<screen, cursor, cmd, todo, typed>>

Next == \/ Letter \/ Backspace \/ Enter
        \/ \E c \in Commands : shell_func(c)
        \/ PrintPart \/ TakeBack \/ ClearScreen \/ AskForLine \/ Return

Spec == Init /\ [][Next]_vars
=============================================================================
