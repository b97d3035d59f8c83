--------------------------- MODULE TerminalProofs ---------------------------
(***************************************************************************)
(* Proofs about the screen of any size and commands of any length: how far *)
(* the counter runs, and that the screen is the end of what was written.   *)
(***************************************************************************)
EXTENDS TerminalProperties, NumberLemmas, SequenceTheorems

-----------------------------------------------------------------------------
(* What stands on a row, by what was printed there last.                    *)

Start(r) == r * Cols

BlankFrom(s, x) == \A c \in Cells : c >= x => s[c] = "blank"

\* Nothing, on this row and below.
FreeRow(s, line) == line < Rows => BlankFrom(s, Start(line))

\* The first half of a line, which ends where the second one begins.
HalfRow(s, line) == line < Rows => BlankFrom(s, Start(line) + 2)

\* A prompt. Below the screen each half of it is scrolled on its own.
PromptRow(s, line) ==
    LET row == IF line >= Rows THEN Rows - 1 ELSE line
    IN  /\ BlankFrom(s, Start(row) + 2)
        /\ \A c \in Start(row) .. Start(row) + 1 :
              s[c] = "prompt" \/ (s[c] = "blank" /\ line >= Rows)

\* The question of calc, which has moved the counter on.
AskedRow(s, line) ==
    line - 1 < Rows =>
        /\ BlankFrom(s, Start(line - 1) + 3)
        /\ \A c \in Start(line - 1) .. Start(line - 1) + 1 : s[c] = "prompt"

\* The path of a prompt, of one character or of three.
PathRow(s, line) ==
    line < Rows => BlankFrom(s, Start(line) + 1) /\ s[Start(line)] = "prompt"

LongRow(s, line) ==
    line < Rows => /\ BlankFrom(s, Start(line) + 3)
                   /\ \A c \in Start(line) .. Start(line) + 2 : s[c] = "prompt"

SpoiledRow(s, line) == line < Rows => BlankFrom(s, Start(line) + 3)

Stands(kind, s, line) ==
    /\ kind = "free" => FreeRow(s, line)
    /\ kind = "half" => HalfRow(s, line)
    /\ kind = "prompted" => PromptRow(s, line)
    /\ kind = "asked" => AskedRow(s, line)
    /\ kind = "path" => PathRow(s, line)
    /\ kind = "long" => LongRow(s, line)
    /\ kind = "spoiled" => SpoiledRow(s, line)

-----------------------------------------------------------------------------
(* The course of a command: before each of its parts, what stands on the    *)
(* row, and how far the counter may have run.                               *)

Half    == Part(0, {n \in Lengths : n <= 2}, Characters)
Result  == [Part(2, {1}, Characters) EXCEPT !.next = TRUE]
Path(n) == Part(0, {n}, {"prompt"})
Angle   == Part(1, {1}, {"prompt"})
Parts   == {Line, Half, Rest, Prompt, Result, Ask, Clamp, Clear, Path(1), Path(3), Angle}

Limit == Rows + MaxLines + FetchLines + 5
Kinds == {"free", "half", "prompted", "asked", "path", "long", "spoiled"}
Stops == [high : 1 .. Limit, row : Kinds]
Stop(h, k) == [high |-> h, row |-> k]
Calcs == {"calc", "calc_below_root"}

\* Part x of command c leads from stop v to stop u.
Turn(c, x, v, u) ==
    \/ x = Line    /\ v.row = "free"     /\ u.row = "free"     /\ u.high = v.high + 1
    \/ x = Half    /\ v.row = "free"     /\ u.row = "half"     /\ u.high = v.high
    \/ x = Rest    /\ v.row \in {"free", "half"} /\ u.row = "free" /\ u.high = v.high + 1
    \/ x = Prompt  /\ v.row = "free"     /\ u.row = "prompted" /\ u.high = v.high
    \/ x = Result  /\ v.row = "prompted" /\ u.row = "asked"    /\ u.high = v.high + 1
                   /\ c \in Calcs
    \/ x = Ask     /\ v.row = "asked"    /\ u.row = "free"     /\ u.high = v.high
                   /\ c \in Calcs /\ v.high <= Rows + 3
    \/ x = Clamp   /\ v.row = "free"     /\ u.row = "free"     /\ u.high = Rows
                   /\ c \in {"cat", "disk"}
    \/ x = Clear   /\ v.row = "free"     /\ u.row = "free"     /\ u.high = v.high
    \/ x = Path(1) /\ v.row = "free"     /\ u.row = "path"     /\ u.high = v.high
    \/ x = Path(3) /\ v.row = "free"     /\ u.row = "long"     /\ u.high = v.high
    \/ x = Angle   /\ v.row = "path"     /\ u.row = "prompted" /\ u.high = v.high
    \/ x = Angle   /\ v.row = "long"     /\ u.row = "spoiled"  /\ u.high = v.high

\* The parts t lead from stop v to stop u.
Leads(c, t, v, u) ==
    /\ t \in Seq(Parts)
    /\ \E w \in [1 .. Len(t) + 1 -> Stops] :
          /\ w[1] = v /\ w[Len(t) + 1] = u
          /\ \A i \in 1 .. Len(t) : Turn(c, t[i], w[i], w[i + 1])

\* What a command leaves on the row where it ends.
LastRow(c) ==
    CASE c = "fetch"           -> "free"
      [] c = "calc_below_root" -> "spoiled"
      [] OTHER                 -> "prompted"

Planned(c, t, v) == \E u \in Stops : Leads(c, t, v, u) /\ u.row = LastRow(c)

-----------------------------------------------------------------------------
(* The inductive invariant.                                                 *)

\* Where cat, disk and fetch may meet a row that is not empty.
Exempt == cmd \in {"cat", "disk", "fetch"} /\ current_line = Rows - 1

Running ==
    pc = "command" =>
        /\ current_line >= 1
        /\ \E v \in Stops : /\ Planned(cmd, todo, v) /\ current_line <= v.high
                            /\ Exempt \/ Stands(v.row, screen, current_line)

\* In a question of calc.
Asking ==
    pc = "scanf" /\ todo # <<>> =>
        /\ current_line \in 1 .. Rows + 3 /\ at = [row |-> current_line - 1, col |-> 3]
        /\ \E v \in Stops :
              v.row = "free" /\ Planned(cmd, todo, v) /\ current_line <= v.high

\* In the scanf of kmain, or on the way from there to shell_func.
Waiting ==
    /\ pc = "shell" => todo = <<>>
    /\ pc # "command" /\ todo = <<>> =>
          current_line \in 0 .. Rows - 1 /\ at = [row |-> current_line, col |-> 2]

\* Nothing stands below the line that is typed.
Below == pc # "command" => FreeRow(screen, at.row + 1)

\* The line that is typed stands behind a prompt, if any.
Typing ==
    /\ typed > 0 => pc = "scanf"
    /\ at.col + typed <= Cols
    /\ pc = "scanf" /\ ~Crowded =>
          /\ BlankFrom(screen, Start(at.row) + at.col + typed)
          /\ \A c \in Start(at.row) + at.col .. Start(at.row) + at.col + typed - 1 : screen[c] = "key"
          /\ \A c \in Start(at.row) .. Start(at.row) + 1 :
                screen[c] = "prompt" \/ (screen[c] = "blank" /\ typed = 0 /\ at.col = 2)
          /\ typed > 0 => cursor = Start(at.row) + at.col + typed

TInv == TypeOK /\ Running /\ Asking /\ Waiting /\ Below /\ Typing

-----------------------------------------------------------------------------
(* The screen, row after row.                                               *)

\* Rows follow each other without gaps, and the screen ends with the last one.
LEMMA RowsFollow ==
    /\ Rows \in Nat /\ Rows > 5 /\ Cols \in Nat /\ Cols > 3
    /\ \A r \in Int : Start(r) \in Int /\ Start(r + 1) = Start(r) + Cols
    /\ \A r \in Nat : Start(r) >= 0
    /\ Cells = 0 .. Start(Rows) - 1 /\ Start(Rows) = Start(Rows - 1) + Cols
<1>1. Rows \in Nat /\ Rows > 5 /\ Cols \in Nat /\ Cols > 3
  BY ScreenAssumption
<1>2. \A r \in Int : Start(r) \in Int /\ Start(r + 1) = Start(r) + Cols
  BY <1>1 DEF Start
<1>3. \A r \in Nat : Start(r) >= 0
  BY <1>1 DEF Start
<1>4. Start(Rows) = Start(Rows - 1) + Cols
  <2>1. Start((Rows - 1) + 1) = Start(Rows - 1) + Cols
    BY <1>1, <1>2
  <2>2. (Rows - 1) + 1 = Rows
    BY <1>1
  <2> QED BY <2>1, <2>2
<1>5. Cells = 0 .. Start(Rows) - 1
  BY DEF Cells, Start
<1> QED BY <1>1, <1>2, <1>3, <1>4, <1>5

\* A row above another starts before it.
LEMMA RowsAscend ==
    ASSUME NEW r \in Int, NEW q \in Int, r <= q
    PROVE  Start(r) <= Start(q)
<1>1. Cols \in Nat
  BY ScreenAssumption
<1>2. (q - r) * Cols >= 0
  BY <1>1
<1>3. (q - r) * Cols = q * Cols - r * Cols
  BY <1>1
<1> QED BY <1>1, <1>2, <1>3 DEF Start

\* Rows on the screen are there in full, and those below it not at all.
LEMMA RowsFit ==
    ASSUME NEW r \in Nat
    PROVE  /\ r < Rows => Start(r) + Cols <= Start(Rows)
           /\ r >= Rows => Start(r) >= Start(Rows)
<1>1. r < Rows => Start(r + 1) <= Start(Rows)
  BY RowsFollow, RowsAscend
<1>2. r >= Rows => Start(r) >= Start(Rows)
  BY RowsFollow, RowsAscend
<1> QED BY <1>1, <1>2, RowsFollow

\* The last row.
LEMMA LastRowStarts == Start(Rows - 1) \in Nat
<1>1. Rows - 1 \in Nat
  BY RowsFollow
<1> QED BY <1>1, RowsFollow

\* The cell above, but for the first row.
LEMMA CellAbove ==
    ASSUME NEW c \in Cells, c >= Cols
    PROVE  c - Cols \in Cells /\ (c - Cols) + Cols = c
<1>1. PICK n, w : n = Start(Rows) /\ w = Cols /\ n \in Int /\ w \in Nat
  <2>1. Rows \in Int /\ Cols \in Nat
    BY RowsFollow
  <2>2. Start(Rows) \in Int
    BY <2>1, RowsFollow
  <2> QED BY <2>1, <2>2
<1>2. c \in 0 .. n - 1
  BY <1>1, RowsFollow
<1>3. c - w \in 0 .. n - 1 /\ (c - w) + w = c
  BY <1>1, <1>2
<1> QED BY <1>1, <1>3, RowsFollow

\* What a write leaves in each cell.
LEMMA PutCells ==
    ASSUME NEW s \in [Cells -> Marks], NEW x \in Int, NEW len \in Int, NEW mark \in Marks
    PROVE  /\ Put(s, x, len, mark) \in [Cells -> Marks]
           /\ \A c \in Cells : Put(s, x, len, mark)[c] =
                 IF x <= c /\ c < x + len THEN mark ELSE s[c]
<1>1. Cells \subseteq Int
  BY RowsFollow
<1>2. ASSUME NEW c \in Cells
      PROVE  c \in x .. x + len - 1 <=> x <= c /\ c < x + len
  BY <1>1
<1> QED BY <1>2 DEF Put

\* What scrolling leaves in each cell.
LEMMA ScrollCells ==
    ASSUME NEW s \in [Cells -> Marks]
    PROVE  /\ scroll_screen(s) \in [Cells -> Marks]
           /\ \A c \in Cells : scroll_screen(s)[c] =
                 IF c < Start(Rows - 1) THEN s[c + Cols] ELSE "blank"
           /\ \A c \in Cells : c < Start(Rows - 1) <=> c + Cols \in Cells
<1>1. \A c \in Cells : c < Start(Rows - 1) <=> c + Cols \in Cells
  <2>1. Rows - 1 \in Int
    BY RowsFollow
  <2>2. Start(Rows - 1) \in Int
    BY <2>1, RowsFollow
  <2>3. PICK last : last = Start(Rows - 1)
    OBVIOUS
  <2>4. last \in Int /\ Cols \in Nat /\ Cells = 0 .. (last + Cols) - 1
    BY <2>2, <2>3, RowsFollow
  <2>5. \A c \in Cells : c < last <=> c + Cols \in Cells
    BY <2>4
  <2> QED BY <2>3, <2>5
<1>2. ASSUME NEW c \in Cells
      PROVE  /\ scroll_screen(s)[c] = IF c < Start(Rows - 1) THEN s[c + Cols] ELSE "blank"
             /\ scroll_screen(s)[c] \in Marks
  <2>1. scroll_screen(s)[c] = IF c + Cols \in Cells THEN s[c + Cols] ELSE "blank"
    BY DEF scroll_screen
  <2>2. CASE c < Start(Rows - 1)
    <3>1. c + Cols \in Cells
      BY <1>1, <2>2
    <3> QED BY <2>1, <2>2, <3>1
  <2>3. CASE ~ c < Start(Rows - 1)
    <3>1. c + Cols \notin Cells
      BY <1>1, <2>3
    <3> QED BY <2>1, <2>3, <3>1 DEF Marks
  <2> QED BY <2>2, <2>3
<1>3. scroll_screen(s) = [c \in Cells |-> scroll_screen(s)[c]]
  BY DEF scroll_screen
<1> QED BY <1>1, <1>2, <1>3

\* A text is printed where it should be, or on the last row of a screen that is
\* scrolled for it.
LEMMA PrintPlace ==
    ASSUME NEW s, NEW row, NEW col, NEW len, NEW mark
    PROVE  print(s, row, col, len, mark) =
             IF row >= Rows THEN Put(scroll_screen(s), Start(Rows - 1) + col, len, mark)
                            ELSE Put(s, Start(row) + col, len, mark)
BY DEF print, Start

-----------------------------------------------------------------------------
(* The course of each command.                                              *)

\* Nothing to do leads nowhere.
LEMMA LeadsNowhere ==
    ASSUME NEW c, NEW v \in Stops
    PROVE  /\ Leads(c, <<>>, v, v)
           /\ \A u : Leads(c, <<>>, v, u) => u = v
<1>1. <<>> \in Seq(Parts) /\ Len(<<>>) = 0
  OBVIOUS
<1>2. Leads(c, <<>>, v, v)
  <2> DEFINE w == [i \in 1 .. 1 |-> v]
  <2>1. w \in [1 .. Len(<<>>) + 1 -> Stops] /\ w[1] = v /\ w[Len(<<>>) + 1] = v
    BY <1>1
  <2>2. \A i \in 1 .. Len(<<>>) : Turn(c, <<>>[i], w[i], w[i + 1])
    BY <1>1
  <2> HIDE DEF w
  <2> QED BY <1>1, <2>1, <2>2 DEF Leads
<1>3. \A u : Leads(c, <<>>, v, u) => u = v
  BY <1>1 DEF Leads
<1> QED BY <1>2, <1>3

\* One part makes one turn.
LEMMA LeadsOne ==
    ASSUME NEW c, NEW x \in Parts, NEW v \in Stops, NEW u \in Stops, Turn(c, x, v, u)
    PROVE  Leads(c, <<x>>, v, u)
<1> DEFINE t == <<x>>
           w == [i \in 1 .. 2 |-> IF i = 1 THEN v ELSE u]
<1>1. t \in Seq(Parts) /\ Len(t) = 1 /\ t[1] = x
  OBVIOUS
<1>2. w \in [1 .. 2 -> Stops] /\ w[1] = v /\ w[2] = u
  OBVIOUS
<1> HIDE DEF t, w
<1>3. w \in [1 .. Len(t) + 1 -> Stops] /\ w[Len(t) + 1] = u
  BY <1>1, <1>2
<1>4. ASSUME NEW i \in 1 .. Len(t)
      PROVE  Turn(c, t[i], w[i], w[i + 1])
  <2>1. i = 1 /\ i + 1 = 2
    BY <1>1
  <2> QED BY <1>1, <1>2, <2>1
<1>5. Leads(c, t, v, u)
  BY <1>1, <1>2, <1>3, <1>4 DEF Leads
<1> QED BY <1>5 DEF t

\* Courses go on from each other.
LEMMA LeadsOn ==
    ASSUME NEW c, NEW s, NEW t, NEW v, NEW z, NEW u, Leads(c, s, v, z), Leads(c, t, z, u)
    PROVE  Leads(c, s \o t, v, u)
<1>1. PICK x \in [1 .. Len(s) + 1 -> Stops] :
        /\ x[1] = v /\ x[Len(s) + 1] = z
        /\ \A i \in 1 .. Len(s) : Turn(c, s[i], x[i], x[i + 1])
  BY DEF Leads
<1>2. PICK y \in [1 .. Len(t) + 1 -> Stops] :
        /\ y[1] = z /\ y[Len(t) + 1] = u
        /\ \A i \in 1 .. Len(t) : Turn(c, t[i], y[i], y[i + 1])
  BY DEF Leads
<1>3. s \in Seq(Parts) /\ t \in Seq(Parts)
  BY DEF Leads
<1>4. PICK m, n : m = Len(s) /\ n = Len(t) /\ m \in Nat /\ n \in Nat
  BY <1>3, LenProperties
<1>5. PICK q : q = s \o t
  OBVIOUS
<1>6. /\ q \in Seq(Parts) /\ Len(q) = m + n
      /\ \A i \in 1 .. m + n : q[i] = IF i <= m THEN s[i] ELSE t[i - m]
  BY <1>3, <1>4, <1>5, ConcatProperties
<1> DEFINE w == [i \in 1 .. m + n + 1 |-> IF i <= m THEN x[i] ELSE y[i - m]]
<1>7. w \in [1 .. m + n + 1 -> Stops] /\ w[1] = v /\ w[m + n + 1] = u
  <2>1. ASSUME NEW i \in 1 .. m + n + 1 PROVE w[i] \in Stops
    <3>1. CASE i <= m
      BY <1>4, <3>1
    <3>2. CASE ~ i <= m
      <4>1. i - m \in 1 .. n + 1
        BY <1>4, <3>2
      <4> QED BY <1>4, <3>2, <4>1
    <3> QED BY <3>1, <3>2
  <2>2. w[1] = v
    BY <1>1, <1>2, <1>4
  <2>3. w[m + n + 1] = u
    BY <1>2, <1>4
  <2> QED BY <2>1, <2>2, <2>3
<1>8. ASSUME NEW i \in 1 .. m + n
      PROVE  Turn(c, q[i], w[i], w[i + 1])
  <2>1. CASE i < m
    <3>1. w[i] = x[i] /\ w[i + 1] = x[i + 1] /\ q[i] = s[i] /\ i \in 1 .. m
      BY <1>4, <1>6, <2>1
    <3> QED BY <1>1, <1>4, <3>1
  <2>2. CASE i = m
    <3>1. w[i] = x[i] /\ w[i + 1] = y[1] /\ q[i] = s[i] /\ i \in 1 .. m
      BY <1>4, <1>6, <2>2
    <3>2. w[i + 1] = x[i + 1]
      BY <1>1, <1>2, <1>4, <2>2, <3>1
    <3> HIDE DEF w
    <3> QED BY <1>1, <1>4, <3>1, <3>2
  <2>3. CASE i > m
    <3>1. PICK j : j = i - m
      OBVIOUS
    <3>2. j \in 1 .. n /\ w[i] = y[j] /\ w[i + 1] = y[j + 1] /\ q[i] = t[j]
      BY <1>4, <1>6, <2>3, <3>1
    <3> HIDE DEF w
    <3> QED BY <1>2, <1>4, <3>2
  <2> QED BY <1>4, <2>1, <2>2, <2>3
<1> HIDE DEF w
<1>9. Leads(c, q, v, u)
  BY <1>4, <1>6, <1>7, <1>8 DEF Leads
<1> QED BY <1>5, <1>9

\* The rest of a course starts where its first turn leads.
LEMMA LeadsAway ==
    ASSUME NEW c, NEW t, NEW v, NEW u, Leads(c, t, v, u), t # <<>>
    PROVE  /\ Head(t) \in Parts
           /\ \E z \in Stops : Turn(c, Head(t), v, z) /\ Leads(c, Tail(t), z, u)
<1>1. t \in Seq(Parts)
  BY DEF Leads
<1>2. PICK w \in [1 .. Len(t) + 1 -> Stops] :
        /\ w[1] = v /\ w[Len(t) + 1] = u
        /\ \A i \in 1 .. Len(t) : Turn(c, t[i], w[i], w[i + 1])
  BY DEF Leads
<1>3. PICK n : n = Len(t) /\ n \in Nat \ {0}
  BY <1>1, EmptySeq
<1>4. PICK s : s = Tail(t)
  OBVIOUS
<1>5. /\ Head(t) \in Parts /\ s \in Seq(Parts) /\ Len(s) = n - 1
      /\ \A i \in 1 .. n - 1 : s[i] = t[i + 1]
  BY <1>1, <1>3, <1>4, HeadTailProperties
<1>6. Head(t) = t[1]
  BY <1>1
<1> DEFINE y == [i \in 1 .. n |-> w[i + 1]]
<1>7. y \in [1 .. n -> Stops] /\ y[1] = w[2] /\ y[n] = u /\ w[2] \in Stops
  BY <1>2, <1>3
<1>8. ASSUME NEW i \in 1 .. n - 1
      PROVE  Turn(c, s[i], y[i], y[i + 1])
  <2>1. i + 1 \in 1 .. n
    BY <1>3
  <2>2. Turn(c, t[i + 1], w[i + 1], w[(i + 1) + 1])
    BY <1>2, <1>3, <2>1
  <2>3. y[i] = w[i + 1] /\ y[i + 1] = w[(i + 1) + 1]
    BY <1>3
  <2> HIDE DEF y
  <2> QED BY <1>5, <2>2, <2>3
<1>9. (n - 1) + 1 = n
  BY <1>3
<1> HIDE DEF y
<1>10. Leads(c, s, w[2], u)
  BY <1>3, <1>5, <1>7, <1>8, <1>9 DEF Leads
<1>11. Turn(c, Head(t), v, w[2])
  <2>1. 1 \in 1 .. n /\ 1 + 1 = 2
    BY <1>3
  <2>2. Turn(c, t[1], w[1], w[1 + 1])
    BY <1>2, <1>3, <2>1
  <2> QED BY <1>2, <1>6, <2>1, <2>2
<1> QED BY <1>4, <1>5, <1>7, <1>10, <1>11

\* The parts that commands are made of.
LEMMA PartValues ==
    /\ Line.do = "print" /\ Line.col = 0 /\ Line.lens = Lengths /\ Line.marks = Characters /\ Line.next
    /\ Half.do = "print" /\ Half.col = 0 /\ Half.lens = {n \in Lengths : n <= 2}
    /\ Half.marks = Characters /\ ~Half.next
    /\ Rest.do = "print" /\ Rest.col = 2 /\ Rest.lens = Lengths /\ Rest.marks = Characters /\ Rest.next
    /\ Prompt.do = "print" /\ Prompt.col = 0 /\ Prompt.lens = {2} /\ Prompt.marks = {"prompt"}
    /\ ~Prompt.next
    /\ Result.do = "print" /\ Result.col = 2 /\ Result.lens = {1} /\ Result.marks = Characters /\ Result.next
    /\ Ask.do = "scanf" /\ Ask.col = 3 /\ Clamp.do = "clamp" /\ Clear.do = "clear"
    /\ \A n : /\ Path(n).do = "print" /\ Path(n).col = 0 /\ Path(n).lens = {n}
              /\ Path(n).marks = {"prompt"} /\ ~Path(n).next
    /\ Angle.do = "print" /\ Angle.col = 1 /\ Angle.lens = {1} /\ Angle.marks = {"prompt"} /\ ~Angle.next
BY DEF Line, Half, Rest, Prompt, Result, Ask, Clamp, Clear, Path, Angle, Part

\* A stop of a course.
LEMMA StopTypes ==
    ASSUME NEW h \in 1 .. Limit, NEW k \in Kinds
    PROVE  Stop(h, k) \in Stops /\ Stop(h, k).high = h /\ Stop(h, k).row = k
BY DEF Stop, Stops

\* The numbers that stops have to stay within.
LEMMA Limits ==
    /\ Limit \in Nat /\ Rows \in Nat /\ Rows > 5 /\ MaxLines \in Nat /\ FetchLines \in Nat
    /\ Limit = Rows + MaxLines + FetchLines + 5
BY ScreenAssumption DEF Limit

\* Each turn on its own.
LEMMA LeadsLine ==
    ASSUME NEW c, NEW h \in 1 .. Limit - 1
    PROVE  /\ Leads(c, <<Line>>, Stop(h, "free"), Stop(h + 1, "free"))
           /\ Leads(c, <<Rest>>, Stop(h, "free"), Stop(h + 1, "free"))
           /\ Leads(c, <<Rest>>, Stop(h, "half"), Stop(h + 1, "free"))
           /\ c \in Calcs => Leads(c, <<Result>>, Stop(h, "prompted"), Stop(h + 1, "asked"))
<1>1. h \in 1 .. Limit /\ h + 1 \in 1 .. Limit
  BY Limits
<1>2. {"free", "half", "prompted", "asked"} \subseteq Kinds
  BY DEF Kinds
<1>3. /\ Stop(h, "free") \in Stops /\ Stop(h, "half") \in Stops /\ Stop(h, "prompted") \in Stops
      /\ Stop(h + 1, "free") \in Stops /\ Stop(h + 1, "asked") \in Stops
  BY <1>1, <1>2, StopTypes
<1>4. /\ Turn(c, Line, Stop(h, "free"), Stop(h + 1, "free"))
      /\ Turn(c, Rest, Stop(h, "free"), Stop(h + 1, "free"))
      /\ Turn(c, Rest, Stop(h, "half"), Stop(h + 1, "free"))
      /\ c \in Calcs => Turn(c, Result, Stop(h, "prompted"), Stop(h + 1, "asked"))
  BY DEF Turn, Stop
<1>5. Line \in Parts /\ Rest \in Parts /\ Result \in Parts
  BY DEF Parts
<1> QED BY <1>3, <1>4, <1>5, LeadsOne

\* The turns that stay on the row.
LEMMA LeadsInRow ==
    ASSUME NEW c, NEW h \in 1 .. Limit
    PROVE  /\ Leads(c, <<Half>>, Stop(h, "free"), Stop(h, "half"))
           /\ Leads(c, <<Prompt>>, Stop(h, "free"), Stop(h, "prompted"))
           /\ Leads(c, <<Clear>>, Stop(h, "free"), Stop(h, "free"))
           /\ Leads(c, <<Path(1)>>, Stop(h, "free"), Stop(h, "path"))
           /\ Leads(c, <<Path(3)>>, Stop(h, "free"), Stop(h, "long"))
           /\ Leads(c, <<Angle>>, Stop(h, "path"), Stop(h, "prompted"))
           /\ Leads(c, <<Angle>>, Stop(h, "long"), Stop(h, "spoiled"))
           /\ c \in Calcs /\ h <= Rows + 3 =>
                 Leads(c, <<Ask>>, Stop(h, "asked"), Stop(h, "free"))
           /\ c \in {"cat", "disk"} => Leads(c, <<Clamp>>, Stop(h, "free"), Stop(Rows, "free"))
<1>1. \A k \in Kinds : Stop(h, k) \in Stops
  BY StopTypes
<1>2. /\ Stop(h, "free") \in Stops /\ Stop(h, "half") \in Stops /\ Stop(h, "prompted") \in Stops
      /\ Stop(h, "path") \in Stops /\ Stop(h, "long") \in Stops /\ Stop(h, "spoiled") \in Stops
      /\ Stop(h, "asked") \in Stops
  BY <1>1 DEF Kinds
<1>3. Stop(Rows, "free") \in Stops
  <2>1. Rows \in 1 .. Limit
    BY Limits
  <2> QED BY <2>1, StopTypes DEF Kinds
<1>4. /\ Turn(c, Half, Stop(h, "free"), Stop(h, "half"))
      /\ Turn(c, Prompt, Stop(h, "free"), Stop(h, "prompted"))
      /\ Turn(c, Clear, Stop(h, "free"), Stop(h, "free"))
      /\ Turn(c, Path(1), Stop(h, "free"), Stop(h, "path"))
      /\ Turn(c, Path(3), Stop(h, "free"), Stop(h, "long"))
      /\ Turn(c, Angle, Stop(h, "path"), Stop(h, "prompted"))
      /\ Turn(c, Angle, Stop(h, "long"), Stop(h, "spoiled"))
  BY DEF Turn, Stop
<1>5. c \in Calcs /\ h <= Rows + 3 => Turn(c, Ask, Stop(h, "asked"), Stop(h, "free"))
  BY DEF Turn, Stop
<1>6. c \in {"cat", "disk"} => Turn(c, Clamp, Stop(h, "free"), Stop(Rows, "free"))
  BY DEF Turn, Stop
<1>7. /\ Half \in Parts /\ Prompt \in Parts /\ Clear \in Parts /\ Path(1) \in Parts
      /\ Path(3) \in Parts /\ Angle \in Parts /\ Ask \in Parts /\ Clamp \in Parts
  BY DEF Parts
<1> QED BY <1>2, <1>3, <1>4, <1>5, <1>6, <1>7, LeadsOne

\* Lines move the counter on by as many rows.
LEMMA LeadsLines ==
    ASSUME NEW c, NEW n \in Nat, NEW h \in 1 .. Limit, h + n <= Limit
    PROVE  Leads(c, Lines(n), Stop(h, "free"), Stop(h + n, "free"))
<1> DEFINE w == [i \in 1 .. n + 1 |-> Stop(h + i - 1, "free")]
<1>1. PICK t : t = Lines(n)
  OBVIOUS
<1>2. t \in Seq(Parts) /\ Len(t) = n /\ \A i \in 1 .. n : t[i] = Line
  BY <1>1 DEF Lines, Parts
<1>3. \A i \in 1 .. n + 1 : h + i - 1 \in 1 .. Limit
  BY Limits
<1>4. \A i \in 1 .. n + 1 : Stop(h + i - 1, "free") \in Stops
  BY <1>3, StopTypes DEF Kinds
<1>5. w \in [1 .. n + 1 -> Stops] /\ w[1] = Stop(h, "free") /\ w[n + 1] = Stop(h + n, "free")
  <2>1. w \in [1 .. n + 1 -> Stops]
    BY <1>4
  <2>2. 1 \in 1 .. n + 1 /\ n + 1 \in 1 .. n + 1 /\ h + 1 - 1 = h /\ h + (n + 1) - 1 = h + n
    BY Limits
  <2> QED BY <2>1, <2>2
<1>6. ASSUME NEW i \in 1 .. n
      PROVE  Turn(c, t[i], w[i], w[i + 1])
  <2>1. i \in 1 .. n + 1 /\ i + 1 \in 1 .. n + 1 /\ h + (i + 1) - 1 = (h + i - 1) + 1
    BY Limits
  <2>2. w[i] = Stop(h + i - 1, "free") /\ w[i + 1] = Stop((h + i - 1) + 1, "free")
    BY <2>1
  <2>3. Turn(c, Line, Stop(h + i - 1, "free"), Stop((h + i - 1) + 1, "free"))
    BY DEF Turn, Stop
  <2> HIDE DEF w
  <2> QED BY <1>2, <2>2, <2>3
<1> HIDE DEF w
<1>7. Leads(c, t, Stop(h, "free"), Stop(h + n, "free"))
  BY <1>2, <1>5, <1>6 DEF Leads
<1> QED BY <1>1, <1>7

\* A sequence of two or three parts, put together.
LEMMA TwoParts ==
    ASSUME NEW a \in Parts, NEW b \in Parts
    PROVE  <<a>> \o <<b>> = <<a, b>>
<1>1. <<a>> \in Seq(Parts) /\ <<b>> \in Seq(Parts) /\ <<a, b>> \in Seq(Parts)
  OBVIOUS
<1>2. Len(<<a>> \o <<b>>) = 2 /\ \A i \in 1 .. 2 : (<<a>> \o <<b>>)[i] = <<a, b>>[i]
  OBVIOUS
<1>3. <<a>> \o <<b>> \in Seq(Parts)
  BY <1>1, ConcatProperties
<1> QED BY <1>1, <1>2, <1>3, SeqEqual

\* The same for one part and two.
LEMMA ThreeParts ==
    ASSUME NEW a \in Parts, NEW b \in Parts, NEW c \in Parts
    PROVE  <<a>> \o (<<b>> \o <<c>>) = <<a, b, c>>
<1>1. <<a>> \in Seq(Parts) /\ <<b, c>> \in Seq(Parts) /\ <<a, b, c>> \in Seq(Parts)
  OBVIOUS
<1>2. Len(<<a>> \o <<b, c>>) = 3 /\ \A i \in 1 .. 3 : (<<a>> \o <<b, c>>)[i] = <<a, b, c>>[i]
  OBVIOUS
<1>3. <<a>> \o <<b, c>> \in Seq(Parts)
  BY <1>1, ConcatProperties
<1>4. <<a>> \o <<b, c>> = <<a, b, c>>
  BY <1>1, <1>2, <1>3, SeqEqual
<1> QED BY <1>4, TwoParts

\* A line in two halves.
LEMMA LeadsHalves ==
    ASSUME NEW c, NEW h \in 1 .. Limit - 1
    PROVE  Leads(c, Halves, Stop(h, "free"), Stop(h + 1, "free"))
<1>1. Leads(c, <<Half>>, Stop(h, "free"), Stop(h, "half"))
  BY Limits, LeadsInRow
<1>2. Leads(c, <<Rest>>, Stop(h, "half"), Stop(h + 1, "free"))
  BY LeadsLine
<1>3. Leads(c, <<Half>> \o <<Rest>>, Stop(h, "free"), Stop(h + 1, "free"))
  BY <1>1, <1>2, LeadsOn
<1>4. Halves = <<Half>> \o <<Rest>>
  <2>1. PICK a, b : a = Half /\ b = Rest /\ a \in Parts /\ b \in Parts
    BY DEF Parts
  <2>2. Halves = <<a, b>>
    BY <2>1 DEF Halves, Half
  <2> QED BY <2>1, <2>2, TwoParts
<1> QED BY <1>3, <1>4

\* A question of calc, at the row after which it asks.
LEMMA LeadsQuestion ==
    ASSUME NEW c \in Calcs, NEW h \in 1 .. Rows + 2
    PROVE  Leads(c, Question, Stop(h, "free"), Stop(h + 1, "free"))
<1>1. h \in 1 .. Limit /\ h \in 1 .. Limit - 1 /\ h + 1 \in 1 .. Limit /\ h + 1 <= Rows + 3
  BY Limits
<1>2. Leads(c, <<Prompt>>, Stop(h, "free"), Stop(h, "prompted"))
  BY <1>1, LeadsInRow
<1>3. Leads(c, <<Result>>, Stop(h, "prompted"), Stop(h + 1, "asked"))
  BY <1>1, LeadsLine
<1>4. Leads(c, <<Ask>>, Stop(h + 1, "asked"), Stop(h + 1, "free"))
  <2>1. PICK g : g = h + 1
    OBVIOUS
  <2>2. g \in 1 .. Limit /\ g <= Rows + 3
    BY <1>1, <2>1
  <2>3. Leads(c, <<Ask>>, Stop(g, "asked"), Stop(g, "free"))
    BY <2>2, LeadsInRow
  <2> QED BY <2>1, <2>3
<1>5. Leads(c, <<Result>> \o <<Ask>>, Stop(h, "prompted"), Stop(h + 1, "free"))
  BY <1>3, <1>4, LeadsOn
<1>6. Leads(c, <<Prompt>> \o (<<Result>> \o <<Ask>>), Stop(h, "free"), Stop(h + 1, "free"))
  BY <1>2, <1>5, LeadsOn
<1>7. Question = <<Prompt>> \o (<<Result>> \o <<Ask>>)
  <2>1. PICK a, b, d : /\ a = Prompt /\ b = Result /\ d = Ask
                       /\ a \in Parts /\ b \in Parts /\ d \in Parts
    BY DEF Parts
  <2>2. Question = <<a, b, d>>
    BY <2>1 DEF Question, Result
  <2> QED BY <2>1, <2>2, ThreeParts
<1> QED BY <1>6, <1>7

\* The lines of a file that cat prints, each of them taken back.
LEMMA LeadsFile ==
    ASSUME NEW n \in Nat
    PROVE  Leads("cat", [i \in 1 .. 2 * n |-> IF i % 2 = 1 THEN Line ELSE Clamp],
                 Stop(Rows, "free"), Stop(Rows, "free"))
<1> DEFINE w == [i \in 1 .. 2 * n + 1 |-> Stop(IF i % 2 = 1 THEN Rows ELSE Rows + 1, "free")]
<1>1. PICK t : t = [i \in 1 .. 2 * n |-> IF i % 2 = 1 THEN Line ELSE Clamp]
  OBVIOUS
<1>2. PICK m : m = 2 * n /\ m \in Nat /\ m % 2 = 0
  OBVIOUS
<1>3. /\ t \in Seq(Parts) /\ Len(t) = m
      /\ \A i \in 1 .. m : t[i] = IF i % 2 = 1 THEN Line ELSE Clamp
  <2>1. Line \in Parts /\ Clamp \in Parts
    BY DEF Parts
  <2> QED BY <1>1, <1>2, <2>1
<1>4. Stop(Rows, "free") \in Stops /\ Stop(Rows + 1, "free") \in Stops
  <2>1. Rows \in 1 .. Limit /\ Rows + 1 \in 1 .. Limit
    BY Limits
  <2> QED BY <2>1, StopTypes DEF Kinds
<1>5. w \in [1 .. m + 1 -> Stops] /\ w[1] = Stop(Rows, "free") /\ w[m + 1] = Stop(Rows, "free")
  <2>1. 1 \in 1 .. m + 1 /\ m + 1 \in 1 .. m + 1 /\ 1 % 2 = 1 /\ (m + 1) % 2 = 1
    BY <1>2
  <2> QED BY <1>2, <1>4, <2>1
<1>6. ASSUME NEW i \in 1 .. m
      PROVE  Turn("cat", t[i], w[i], w[i + 1])
  <2>1. i \in 1 .. m + 1 /\ i + 1 \in 1 .. m + 1 /\ (i % 2 = 1 <=> (i + 1) % 2 # 1)
    BY <1>2
  <2>2. CASE i % 2 = 1
    <3>1. t[i] = Line /\ w[i] = Stop(Rows, "free") /\ w[i + 1] = Stop(Rows + 1, "free")
      BY <1>2, <1>3, <2>1, <2>2
    <3> HIDE DEF w
    <3> QED BY <3>1 DEF Turn, Stop
  <2>3. CASE i % 2 # 1
    <3>1. t[i] = Clamp /\ w[i] = Stop(Rows + 1, "free") /\ w[i + 1] = Stop(Rows, "free")
      BY <1>2, <1>3, <2>1, <2>3
    <3> HIDE DEF w
    <3> QED BY <3>1 DEF Turn, Stop
  <2> QED BY <2>2, <2>3
<1> HIDE DEF w
<1>7. Leads("cat", t, Stop(Rows, "free"), Stop(Rows, "free"))
  BY <1>3, <1>5, <1>6 DEF Leads
<1> QED BY <1>1, <1>7

\* A course that ends on the row that its command leaves.
LEMMA PlannedBy ==
    ASSUME NEW c, NEW t, NEW v \in Stops, NEW h \in 1 .. Limit, NEW k \in Kinds,
           Leads(c, t, v, Stop(h, k)), k = LastRow(c)
    PROVE  Planned(c, t, v)
<1>1. Stop(h, k) \in Stops /\ Stop(h, k).row = k
  BY StopTypes
<1> QED BY <1>1 DEF Planned

\* Where commands start, below the row of their line.
LEMMA Starts == Stop(Rows, "free") \in Stops /\ Rows \in 1 .. Limit
<1>1. Rows \in 1 .. Limit
  BY Limits
<1> QED BY <1>1, StopTypes DEF Kinds

\* Those that print lines and a prompt.
LEMMA PlannedLines ==
    ASSUME NEW c, NEW n \in Nat, LastRow(c) = "prompted", Rows + n <= Limit
    PROVE  Planned(c, Lines(n) \o <<Prompt>>, Stop(Rows, "free"))
<1>1. PICK h : h = Rows + n
  OBVIOUS
<1>2. h \in 1 .. Limit
  BY <1>1, Limits
<1>3. Leads(c, Lines(n), Stop(Rows, "free"), Stop(h, "free"))
  BY <1>1, Starts, LeadsLines
<1>4. Leads(c, <<Prompt>>, Stop(h, "free"), Stop(h, "prompted"))
  BY <1>2, LeadsInRow
<1>5. Leads(c, Lines(n) \o <<Prompt>>, Stop(Rows, "free"), Stop(h, "prompted"))
  BY <1>3, <1>4, LeadsOn
<1> QED BY <1>2, <1>5, Starts, PlannedBy DEF Kinds

\* echo and clear.
LEMMA PlannedShort ==
    /\ Planned("echo", <<Rest, Prompt>>, Stop(Rows, "free"))
    /\ Planned("clear", <<Clear, Prompt>>, Stop(Rows, "free"))
<1>1. PICK h : h = Rows + 1
  OBVIOUS
<1>2. h \in 1 .. Limit /\ Rows \in 1 .. Limit - 1 /\ Rows \in 1 .. Limit
  BY <1>1, Limits
<1>3. Rest \in Parts /\ Prompt \in Parts /\ Clear \in Parts
  BY DEF Parts
<1>4. LastRow("echo") = "prompted" /\ LastRow("clear") = "prompted" /\ "prompted" \in Kinds
  BY DEF LastRow, Kinds
<1>5. Planned("echo", <<Rest, Prompt>>, Stop(Rows, "free"))
  <2>1. Leads("echo", <<Rest>>, Stop(Rows, "free"), Stop(h, "free"))
    BY <1>1, <1>2, LeadsLine
  <2>2. Leads("echo", <<Prompt>>, Stop(h, "free"), Stop(h, "prompted"))
    BY <1>2, LeadsInRow
  <2>3. Leads("echo", <<Rest, Prompt>>, Stop(Rows, "free"), Stop(h, "prompted"))
    BY <1>3, <2>1, <2>2, LeadsOn, TwoParts
  <2> QED BY <1>2, <1>4, <2>3, Starts, PlannedBy
<1>6. Planned("clear", <<Clear, Prompt>>, Stop(Rows, "free"))
  <2>1. Leads("clear", <<Clear>>, Stop(Rows, "free"), Stop(Rows, "free"))
    BY <1>2, LeadsInRow
  <2>2. Leads("clear", <<Prompt>>, Stop(Rows, "free"), Stop(Rows, "prompted"))
    BY <1>2, LeadsInRow
  <2>3. Leads("clear", <<Clear, Prompt>>, Stop(Rows, "free"), Stop(Rows, "prompted"))
    BY <1>3, <2>1, <2>2, LeadsOn, TwoParts
  <2> QED BY <1>2, <1>4, <2>3, Starts, PlannedBy
<1> QED BY <1>5, <1>6

\* test_fs, whichever of its files it can read.
LEMMA PlannedTest ==
    ASSUME NEW t \in test_fs
    PROVE  Planned("test_fs", t, Stop(Rows, "free"))
<1>1. PICK n \in 1 .. MaxLines, halves \in {<<>>, Halves, Halves \o Halves} :
        t = Lines(n) \o halves \o <<Line, Prompt>>
  <2> DEFINE W(n, halves) == Lines(n) \o halves \o <<Line, Prompt>>
  <2>1. test_fs =
          {W(n, halves) : n \in 1 .. MaxLines, halves \in {<<>>, Halves, Halves \o Halves}}
    BY Z3 DEF test_fs
  <2> HIDE DEF W
  <2>2. PICK n \in 1 .. MaxLines, halves \in {<<>>, Halves, Halves \o Halves} : t = W(n, halves)
    BY <2>1
  <2> QED BY <2>2 DEF W
<1>2. PICK h : h = Rows + n
  OBVIOUS
<1>3. PICK c : c = "test_fs"
  OBVIOUS
<1>4. /\ n \in Nat /\ h \in 1 .. Limit /\ h \in 1 .. Limit - 1 /\ h + 1 \in 1 .. Limit - 1
      /\ h + 2 \in 1 .. Limit - 1 /\ h + 3 \in 1 .. Limit /\ h <= Limit
      /\ (h + 1) + 1 = h + 2 /\ (h + 2) + 1 = h + 3
  BY <1>2, Limits
<1>5. Leads(c, Lines(n), Stop(Rows, "free"), Stop(h, "free"))
  BY <1>2, <1>4, Starts, LeadsLines
<1>6. PICK g \in {h, h + 1, h + 2} : Leads(c, halves, Stop(h, "free"), Stop(g, "free"))
  <2>1. Leads(c, Halves, Stop(h, "free"), Stop(h + 1, "free"))
    BY <1>4, LeadsHalves
  <2>2. Leads(c, Halves, Stop(h + 1, "free"), Stop(h + 2, "free"))
    <3>1. PICK i : i = h + 1
      OBVIOUS
    <3>2. Leads(c, Halves, Stop(i, "free"), Stop(i + 1, "free"))
      BY <1>4, <3>1, LeadsHalves
    <3> QED BY <1>4, <3>1, <3>2
  <2>3. Leads(c, Halves \o Halves, Stop(h, "free"), Stop(h + 2, "free"))
    BY <2>1, <2>2, LeadsOn
  <2>4. Leads(c, <<>>, Stop(h, "free"), Stop(h, "free"))
    <3>1. Stop(h, "free") \in Stops
      BY <1>4, StopTypes DEF Kinds
    <3> QED BY <3>1, LeadsNowhere
  <2> QED BY <2>1, <2>3, <2>4
<1>7. g \in 1 .. Limit - 1 /\ g + 1 \in 1 .. Limit
  <2>1. g = h \/ g = h + 1 \/ g = h + 2
    BY <1>6
  <2> QED BY <1>4, <2>1, Limits
<1>8. Leads(c, <<Line>>, Stop(g, "free"), Stop(g + 1, "free"))
  BY <1>7, LeadsLine
<1>9. Leads(c, <<Prompt>>, Stop(g + 1, "free"), Stop(g + 1, "prompted"))
  <2>1. PICK i : i = g + 1
    OBVIOUS
  <2>2. Leads(c, <<Prompt>>, Stop(i, "free"), Stop(i, "prompted"))
    BY <1>7, <2>1, LeadsInRow
  <2> QED BY <2>1, <2>2
<1>10. Leads(c, <<Line, Prompt>>, Stop(g, "free"), Stop(g + 1, "prompted"))
  <2>1. Line \in Parts /\ Prompt \in Parts
    BY DEF Parts
  <2> QED BY <1>8, <1>9, <2>1, LeadsOn, TwoParts
<1>11. Leads(c, Lines(n) \o halves, Stop(Rows, "free"), Stop(g, "free"))
  BY <1>5, <1>6, LeadsOn
<1>12. Leads(c, t, Stop(Rows, "free"), Stop(g + 1, "prompted"))
  BY <1>1, <1>10, <1>11, LeadsOn
<1>13. LastRow(c) = "prompted" /\ "prompted" \in Kinds
  BY <1>3 DEF LastRow, Kinds
<1> QED BY <1>3, <1>7, <1>12, <1>13, Starts, PlannedBy

\* fetch, which prints no prompt.
LEMMA PlannedFetch ==
    Planned("fetch", Lines(FetchLines), Stop(Rows, "free"))
<1>1. PICK h, n : h = Rows + FetchLines /\ n = FetchLines
  OBVIOUS
<1>2. h \in 1 .. Limit /\ h <= Limit /\ n \in Nat /\ h = Rows + n
  BY <1>1, Limits
<1>3. Leads("fetch", Lines(n), Stop(Rows, "free"), Stop(h, "free"))
  BY <1>2, Starts, LeadsLines
<1>4. LastRow("fetch") = "free" /\ "free" \in Kinds
  BY DEF LastRow, Kinds
<1> QED BY <1>1, <1>2, <1>3, <1>4, Starts, PlannedBy

\* cat, of a file of any length or of none.
LEMMA PlannedCat ==
    ASSUME NEW t \in cat
    PROVE  Planned("cat", t, Stop(Rows, "free"))
<1>1. LastRow("cat") = "prompted" /\ "prompted" \in Kinds /\ Line \in Parts /\ Prompt \in Parts
  BY DEF LastRow, Kinds, Parts
<1>2. Rows \in 1 .. Limit - 1 /\ Rows \in 1 .. Limit /\ Rows + 1 \in 1 .. Limit
  BY Limits
<1>3. ASSUME NEW n \in 0 .. MaxLines,
             t = [i \in 1 .. 2 * n |-> IF i % 2 = 1 THEN Line ELSE Clamp] \o <<Prompt>>
      PROVE  Planned("cat", t, Stop(Rows, "free"))
  <2>1. n \in Nat
    BY Limits
  <2>2. Leads("cat", [i \in 1 .. 2 * n |-> IF i % 2 = 1 THEN Line ELSE Clamp],
              Stop(Rows, "free"), Stop(Rows, "free"))
    BY <2>1, LeadsFile
  <2>3. Leads("cat", <<Prompt>>, Stop(Rows, "free"), Stop(Rows, "prompted"))
    BY <1>2, LeadsInRow
  <2>4. Leads("cat", t, Stop(Rows, "free"), Stop(Rows, "prompted"))
    BY <1>3, <2>2, <2>3, LeadsOn
  <2> QED BY <1>1, <1>2, <2>4, Starts, PlannedBy
<1>4. ASSUME t = <<Line, Prompt>>
      PROVE  Planned("cat", t, Stop(Rows, "free"))
  <2>1. PICK h : h = Rows + 1
    OBVIOUS
  <2>2. Leads("cat", <<Line>>, Stop(Rows, "free"), Stop(h, "free"))
    BY <1>2, <2>1, LeadsLine
  <2>3. Leads("cat", <<Prompt>>, Stop(h, "free"), Stop(h, "prompted"))
    BY <1>2, <2>1, LeadsInRow
  <2>4. Leads("cat", t, Stop(Rows, "free"), Stop(h, "prompted"))
    BY <1>1, <1>4, <2>2, <2>3, LeadsOn, TwoParts
  <2> QED BY <1>1, <1>2, <2>1, <2>4, Starts, PlannedBy
<1> QED BY <1>3, <1>4 DEF cat

\* disk, with a table of disks or with one line in halves.
LEMMA PlannedDisk ==
    ASSUME NEW t \in disk
    PROVE  Planned("disk", t, Stop(Rows, "free"))
<1>1. /\ LastRow("disk") = "prompted" /\ "prompted" \in Kinds
      /\ Line \in Parts /\ Clamp \in Parts /\ Prompt \in Parts
  BY DEF LastRow, Kinds, Parts
<1>2. \A h \in 1 .. Limit :
        Leads("disk", <<Clamp>> \o <<Prompt>>, Stop(h, "free"), Stop(Rows, "prompted"))
  <2> TAKE h \in 1 .. Limit
  <2>1. Leads("disk", <<Clamp>>, Stop(h, "free"), Stop(Rows, "free"))
    BY LeadsInRow
  <2>2. Leads("disk", <<Prompt>>, Stop(Rows, "free"), Stop(Rows, "prompted"))
    BY Starts, LeadsInRow
  <2> QED BY <2>1, <2>2, LeadsOn
<1>3. ASSUME NEW n \in 1 .. MaxLines, t = Lines(n) \o <<Clamp, Prompt>>
      PROVE  Planned("disk", t, Stop(Rows, "free"))
  <2>1. PICK h : h = Rows + n
    OBVIOUS
  <2>2. n \in Nat /\ h \in 1 .. Limit /\ h <= Limit
    BY <2>1, Limits
  <2>3. Leads("disk", Lines(n), Stop(Rows, "free"), Stop(h, "free"))
    BY <2>1, <2>2, Starts, LeadsLines
  <2>4. Leads("disk", t, Stop(Rows, "free"), Stop(Rows, "prompted"))
    BY <1>1, <1>2, <1>3, <2>2, <2>3, LeadsOn, TwoParts
  <2> QED BY <1>1, <2>4, Starts, PlannedBy
<1>4. ASSUME t = <<Line>> \o Halves \o Halves \o <<Line, Clamp, Prompt>>
      PROVE  Planned("disk", t, Stop(Rows, "free"))
  <2>1. PICK h, i, j, k : h = Rows + 1 /\ i = h + 1 /\ j = i + 1 /\ k = j + 1
    OBVIOUS
  <2>2. /\ Rows \in 1 .. Limit - 1 /\ h \in 1 .. Limit - 1 /\ i \in 1 .. Limit - 1
        /\ j \in 1 .. Limit - 1 /\ k \in 1 .. Limit
    BY <2>1, Limits
  <2>3. Leads("disk", <<Line>>, Stop(Rows, "free"), Stop(h, "free"))
    BY <2>1, <2>2, LeadsLine
  <2>4. Leads("disk", Halves, Stop(h, "free"), Stop(i, "free"))
    BY <2>1, <2>2, LeadsHalves
  <2>5. Leads("disk", Halves, Stop(i, "free"), Stop(j, "free"))
    BY <2>1, <2>2, LeadsHalves
  <2>6. Leads("disk", <<Line>>, Stop(j, "free"), Stop(k, "free"))
    BY <2>1, <2>2, LeadsLine
  <2>7. Leads("disk", <<Line>> \o (<<Clamp>> \o <<Prompt>>), Stop(j, "free"), Stop(Rows, "prompted"))
    BY <1>2, <2>2, <2>6, LeadsOn
  <2>8. Leads("disk", <<Line, Clamp, Prompt>>, Stop(j, "free"), Stop(Rows, "prompted"))
    BY <1>1, <2>7, ThreeParts
  <2>9. Leads("disk", <<Line>> \o Halves, Stop(Rows, "free"), Stop(i, "free"))
    BY <2>3, <2>4, LeadsOn
  <2>10. Leads("disk", <<Line>> \o Halves \o Halves, Stop(Rows, "free"), Stop(j, "free"))
    BY <2>5, <2>9, LeadsOn
  <2>11. Leads("disk", t, Stop(Rows, "free"), Stop(Rows, "prompted"))
    BY <1>4, <2>8, <2>10, LeadsOn
  <2> QED BY <1>1, <2>11, Starts, PlannedBy
<1> QED BY <1>3, <1>4 DEF disk

\* calc, in the root and elsewhere.
LEMMA PlannedCalc ==
    /\ \A t \in calc(1) : Planned("calc", t, Stop(Rows, "free"))
    /\ \A t \in calc(3) : Planned("calc_below_root", t, Stop(Rows, "free"))
<1> DEFINE Asks(n) == Question \o Question \o Question \o Lines(n)
<1>1. ASSUME NEW c \in Calcs, NEW n \in 0 .. 1
      PROVE  \E h \in 1 .. Limit : Leads(c, Asks(n), Stop(Rows, "free"), Stop(h, "free"))
  <2>1. PICK h, i, j, k : h = Rows + 1 /\ i = h + 1 /\ j = i + 1 /\ k = j + n
    OBVIOUS
  <2>2. /\ Rows \in 1 .. Rows + 2 /\ h \in 1 .. Rows + 2 /\ i \in 1 .. Rows + 2
        /\ j \in 1 .. Limit /\ k \in 1 .. Limit /\ k <= Limit /\ n \in Nat
    BY <2>1, Limits
  <2>3. Leads(c, Question, Stop(Rows, "free"), Stop(h, "free"))
    BY <2>1, <2>2, LeadsQuestion
  <2>4. Leads(c, Question, Stop(h, "free"), Stop(i, "free"))
    BY <2>1, <2>2, LeadsQuestion
  <2>5. Leads(c, Question, Stop(i, "free"), Stop(j, "free"))
    BY <2>1, <2>2, LeadsQuestion
  <2>6. Leads(c, Lines(n), Stop(j, "free"), Stop(k, "free"))
    BY <2>1, <2>2, LeadsLines
  <2>7. Leads(c, Question \o Question, Stop(Rows, "free"), Stop(i, "free"))
    BY <2>3, <2>4, LeadsOn
  <2>8. Leads(c, Question \o Question \o Question, Stop(Rows, "free"), Stop(j, "free"))
    BY <2>5, <2>7, LeadsOn
  <2>9. Leads(c, Asks(n), Stop(Rows, "free"), Stop(k, "free"))
    BY <2>6, <2>8, LeadsOn
  <2> QED BY <2>2, <2>9
<1>2. \A p : calc(p) = {Asks(n) \o <<Path(p), Angle>> : n \in 0 .. 1}
  BY DEF calc, Path, Angle
<1> HIDE DEF Asks
<1>3. Path(1) \in Parts /\ Path(3) \in Parts /\ Angle \in Parts
  BY DEF Parts
<1>4. ASSUME NEW t \in calc(1)
      PROVE  Planned("calc", t, Stop(Rows, "free"))
  <2>1. PICK n \in 0 .. 1 : t = Asks(n) \o <<Path(1), Angle>>
    BY <1>2
  <2>2. PICK h \in 1 .. Limit : Leads("calc", Asks(n), Stop(Rows, "free"), Stop(h, "free"))
    BY <1>1 DEF Calcs
  <2>3. Leads("calc", <<Path(1)>>, Stop(h, "free"), Stop(h, "path"))
    BY LeadsInRow
  <2>4. Leads("calc", <<Angle>>, Stop(h, "path"), Stop(h, "prompted"))
    BY LeadsInRow
  <2>5. Leads("calc", <<Path(1), Angle>>, Stop(h, "free"), Stop(h, "prompted"))
    <3>1. PICK a, b : a = Path(1) /\ b = Angle
      OBVIOUS
    <3>2. Leads("calc", <<a>> \o <<b>>, Stop(h, "free"), Stop(h, "prompted"))
      BY <2>3, <2>4, <3>1, LeadsOn
    <3> QED BY <1>3, <3>1, <3>2, TwoParts
  <2>6. Leads("calc", t, Stop(Rows, "free"), Stop(h, "prompted"))
    BY <2>1, <2>2, <2>5, LeadsOn
  <2>7. LastRow("calc") = "prompted" /\ "prompted" \in Kinds
    BY DEF LastRow, Kinds
  <2> QED BY <2>6, <2>7, Starts, PlannedBy
<1>5. ASSUME NEW t \in calc(3)
      PROVE  Planned("calc_below_root", t, Stop(Rows, "free"))
  <2>1. PICK n \in 0 .. 1 : t = Asks(n) \o <<Path(3), Angle>>
    BY <1>2
  <2>2. PICK c : c = "calc_below_root"
    OBVIOUS
  <2>3. PICK h \in 1 .. Limit : Leads(c, Asks(n), Stop(Rows, "free"), Stop(h, "free"))
    BY <1>1, <2>2 DEF Calcs
  <2>4. Leads(c, <<Path(3)>>, Stop(h, "free"), Stop(h, "long"))
    BY LeadsInRow
  <2>5. Leads(c, <<Angle>>, Stop(h, "long"), Stop(h, "spoiled"))
    BY LeadsInRow
  <2>6. Leads(c, <<Path(3), Angle>>, Stop(h, "free"), Stop(h, "spoiled"))
    <3>1. PICK a, b : a = Path(3) /\ b = Angle
      OBVIOUS
    <3>2. Leads(c, <<a>> \o <<b>>, Stop(h, "free"), Stop(h, "spoiled"))
      BY <2>4, <2>5, <3>1, LeadsOn
    <3> QED BY <1>3, <3>1, <3>2, TwoParts
  <2>7. Leads(c, t, Stop(Rows, "free"), Stop(h, "spoiled"))
    BY <2>1, <2>3, <2>6, LeadsOn
  <2>8. LastRow(c) = "spoiled" /\ "spoiled" \in Kinds
    BY <2>2 DEF LastRow, Kinds
  <2> QED BY <2>2, <2>7, <2>8, Starts, PlannedBy
<1> QED BY <1>4, <1>5

\* Every command has a course.
LEMMA EveryCommand ==
    ASSUME NEW c \in Commands, NEW t \in StepsOf(c)
    PROVE  Planned(c, t, Stop(Rows, "free"))
<1>1. CASE c = "plain"
  <2>1. t \in builtin \cup mydir \cup touch
    BY <1>1 DEF StepsOf
  <2>2. PICK n : /\ n \in 0 .. MaxLines \/ n \in 1 .. 2 \/ n \in 0 .. 1
                 /\ t = Lines(n) \o <<Prompt>>
    BY <2>1 DEF builtin, mydir, touch
  <2>3. n \in Nat /\ Rows + n <= Limit
    BY <2>2, Limits
  <2>4. LastRow(c) = "prompted"
    BY <1>1 DEF LastRow
  <2> QED BY <2>2, <2>3, <2>4, PlannedLines
<1>2. CASE c = "echo"
  BY <1>2, PlannedShort DEF StepsOf, echo
<1>3. CASE c = "clear"
  BY <1>3, PlannedShort DEF StepsOf, clear
<1>4. CASE c = "test_fs"
  BY <1>4, PlannedTest DEF StepsOf
<1>5. CASE c = "fetch"
  BY <1>5, PlannedFetch DEF StepsOf, fetch
<1>6. CASE c = "cat"
  BY <1>6, PlannedCat DEF StepsOf
<1>7. CASE c = "disk"
  BY <1>7, PlannedDisk DEF StepsOf
<1>8. CASE c = "calc"
  BY <1>8, PlannedCalc DEF StepsOf
<1>9. CASE c = "calc_below_root"
  BY <1>9, PlannedCalc DEF StepsOf
<1> QED BY <1>1, <1>2, <1>3, <1>4, <1>5, <1>6, <1>7, <1>8, <1>9 DEF Commands

-----------------------------------------------------------------------------
(* What is written stands behind the rest.                                  *)

\* The step of OutputAppended, from screen s to screen p, which is s scrolled by
\* shift cells but for the cells in erased.
KeptBy(s, p, shift, erased) ==
    \A c \in Cells \ erased : c >= shift /\ s[c] # "blank" => p[c - shift] = s[c]

FreshIn(s, p, shift) ==
    {c \in Cells : p[c] # "blank" /\ (c + shift \in Cells => s[c + shift] = "blank")}

AppendedBy(s, p, shift, erased) ==
    /\ KeptBy(s, p, shift, erased)
    /\ \A c \in FreshIn(s, p, shift), d \in Cells \ FreshIn(s, p, shift) :
          p[d] # "blank" =>
            \/ d < c
            \/ p[c] = "prompt" /\ p[d] = "prompt" /\ c \div Cols = d \div Cols

\* What OutputAppended asks of a step.
StepAppends ==
    \E k \in {0, 1} :
       /\ Kept(k)
       /\ \A c \in Fresh(k), d \in Cells \ Fresh(k) : screen'[d] # "blank" => d < c \/ Completes(c, d)

\* The two say the same.
LEMMA StepAppended ==
    ASSUME \/ AppendedBy(screen, screen', 0, Erased)
           \/ AppendedBy(screen, screen', Cols, Erased)
    PROVE  StepAppends
<1>1. 0 * Cols = 0 /\ 1 * Cols = Cols
  BY ScreenAssumption
<1>2. ASSUME NEW k \in {0, 1}, NEW shift, shift = k * Cols,
             AppendedBy(screen, screen', shift, Erased)
      PROVE  StepAppends
  <2>1. Kept(k)
    BY <1>2 DEF AppendedBy, KeptBy, Kept
  <2>2. Fresh(k) = FreshIn(screen, screen', shift)
    BY <1>2 DEF Fresh, FreshIn
  <2>3. ASSUME NEW c \in Fresh(k), NEW d \in Cells \ Fresh(k), screen'[d] # "blank"
        PROVE  d < c \/ Completes(c, d)
    BY <1>2, <2>2, <2>3 DEF AppendedBy, Completes
  <2> QED BY <2>1, <2>3 DEF StepAppends
<1> QED BY <1>1, <1>2

\* Nothing written, or nothing but a scroll.
LEMMA AppendNothing ==
    ASSUME NEW s \in [Cells -> Marks]
    PROVE  /\ AppendedBy(s, s, 0, {})
           /\ AppendedBy(s, scroll_screen(s), Cols, {})
<1>1. Cells \subseteq Int /\ Cols \in Nat /\ \A c \in Cells : c + 0 = c /\ c - 0 = c
  BY RowsFollow
<1>2. AppendedBy(s, s, 0, {})
  <2>1. KeptBy(s, s, 0, {})
    BY <1>1 DEF KeptBy
  <2>2. FreshIn(s, s, 0) = {}
    BY <1>1 DEF FreshIn
  <2> QED BY <2>1, <2>2 DEF AppendedBy
<1>3. AppendedBy(s, scroll_screen(s), Cols, {})
  <2>1. KeptBy(s, scroll_screen(s), Cols, {})
    <3>1. SUFFICES ASSUME NEW c \in Cells, c >= Cols
                   PROVE  scroll_screen(s)[c - Cols] = s[c]
      BY DEF KeptBy
    <3>2. c - Cols \in Cells /\ (c - Cols) + Cols = c
      BY <3>1, CellAbove
    <3> QED BY <3>2, ScrollCells
  <2>2. FreshIn(s, scroll_screen(s), Cols) = {}
    BY ScrollCells DEF FreshIn
  <2> QED BY <2>1, <2>2 DEF AppendedBy
<1> QED BY <1>2, <1>3

\* A text over blank cells, or over a part that is already there.
LEMMA AppendText ==
    ASSUME NEW s \in [Cells -> Marks], NEW x \in Int, NEW len \in Int,
           NEW mark \in Marks \ {"blank"}, NEW edge \in Int, BlankFrom(s, edge),
           \A c \in Cells : x <= c /\ c < edge => s[c] = mark
    PROVE  AppendedBy(s, Put(s, x, len, mark), 0, {})
<1>1. PICK p : p = Put(s, x, len, mark)
  OBVIOUS
<1>2. \A c \in Cells : p[c] = IF x <= c /\ c < x + len THEN mark ELSE s[c]
  BY <1>1, PutCells
<1>3. Cells \subseteq Int /\ \A c \in Cells : c + 0 = c /\ c - 0 = c
  BY RowsFollow
<1>4. KeptBy(s, p, 0, {})
  <2>1. SUFFICES ASSUME NEW c \in Cells, s[c] # "blank"
                 PROVE  p[c] = s[c]
    BY <1>3 DEF KeptBy
  <2>2. c < edge
    BY <1>3, <2>1 DEF BlankFrom
  <2> QED BY <1>2, <1>3, <2>2
<1>5. ASSUME NEW c \in FreshIn(s, p, 0), NEW d \in Cells \ FreshIn(s, p, 0), p[d] # "blank"
      PROVE  d < c
  <2>1. c \in Cells /\ p[c] # "blank" /\ s[c] = "blank"
    BY <1>3 DEF FreshIn
  <2>2. s[d] # "blank"
    BY <1>3, <1>5 DEF FreshIn
  <2>3. d < edge
    BY <1>3, <2>2 DEF BlankFrom
  <2>4. x <= c
    BY <1>2, <1>3, <2>1
  <2>5. c >= edge
    BY <1>3, <2>1, <2>4
  <2> QED BY <1>3, <2>1, <2>3, <2>5
<1> QED BY <1>1, <1>4, <1>5 DEF AppendedBy

\* A text on the last row of a screen that was scrolled for it.
LEMMA AppendScrolled ==
    ASSUME NEW s \in [Cells -> Marks], NEW x \in Int, NEW len \in Int,
           NEW mark \in Marks \ {"blank"}, x >= Start(Rows - 1)
    PROVE  AppendedBy(s, Put(scroll_screen(s), x, len, mark), Cols, {})
<1>1. PICK r : r = scroll_screen(s)
  OBVIOUS
<1>2. PICK p : p = Put(r, x, len, mark)
  OBVIOUS
<1>3. r \in [Cells -> Marks] /\ \A c \in Cells :
        /\ r[c] = IF c < Start(Rows - 1) THEN s[c + Cols] ELSE "blank"
        /\ c < Start(Rows - 1) <=> c + Cols \in Cells
  BY <1>1, ScrollCells
<1>4. \A c \in Cells : p[c] = IF x <= c /\ c < x + len THEN mark ELSE r[c]
  BY <1>2, <1>3, PutCells
<1>5. Cells \subseteq Int /\ Cols \in Nat /\ Start(Rows - 1) \in Int
  BY RowsFollow, LastRowStarts
<1>6. \A c \in Cells : c < Start(Rows - 1) => p[c] = s[c + Cols]
  BY <1>3, <1>4, <1>5
<1>7. KeptBy(s, p, Cols, {})
  <2>1. SUFFICES ASSUME NEW c \in Cells, c >= Cols
                 PROVE  p[c - Cols] = s[c]
    BY DEF KeptBy
  <2>2. c - Cols \in Cells /\ (c - Cols) + Cols = c
    BY <2>1, CellAbove
  <2>3. c - Cols < Start(Rows - 1)
    BY <1>3, <2>2
  <2> QED BY <1>6, <2>2, <2>3
<1>8. ASSUME NEW c \in FreshIn(s, p, Cols), NEW d \in Cells \ FreshIn(s, p, Cols),
             p[d] # "blank"
      PROVE  d < c
  <2>1. c \in Cells /\ p[c] # "blank" /\ (c + Cols \in Cells => s[c + Cols] = "blank")
    BY DEF FreshIn
  <2>2. d + Cols \in Cells
    BY <1>8 DEF FreshIn
  <2>3. d < Start(Rows - 1)
    BY <1>3, <2>2
  <2>4. c >= Start(Rows - 1)
    BY <1>3, <1>5, <1>6, <2>1
  <2> QED BY <1>5, <2>1, <2>3, <2>4
<1> QED BY <1>1, <1>2, <1>7, <1>8 DEF AppendedBy

\* A character that is taken back.
LEMMA AppendErased ==
    ASSUME NEW s \in [Cells -> Marks], NEW x \in Int
    PROVE  AppendedBy(s, Put(s, x, 1, "blank"), 0, {x})
<1>1. PICK p : p = Put(s, x, 1, "blank")
  OBVIOUS
<1>2. Cells \subseteq Int /\ \A c \in Cells : c + 0 = c /\ c - 0 = c
  BY RowsFollow
<1>3. \A c \in Cells : p[c] = IF c = x THEN "blank" ELSE s[c]
  <2>1. \A c \in Cells : p[c] = IF x <= c /\ c < x + 1 THEN "blank" ELSE s[c]
    BY <1>1, PutCells DEF Marks
  <2> QED BY <1>2, <2>1
<1>4. KeptBy(s, p, 0, {x})
  BY <1>2, <1>3 DEF KeptBy
<1>5. FreshIn(s, p, 0) = {}
  BY <1>2, <1>3 DEF FreshIn
<1> QED BY <1>1, <1>4, <1>5 DEF AppendedBy

\* The row of a cell.
LEMMA RowOfCell ==
    ASSUME NEW r \in Nat, NEW c \in Start(r) .. Start(r) + Cols - 1
    PROVE  c \div Cols = r
<1>1. Cols \in Nat \ {0} /\ Start(r) \in Nat /\ Start(r) = Cols * r
  BY RowsFollow DEF Start
<1>2. PICK i : i = c - Start(r)
  OBVIOUS
<1>3. c \in Nat /\ i \in 0 .. Cols - 1
  BY <1>1, <1>2
<1>4. c = Cols * r + i
  BY <1>1, <1>2, <1>3
<1>5. PICK q, m : q = c \div Cols /\ m = c % Cols
  OBVIOUS
<1>6. q \in Nat /\ m \in 0 .. Cols - 1 /\ c = Cols * q + m
  BY <1>1, <1>3, <1>5, DivMod
<1>7. r = q
  BY <1>1, <1>3, <1>4, <1>6, DivUnique
<1> QED BY <1>5, <1>7

\* A letter, and the prompt that is drawn again with it.
LEMMA AppendLetter ==
    ASSUME NEW s \in [Cells -> Marks], NEW row \in Nat, NEW x \in Cells,
           Start(row) + 2 <= x, BlankFrom(s, x),
           \A c \in Start(row) .. Start(row) + 1 :
              s[c] = "prompt" \/ (s[c] = "blank" /\ x = Start(row) + 2)
    PROVE  AppendedBy(s, Put(Put(s, x, 1, "key"), Start(row), 2, "prompt"), 0, {})
<1>1. PICK r : r = Start(row)
  OBVIOUS
<1>2. PICK q : q = Put(s, x, 1, "key")
  OBVIOUS
<1>3. PICK p : p = Put(q, r, 2, "prompt")
  OBVIOUS
<1>4. /\ r \in Nat /\ Cols \in Nat /\ Cols > 3
      /\ Cells \subseteq Int /\ \A c \in Cells : c + 0 = c /\ c - 0 = c
  BY <1>1, RowsFollow
<1>5. /\ q \in [Cells -> Marks]
      /\ \A c \in Cells : q[c] = IF c = x THEN "key" ELSE s[c]
  <2>1. \A c \in Cells : q[c] = IF x <= c /\ c < x + 1 THEN "key" ELSE s[c]
    BY <1>2, <1>4, PutCells DEF Marks
  <2>2. q \in [Cells -> Marks]
    BY <1>2, <1>4, PutCells DEF Marks
  <2> QED BY <1>4, <2>1, <2>2
<1>6. \A c \in Cells : p[c] = IF c = r \/ c = r + 1 THEN "prompt" ELSE IF c = x THEN "key" ELSE s[c]
  <2>1. \A c \in Cells : p[c] = IF r <= c /\ c < r + 2 THEN "prompt" ELSE q[c]
    BY <1>3, <1>4, <1>5, PutCells DEF Marks
  <2> QED BY <1>4, <1>5, <2>1
<1>7. \A c \in Cells : s[c] # "blank" => c < x /\ p[c] = s[c]
  BY <1>1, <1>4, <1>6 DEF BlankFrom
<1>8. KeptBy(s, p, 0, {})
  BY <1>4, <1>7 DEF KeptBy
<1>9. ASSUME NEW c \in FreshIn(s, p, 0), NEW d \in Cells \ FreshIn(s, p, 0), p[d] # "blank"
      PROVE  d < c \/ (p[c] = "prompt" /\ p[d] = "prompt" /\ c \div Cols = d \div Cols)
  <2>1. c \in Cells /\ p[c] # "blank" /\ s[c] = "blank"
    BY <1>4 DEF FreshIn
  <2>2. s[d] # "blank"
    BY <1>4, <1>9 DEF FreshIn
  <2>3. d < x
    BY <1>7, <2>2
  <2>4. CASE c = x
    BY <2>3, <2>4
  <2>5. CASE c = r \/ c = r + 1
    <3>1. x = r + 2
      BY <1>1, <1>4, <2>1, <2>5
    <3>2. CASE d < r
      BY <1>4, <2>5, <3>2
    <3>3. CASE d = r \/ d = r + 1
      <4>1. c \in r .. r + Cols - 1 /\ d \in r .. r + Cols - 1
        BY <1>4, <2>5, <3>3
      <4>2. c \div Cols = row /\ d \div Cols = row
        BY <1>1, <4>1, RowOfCell
      <4> QED BY <1>6, <2>1, <2>5, <3>3, <4>2
    <3> QED BY <1>4, <2>3, <3>1, <3>2, <3>3
  <2> QED BY <1>6, <2>1, <2>4, <2>5
<1> QED BY <1>1, <1>2, <1>3, <1>8, <1>9 DEF AppendedBy

-----------------------------------------------------------------------------
(* What a part leaves on its row, on the screen and below it.               *)

\* A text that is printed on the screen, where no row is too short for it.
LEMMA PrintAbove ==
    ASSUME NEW s \in [Cells -> Marks], NEW line \in Nat, line < Rows, NEW col \in Nat,
           NEW len \in Nat, NEW mark \in Marks
    PROVE  /\ print(s, line, col, len, mark) \in [Cells -> Marks]
           /\ print(s, line, col, len, mark) = Put(s, Start(line) + col, len, mark)
           /\ \A c \in Cells : print(s, line, col, len, mark)[c] =
                 IF Start(line) + col <= c /\ c < Start(line) + col + len THEN mark ELSE s[c]
           /\ Start(line) \in Nat /\ Start(line + 1) = Start(line) + Cols
           /\ \A c \in Start(line) .. Start(line) + Cols - 1 : c \in Cells
<1>1. Start(line) \in Nat /\ Start(line + 1) = Start(line) + Cols
  <2>1. line \in Int /\ line \in Nat
    OBVIOUS
  <2>2. Start(line) \in Int /\ Start(line + 1) = Start(line) + Cols
    BY <2>1, RowsFollow
  <2>3. Start(line) >= 0
    BY <2>1, RowsFollow
  <2> QED BY <2>2, <2>3
<1>2. \A c \in Start(line) .. Start(line) + Cols - 1 : c \in Cells
  <2>1. PICK n, a : n = Start(Rows) /\ a = Start(line) /\ n \in Int /\ a \in Nat /\ a + Cols <= n
    <3>1. Rows \in Int
      BY RowsFollow
    <3>2. Start(Rows) \in Int
      BY <3>1, RowsFollow
    <3> QED BY <1>1, <3>2, RowsFit
  <2>2. Cells = 0 .. n - 1 /\ Cols \in Nat
    BY <2>1, RowsFollow
  <2> QED BY <2>1, <2>2
<1>3. print(s, line, col, len, mark) = Put(s, Start(line) + col, len, mark)
  <2>1. ~ line >= Rows
    BY RowsFollow
  <2> QED BY <2>1, PrintPlace
<1>4. PICK x : x = Start(line) + col /\ x \in Int
  BY <1>1
<1>5. /\ Put(s, x, len, mark) \in [Cells -> Marks]
      /\ \A c \in Cells : Put(s, x, len, mark)[c] = IF x <= c /\ c < x + len THEN mark ELSE s[c]
  BY <1>4, PutCells
<1> QED BY <1>1, <1>2, <1>3, <1>4, <1>5

\* A text below it: the screen is scrolled, and the text is on its last row.
LEMMA PrintBelow ==
    ASSUME NEW s \in [Cells -> Marks], NEW line \in Nat, line >= Rows, NEW col \in Nat,
           NEW len \in Nat, NEW mark \in Marks
    PROVE  /\ print(s, line, col, len, mark) \in [Cells -> Marks]
           /\ print(s, line, col, len, mark) =
                 Put(scroll_screen(s), Start(Rows - 1) + col, len, mark)
           /\ \A c \in Cells : c >= Start(Rows - 1) => print(s, line, col, len, mark)[c] =
                 IF Start(Rows - 1) + col <= c /\ c < Start(Rows - 1) + col + len THEN mark ELSE "blank"
           /\ Start(Rows - 1) \in Nat
           /\ \A c \in Start(Rows - 1) .. Start(Rows - 1) + Cols - 1 : c \in Cells
<1>1. PICK b : b = Start(Rows - 1) /\ b \in Nat
  BY LastRowStarts
<1>2. Cells = 0 .. (b + Cols) - 1 /\ Cols \in Nat
  BY <1>1, RowsFollow
<1>3. \A c \in b .. b + Cols - 1 : c \in Cells
  BY <1>1, <1>2
<1>4. PICK r : /\ r = scroll_screen(s) /\ r \in [Cells -> Marks]
               /\ \A c \in Cells : r[c] = IF c < b THEN s[c + Cols] ELSE "blank"
  BY <1>1, ScrollCells
<1>5. PICK x : x = b + col /\ x \in Int
  BY <1>1
<1>6. print(s, line, col, len, mark) = Put(r, x, len, mark)
  BY <1>1, <1>4, <1>5, PrintPlace
<1>7. /\ Put(r, x, len, mark) \in [Cells -> Marks]
      /\ \A c \in Cells : Put(r, x, len, mark)[c] = IF x <= c /\ c < x + len THEN mark ELSE r[c]
  BY <1>4, <1>5, PutCells
<1>8. \A c \in Cells : c >= b => Put(r, x, len, mark)[c] =
        IF x <= c /\ c < x + len THEN mark ELSE "blank"
  BY <1>1, <1>2, <1>4, <1>7
<1> QED BY <1>1, <1>3, <1>4, <1>5, <1>6, <1>7, <1>8

\* The lengths of what is printed, and what it is made of.
LEMMA PartLengths ==
    ASSUME NEW x \in Parts, x.do = "print", NEW len \in x.lens, NEW mark \in x.marks
    PROVE  /\ len \in Nat /\ x.col \in Nat /\ x.col + len <= Cols
           /\ mark \in Marks \ {"blank"}
<1>1. Cols \in Nat /\ Cols > 3 /\ \A n \in Lengths : n \in Nat /\ n + 2 <= Cols
  BY ScreenAssumption
<1>2. mark \in Marks \ {"blank"}
  <2>1. x.marks \in {Characters, {"prompt"}}
    BY PartValues DEF Parts
  <2> QED BY <2>1, ScreenAssumption DEF Marks
<1>3. CASE x \in {Line, Half, Rest}
  <2>1. x.col \in {0, 2} /\ len \in Lengths
    BY <1>3, PartValues
  <2> QED BY <1>1, <1>2, <2>1
<1>4. CASE x \in {Prompt, Result, Path(1), Path(3), Angle}
  <2>1. \/ x.col = 0 /\ len \in {1, 2, 3}
        \/ x.col \in {1, 2} /\ len = 1
    BY <1>4, PartValues
  <2> QED BY <1>1, <1>2, <2>1
<1>5. CASE x \in {Ask, Clamp, Clear}
  BY <1>5, PartValues
<1> QED BY <1>3, <1>4, <1>5 DEF Parts

\* How far a part moves the counter.
Moved(x, line) == line + (IF x.next THEN 1 ELSE 0)

\* A part on the screen leaves its row as its turn says, and stands behind the rest.
LEMMA TurnAbove ==
    ASSUME NEW s \in [Cells -> Marks], NEW line \in Nat, line < Rows,
           NEW c, NEW x \in Parts, NEW v \in Stops, NEW z \in Stops, Turn(c, x, v, z), x.do = "print",
           NEW len \in x.lens, NEW mark \in x.marks, Stands(v.row, s, line)
    PROVE  /\ Stands(z.row, print(s, line, x.col, len, mark), Moved(x, line))
           /\ AppendedBy(s, print(s, line, x.col, len, mark), 0, {})
<1>1. len \in Nat /\ x.col \in Nat /\ x.col + len <= Cols /\ mark \in Marks \ {"blank"}
  BY PartLengths
<1>2. PICK p, a, n : /\ p = print(s, line, x.col, len, mark) /\ a = Start(line)
                     /\ n = x.col
  OBVIOUS
<1>3. /\ p \in [Cells -> Marks] /\ p = Put(s, a + n, len, mark)
      /\ \A b \in Cells : p[b] = IF a + n <= b /\ b < a + n + len THEN mark ELSE s[b]
      /\ a \in Nat /\ Start(line + 1) = a + Cols
      /\ \A b \in a .. a + Cols - 1 : b \in Cells
  <2>2. n \in Nat /\ len \in Nat /\ mark \in Marks /\ p = print(s, line, n, len, mark)
    BY <1>1, <1>2
  <2>3. /\ print(s, line, n, len, mark) \in [Cells -> Marks]
        /\ print(s, line, n, len, mark) = Put(s, Start(line) + n, len, mark)
        /\ \A b \in Cells : print(s, line, n, len, mark)[b] =
              IF Start(line) + n <= b /\ b < Start(line) + n + len THEN mark ELSE s[b]
        /\ Start(line) \in Nat /\ Start(line + 1) = Start(line) + Cols
        /\ \A b \in Start(line) .. Start(line) + Cols - 1 : b \in Cells
    <3>1. print(s, line, n, len, mark) \in [Cells -> Marks]
      BY <2>2, PrintAbove
    <3>2. print(s, line, n, len, mark) = Put(s, Start(line) + n, len, mark)
      BY <2>2, PrintAbove
    <3>3. \A b \in Cells : print(s, line, n, len, mark)[b] =
              IF Start(line) + n <= b /\ b < Start(line) + n + len THEN mark ELSE s[b]
      BY <2>2, PrintAbove
    <3>4. Start(line) \in Nat /\ Start(line + 1) = Start(line) + Cols
      BY <2>2, PrintAbove
    <3>5. \A b \in Start(line) .. Start(line) + Cols - 1 : b \in Cells
      BY <2>2, PrintAbove
    <3> QED BY <3>1, <3>2, <3>3, <3>4, <3>5
  <2> QED BY <1>2, <2>3
<1>4. Cells \subseteq Int /\ Cols \in Nat /\ Cols > 3 /\ Rows \in Nat
  BY RowsFollow
<1>5. n \in Nat /\ n + len <= Cols
  BY <1>1, <1>2
<1>6. ASSUME NEW edge \in Int, BlankFrom(s, edge),
             \A b \in Cells : a + n <= b /\ b < edge => s[b] = mark
      PROVE  AppendedBy(s, p, 0, {})
  <2>1. a + n \in Int /\ len \in Int
    BY <1>1, <1>3, <1>5
  <2> QED BY <1>1, <1>3, <1>6, <2>1, AppendText
<1>7. ASSUME v.row = "free"
      PROVE  BlankFrom(s, a) /\ AppendedBy(s, p, 0, {})
  <2>1. BlankFrom(s, a)
    BY <1>2, <1>7 DEF Stands, FreeRow
  <2>2. \A b \in Cells : a + n <= b /\ b < a => s[b] = mark
    BY <1>3, <1>4, <1>5
  <2> QED BY <1>3, <1>6, <2>1, <2>2
<1>8. ~ line >= Rows
  BY <1>4
<1>9. CASE x = Line /\ v.row = "free" /\ z.row = "free"
  <2>1. Moved(x, line) = line + 1
    BY <1>9, PartValues DEF Moved
  <2>2. \A b \in Cells : b >= a + Cols => p[b] = "blank"
    BY <1>1, <1>3, <1>4, <1>5, <1>7, <1>9 DEF BlankFrom
  <2>3. FreeRow(p, line + 1)
    BY <1>3, <2>2 DEF FreeRow, BlankFrom
  <2> QED BY <1>2, <1>7, <1>9, <2>1, <2>3 DEF Stands
<1>10. CASE x = Half /\ v.row = "free" /\ z.row = "half"
  <2>1. Moved(x, line) = line /\ n = 0 /\ len <= 2
    BY <1>2, <1>10, PartValues DEF Moved
  <2>2. BlankFrom(p, a + 2)
    BY <1>1, <1>3, <1>4, <1>7, <1>10, <2>1 DEF BlankFrom
  <2>3. HalfRow(p, line)
    BY <1>2, <2>2 DEF HalfRow
  <2> QED BY <1>2, <1>7, <1>10, <2>1, <2>3 DEF Stands
<1>11. CASE x = Rest /\ v.row \in {"free", "half"} /\ z.row = "free"
  <2>1. Moved(x, line) = line + 1 /\ n = 2
    BY <1>2, <1>11, PartValues DEF Moved
  <2>2. BlankFrom(s, a + 2)
    <3>1. CASE v.row = "half"
      BY <1>2, <3>1 DEF Stands, HalfRow
    <3>2. CASE v.row = "free"
      BY <1>3, <1>4, <1>7, <3>2 DEF BlankFrom
    <3> QED BY <1>11, <3>1, <3>2
  <2>3. \A b \in Cells : b >= a + Cols => p[b] = "blank"
    BY <1>1, <1>3, <1>4, <1>5, <2>1, <2>2 DEF BlankFrom
  <2>4. FreeRow(p, line + 1)
    BY <1>3, <2>3 DEF FreeRow, BlankFrom
  <2>5. AppendedBy(s, p, 0, {})
    <3>1. a + 2 \in Int /\ \A b \in Cells : a + n <= b /\ b < a + 2 => s[b] = mark
      BY <1>3, <1>4, <2>1
    <3> QED BY <1>6, <2>2, <3>1
  <2> QED BY <1>2, <1>11, <2>1, <2>4, <2>5 DEF Stands
<1>12. CASE x = Prompt /\ v.row = "free" /\ z.row = "prompted"
  <2>1. Moved(x, line) = line /\ n = 0 /\ mark = "prompt" /\ len = 2
    BY <1>2, <1>4, <1>12, PartValues DEF Moved
  <2>2. BlankFrom(p, a + 2)
    BY <1>3, <1>4, <1>7, <1>12, <2>1 DEF BlankFrom
  <2>3. \A b \in a .. a + 1 : p[b] = "prompt"
    BY <1>3, <1>4, <2>1
  <2>4. PromptRow(p, line)
    BY <1>2, <1>8, <2>2, <2>3 DEF PromptRow
  <2> QED BY <1>2, <1>7, <1>12, <2>1, <2>4 DEF Stands
<1>13. CASE x = Result /\ v.row = "prompted" /\ z.row = "asked"
  <2>1. Moved(x, line) = line + 1 /\ n = 2 /\ len = 1 /\ (line + 1) - 1 = line
    BY <1>2, <1>4, <1>13, PartValues DEF Moved
  <2>2. BlankFrom(s, a + 2) /\ \A b \in a .. a + 1 : s[b] = "prompt"
    <3>1. ~ line >= Rows
      BY <1>4
    <3> QED BY <1>2, <1>13, <3>1 DEF Stands, PromptRow
  <2>3. BlankFrom(p, a + 3)
    <3>1. SUFFICES ASSUME NEW b \in Cells, b >= a + 3 PROVE p[b] = "blank"
      BY DEF BlankFrom
    <3>2. b \in Int /\ a \in Nat /\ a + n + len = a + 3
      BY <1>3, <1>4, <2>1
    <3>3. p[b] = s[b]
      BY <1>3, <3>1, <3>2
    <3> QED BY <2>2, <3>1, <3>2, <3>3 DEF BlankFrom
  <2>4. \A b \in a .. a + 1 : p[b] = "prompt"
    BY <1>3, <1>4, <2>1, <2>2
  <2>5. AskedRow(p, line + 1)
    BY <1>2, <2>1, <2>3, <2>4 DEF AskedRow
  <2>6. AppendedBy(s, p, 0, {})
    <3>1. a + 2 \in Int /\ \A b \in Cells : a + n <= b /\ b < a + 2 => s[b] = mark
      BY <1>3, <1>4, <2>1
    <3> QED BY <1>6, <2>2, <3>1
  <2> QED BY <1>2, <1>13, <2>1, <2>5, <2>6 DEF Stands
<1>14. CASE x = Path(1) /\ v.row = "free" /\ z.row = "path"
  <2>1. Moved(x, line) = line /\ n = 0 /\ mark = "prompt" /\ len = 1
    BY <1>2, <1>4, <1>14, PartValues DEF Moved
  <2>2. BlankFrom(p, a + 1)
    BY <1>3, <1>4, <1>7, <1>14, <2>1 DEF BlankFrom
  <2>3. p[a] = "prompt"
    BY <1>3, <1>4, <2>1
  <2>4. PathRow(p, line)
    BY <1>2, <2>2, <2>3 DEF PathRow
  <2> QED BY <1>2, <1>7, <1>14, <2>1, <2>4 DEF Stands
<1>15. CASE x = Path(3) /\ v.row = "free" /\ z.row = "long"
  <2>1. Moved(x, line) = line /\ n = 0 /\ mark = "prompt" /\ len = 3
    BY <1>2, <1>4, <1>15, PartValues DEF Moved
  <2>2. BlankFrom(p, a + 3)
    BY <1>3, <1>4, <1>7, <1>15, <2>1 DEF BlankFrom
  <2>3. \A b \in a .. a + 2 : p[b] = "prompt"
    BY <1>3, <1>4, <2>1
  <2>4. LongRow(p, line)
    BY <1>2, <2>2, <2>3 DEF LongRow
  <2> QED BY <1>2, <1>7, <1>15, <2>1, <2>4 DEF Stands
<1>16. CASE x = Angle /\ v.row = "path" /\ z.row = "prompted"
  <2>1. Moved(x, line) = line /\ n = 1 /\ mark = "prompt" /\ len = 1
    BY <1>2, <1>4, <1>16, PartValues DEF Moved
  <2>2. BlankFrom(s, a + 1) /\ s[a] = "prompt"
    BY <1>2, <1>16 DEF Stands, PathRow
  <2>3. BlankFrom(p, a + 2)
    BY <1>3, <1>4, <2>1, <2>2 DEF BlankFrom
  <2>4. \A b \in a .. a + 1 : p[b] = "prompt"
    BY <1>3, <1>4, <2>1, <2>2
  <2>5. PromptRow(p, line)
    BY <1>2, <1>8, <2>3, <2>4 DEF PromptRow
  <2>6. AppendedBy(s, p, 0, {})
    <3>1. a + 1 \in Int /\ \A b \in Cells : a + n <= b /\ b < a + 1 => s[b] = mark
      BY <1>3, <1>4, <2>1
    <3> QED BY <1>6, <2>2, <3>1
  <2> QED BY <1>2, <1>16, <2>1, <2>5, <2>6 DEF Stands
<1>17. CASE x = Angle /\ v.row = "long" /\ z.row = "spoiled"
  <2>1. Moved(x, line) = line /\ n = 1 /\ mark = "prompt" /\ len = 1
    BY <1>2, <1>4, <1>17, PartValues DEF Moved
  <2>2. BlankFrom(s, a + 3) /\ \A b \in a .. a + 2 : s[b] = "prompt"
    BY <1>2, <1>17 DEF Stands, LongRow
  <2>3. BlankFrom(p, a + 3)
    BY <1>3, <1>4, <2>1, <2>2 DEF BlankFrom
  <2>4. SpoiledRow(p, line)
    BY <1>2, <2>3 DEF SpoiledRow
  <2>5. AppendedBy(s, p, 0, {})
    <3>1. a + 3 \in Int /\ \A b \in Cells : a + n <= b /\ b < a + 3 => s[b] = mark
      BY <1>3, <1>4, <2>1, <2>2
    <3> QED BY <1>6, <2>2, <3>1
  <2> QED BY <1>2, <1>17, <2>1, <2>4, <2>5 DEF Stands
<1>18. \/ x = Line /\ v.row = "free" /\ z.row = "free"
       \/ x = Half /\ v.row = "free" /\ z.row = "half"
       \/ x = Rest /\ v.row \in {"free", "half"} /\ z.row = "free"
       \/ x = Prompt /\ v.row = "free" /\ z.row = "prompted"
       \/ x = Result /\ v.row = "prompted" /\ z.row = "asked"
       \/ x = Path(1) /\ v.row = "free" /\ z.row = "path"
       \/ x = Path(3) /\ v.row = "free" /\ z.row = "long"
       \/ x = Angle /\ v.row = "path" /\ z.row = "prompted"
       \/ x = Angle /\ v.row = "long" /\ z.row = "spoiled"
  BY PartValues DEF Turn
<1> QED BY <1>9, <1>10, <1>11, <1>12, <1>13, <1>14, <1>15, <1>16, <1>17, <1>18

\* The same for a part below the screen, whatever stands on the last row.
LEMMA TurnBelow ==
    ASSUME NEW s \in [Cells -> Marks], NEW line \in Nat, line >= Rows,
           NEW c, NEW x \in Parts, NEW v \in Stops, NEW z \in Stops, Turn(c, x, v, z), x.do = "print",
           NEW len \in x.lens, NEW mark \in x.marks
    PROVE  /\ Stands(z.row, print(s, line, x.col, len, mark), Moved(x, line))
           /\ AppendedBy(s, print(s, line, x.col, len, mark), Cols, {})
<1>1. len \in Nat /\ x.col \in Nat /\ x.col + len <= Cols /\ mark \in Marks \ {"blank"}
  BY PartLengths
<1>2. PICK p, b, n : p = print(s, line, n, len, mark) /\ b = Start(Rows - 1) /\ n = x.col
  OBVIOUS
<1>3. n \in Nat /\ len \in Nat /\ mark \in Marks
  BY <1>1, <1>2
<1>4. /\ p \in [Cells -> Marks]
      /\ p = Put(scroll_screen(s), b + n, len, mark)
      /\ \A d \in Cells : d >= b => p[d] = IF b + n <= d /\ d < b + n + len THEN mark ELSE "blank"
      /\ b \in Nat
      /\ \A d \in b .. b + Cols - 1 : d \in Cells
  <2>1. p \in [Cells -> Marks]
    BY <1>2, <1>3, PrintBelow
  <2>2. p = Put(scroll_screen(s), b + n, len, mark)
    BY <1>2, <1>3, PrintBelow
  <2>3. \A d \in Cells : d >= b => p[d] = IF b + n <= d /\ d < b + n + len THEN mark ELSE "blank"
    <3>1. \A d \in Cells : d >= Start(Rows - 1) => print(s, line, n, len, mark)[d] =
            IF Start(Rows - 1) + n <= d /\ d < Start(Rows - 1) + n + len THEN mark ELSE "blank"
      BY <1>3, PrintBelow
    <3> QED BY <1>2, <3>1
  <2>4. b \in Nat
    BY <1>2, LastRowStarts
  <2>5. \A d \in b .. b + Cols - 1 : d \in Cells
    BY <1>2, <1>3, PrintBelow
  <2> QED BY <2>1, <2>2, <2>3, <2>4, <2>5
<1>5. Cells \subseteq Int /\ Cols \in Nat /\ Cols > 3 /\ Rows \in Nat
  BY RowsFollow
<1>6. AppendedBy(s, p, Cols, {})
  <2>1. b + n \in Int /\ b + n >= b /\ len \in Int /\ mark \in Marks \ {"blank"}
    BY <1>1, <1>2, <1>3, <1>4
  <2> QED BY <1>2, <1>4, <2>1, AppendScrolled
<1>7. \A l \in Nat : l >= Rows =>
        FreeRow(p, l) /\ HalfRow(p, l) /\ PathRow(p, l) /\ LongRow(p, l) /\ SpoiledRow(p, l)
  BY <1>5 DEF FreeRow, HalfRow, PathRow, LongRow, SpoiledRow
<1>8. CASE z.row \in {"free", "half", "path", "long", "spoiled"}
  <2>1. Moved(x, line) \in Nat /\ Moved(x, line) >= Rows
    BY <1>5 DEF Moved
  <2> QED BY <1>2, <1>6, <1>7, <1>8, <2>1 DEF Stands
<1>9. CASE z.row = "asked" /\ x = Result
  <2>1. Moved(x, line) = line + 1 /\ (line + 1) - 1 = line
    BY <1>9, PartValues DEF Moved
  <2>2. AskedRow(p, line + 1)
    BY <1>5, <2>1 DEF AskedRow
  <2> QED BY <1>2, <1>6, <1>9, <2>1, <2>2 DEF Stands
<1>10. CASE z.row = "prompted" /\ x \in {Prompt, Angle}
  <2>1. Moved(x, line) = line /\ mark = "prompt" /\ n + len = 2
    BY <1>2, <1>10, PartValues DEF Moved
  <2>2. BlankFrom(p, b + 2)
    BY <1>3, <1>4, <1>5, <2>1 DEF BlankFrom
  <2>3. \A d \in b .. b + 1 : p[d] = "prompt" \/ p[d] = "blank"
    BY <1>4, <1>5, <2>1
  <2>4. PromptRow(p, line)
    BY <1>2, <2>2, <2>3 DEF PromptRow
  <2> QED BY <1>2, <1>6, <1>10, <2>1, <2>4 DEF Stands
<1>11. \/ z.row \in {"free", "half", "path", "long", "spoiled"}
       \/ z.row = "asked" /\ x = Result
       \/ z.row = "prompted" /\ x \in {Prompt, Angle}
  BY PartValues DEF Turn
<1> QED BY <1>8, <1>9, <1>10, <1>11

-----------------------------------------------------------------------------
(* The steps of scanf.                                                      *)

\* The video card's position is on the screen, or just behind it.
LEMMA CursorOnScreen ==
    ASSUME NEW q, NEW x \in 0 .. Cols, NEW row \in Nat, update_cursor(q, x, row)
    PROVE  /\ screen' = IF row >= Rows THEN scroll_screen(q) ELSE q
           /\ cursor' \in 0 .. Rows * Cols
           /\ row < Rows => cursor' = Start(row) + x
<1>1. PICK r : r = IF row >= Rows THEN Rows - 1 ELSE row
  OBVIOUS
<1>2. r \in Nat /\ r < Rows /\ Cols \in Nat /\ Rows \in Nat
  BY <1>1, RowsFollow
<1>3. Start(r) \in Nat /\ Start(r) + Cols <= Start(Rows)
  <2>1. Start(r) \in Int
    BY <1>2, RowsFollow
  <2>2. Start(r) >= 0
    BY <1>2, RowsFollow
  <2> QED BY <1>2, <2>1, <2>2, RowsFit
<1>4. Start(Rows) = Rows * Cols /\ Start(Rows) \in Int
  <2>1. Rows \in Int
    BY <1>2
  <2> QED BY <2>1, RowsFollow DEF Start
<1>5. cursor' = Start(r) + x
  BY <1>1 DEF update_cursor, Start
<1>6. cursor' \in 0 .. Start(Rows)
  BY <1>2, <1>3, <1>4, <1>5
<1>7. row < Rows => r = row
  BY <1>1, <1>2
<1> QED BY <1>4, <1>5, <1>6, <1>7 DEF update_cursor

\* What a step that leaves all but the screen alone does not disturb.
LEMMA SameCourse ==
    ASSUME Asking, Waiting, UNCHANGED <<current_line, cmd, todo, pc, at>>
    PROVE  Asking' /\ Waiting' /\ (Crowded' <=> Crowded)
BY DEF Asking, Waiting, Crowded

\* A row on the screen, as scanf writes on it.
LEMMA TypingRow ==
    ASSUME TypeOK, Typing
    PROVE  /\ at.row \in Nat /\ at.col \in {2, 3} /\ typed \in Nat /\ Cols \in Nat
           /\ Start(at.row) \in Nat /\ Start(at.row + 1) = Start(at.row) + Cols
           /\ at.col + typed <= Cols
           /\ at.row < Rows => \A c \in Start(at.row) .. Start(at.row) + Cols - 1 : c \in Cells
<1>1. /\ at.row \in Nat /\ at.row \in Int /\ at.col \in {2, 3} /\ typed \in Nat /\ Cols \in Nat
      /\ at.col + typed <= Cols
  BY ScreenAssumption DEF TypeOK, Typing
<1>2. Start(at.row) \in Int /\ Start(at.row + 1) = Start(at.row) + Cols
  BY <1>1, RowsFollow
<1>3. Start(at.row) >= 0
  BY <1>1, RowsFollow
<1>4. at.row < Rows => \A c \in Start(at.row) .. Start(at.row) + Cols - 1 : c \in Cells
  <2>1. SUFFICES ASSUME at.row < Rows
                 PROVE  \A c \in Start(at.row) .. Start(at.row) + Cols - 1 : c \in Cells
    OBVIOUS
  <2>2. PICK a, n : /\ a = Start(at.row) /\ n = Start(Rows)
                    /\ a \in Nat /\ n \in Int /\ a + Cols <= n
    <3>1. Rows \in Int
      BY RowsFollow
    <3>2. Start(Rows) \in Int
      BY <3>1, RowsFollow
    <3> QED BY <1>1, <1>2, <1>3, <2>1, <3>2, RowsFit
  <2>3. Cells = 0 .. n - 1
    BY <2>2, RowsFollow
  <2> QED BY <1>1, <2>2, <2>3
<1> QED BY <1>1, <1>2, <1>3, <1>4

\* A letter: it stands where the cursor was, behind a whole prompt.
LEMMA LetterStep ==
    ASSUME TInv, Letter
    PROVE  TInv' /\ (Crowded \/ StepAppends)
<1>1. TypeOK /\ Asking /\ Waiting /\ Below /\ Typing
  BY DEF TInv
<1>2. PICK a, x, col, q : /\ a = Start(at.row) /\ x = Start(at.row) + at.col + typed
                          /\ col = at.col + typed + 1 /\ q = Put(screen, x, 1, "key")
  OBVIOUS
<1>3. /\ a \in Nat /\ at.row \in Nat /\ at.col \in {2, 3} /\ typed \in Nat /\ Cols \in Nat
      /\ x = a + at.col + typed /\ x \in Nat /\ a + 2 <= x /\ x < a + Cols
      /\ col \in 0 .. Cols /\ x + 1 = a + col
  <2>1. at.col + typed < Cols
    BY DEF Letter
  <2> QED BY <1>1, <1>2, <2>1, TypingRow
<1>4. Input = a + at.col /\ Input + typed = x
  BY <1>2, <1>3 DEF Input, Start
<1>5. /\ pc = "scanf" /\ typed' = typed + 1
      /\ update_cursor(print(q, at.row, 0, 2, "prompt"), col, at.row)
      /\ UNCHANGED <<current_line, cmd, todo, pc, at>>
  BY <1>2, <1>4 DEF Letter
<1>6. /\ screen' = (IF at.row >= Rows THEN scroll_screen(print(q, at.row, 0, 2, "prompt"))
                                      ELSE print(q, at.row, 0, 2, "prompt"))
      /\ cursor' \in 0 .. Rows * Cols
      /\ at.row < Rows => cursor' = a + col
  BY <1>2, <1>3, <1>5, CursorOnScreen
<1>7. screen \in [Cells -> Marks] /\ "key" \in Marks /\ "prompt" \in Marks /\ Rows \in Nat
  BY <1>1, RowsFollow DEF TypeOK, Marks
<1>8. /\ q \in [Cells -> Marks]
      /\ \A c \in Cells : q[c] = IF x <= c /\ c < x + 1 THEN "key" ELSE screen[c]
  BY <1>2, <1>3, <1>7, PutCells
<1>9. print(q, at.row, 0, 2, "prompt") \in [Cells -> Marks]
  <2>1. CASE at.row < Rows
    BY <1>3, <1>7, <1>8, <2>1, PrintAbove
  <2>2. CASE at.row >= Rows
    BY <1>3, <1>7, <1>8, <2>2, PrintBelow
  <2> QED BY <1>3, <1>7, <2>1, <2>2
<1>10. screen' \in [Cells -> Marks]
  BY <1>6, <1>9, ScrollCells
<1>11. typed' \in 0 .. Cols /\ at.col + typed' <= Cols
  BY <1>2, <1>3, <1>5
<1>12. TypeOK'
  BY <1>1, <1>5, <1>6, <1>10, <1>11 DEF TypeOK
<1>13. Asking' /\ Waiting' /\ (Crowded' <=> Crowded)
  BY <1>1, <1>5, SameCourse
<1>14. Running'
  BY <1>5 DEF Running
<1>15. CASE at.row >= Rows
  <2>1. Crowded
    BY <1>5, <1>15 DEF Crowded
  <2>2. Below'
    BY <1>3, <1>5, <1>7, <1>15 DEF Below, FreeRow
  <2>3. Typing'
    BY <1>5, <1>11, <1>13, <2>1 DEF Typing
  <2> QED BY <1>12, <1>13, <1>14, <2>1, <2>2, <2>3 DEF TInv
<1>16. CASE at.row < Rows
  <2>1. \A c \in a .. a + Cols - 1 : c \in Cells
    BY <1>1, <1>2, <1>16, TypingRow
  <2>2. screen' = Put(q, a, 2, "prompt")
    <3>1. a + 0 = a /\ ~ at.row >= Rows
      BY <1>3, <1>7, <1>16
    <3>2. print(q, at.row, 0, 2, "prompt") = Put(q, a + 0, 2, "prompt")
      BY <1>2, <3>1, PrintPlace
    <3> QED BY <1>6, <3>1, <3>2
  <2>3. Cells \subseteq Int
    BY RowsFollow
  <2>4. \A c \in Cells : screen'[c] =
          IF a <= c /\ c < a + 2 THEN "prompt" ELSE IF c = x THEN "key" ELSE screen[c]
    <3>1. \A c \in Cells : screen'[c] = IF a <= c /\ c < a + 2 THEN "prompt" ELSE q[c]
      BY <1>3, <1>7, <1>8, <2>2, PutCells
    <3> QED BY <1>3, <1>8, <2>3, <3>1
  <2>5. Below'
    <3>1. Start(at.row + 1) = a + Cols
      BY <1>1, <1>2, TypingRow
    <3>2. FreeRow(screen, at.row + 1)
      BY <1>1, <1>5 DEF Below
    <3>3. FreeRow(screen', at.row + 1)
      BY <1>3, <2>3, <2>4, <3>1, <3>2 DEF FreeRow, BlankFrom
    <3> QED BY <1>5, <3>3 DEF Below
  <2>6. CASE Crowded
    <3>1. Typing'
      BY <1>5, <1>11, <1>13, <2>6 DEF Typing
    <3> QED BY <1>12, <1>13, <1>14, <2>5, <2>6, <3>1 DEF TInv
  <2>7. CASE ~Crowded
    <3>1. /\ BlankFrom(screen, x)
          /\ \A c \in a + at.col .. x - 1 : screen[c] = "key"
          /\ \A c \in a .. a + 1 :
                screen[c] = "prompt" \/ (screen[c] = "blank" /\ typed = 0 /\ at.col = 2)
      <4>1. /\ BlankFrom(screen, Start(at.row) + at.col + typed)
            /\ \A c \in Start(at.row) + at.col .. Start(at.row) + at.col + typed - 1 :
                  screen[c] = "key"
        BY <1>1, <1>5, <2>7 DEF Typing
      <4>2. \A c \in Start(at.row) .. Start(at.row) + 1 :
               screen[c] = "prompt" \/ (screen[c] = "blank" /\ typed = 0 /\ at.col = 2)
        BY <1>1, <1>5, <2>7 DEF Typing
      <4>3. BlankFrom(screen, x)
        BY <1>2, <4>1
      <4>4. \A c \in a + at.col .. x - 1 : screen[c] = "key"
        <5>1. \A c \in a + at.col .. a + at.col + typed - 1 : screen[c] = "key"
          BY <1>2, <4>1
        <5>2. a + at.col + typed - 1 = x - 1
          BY <1>3
        <5> QED BY <5>1, <5>2
      <4>5. \A c \in a .. a + 1 :
               screen[c] = "prompt" \/ (screen[c] = "blank" /\ typed = 0 /\ at.col = 2)
        BY <1>2, <4>2
      <4> QED BY <4>3, <4>4, <4>5
    <3>2. BlankFrom(screen', x + 1)
      BY <1>3, <2>3, <2>4, <3>1 DEF BlankFrom
    <3>3. \A c \in a + at.col .. x : screen'[c] = "key"
      BY <1>3, <2>1, <2>4, <3>1
    <3>4. \A c \in a .. a + 1 : screen'[c] = "prompt"
      BY <1>3, <2>1, <2>4
    <3>5. cursor' = x + 1
      BY <1>3, <1>6, <1>16
    <3>6. a + at.col + typed' = x + 1 /\ a + at.col + typed' - 1 = x
      BY <1>3, <1>5
    <3>7. Typing'
      <4>1. typed' > 0 => pc' = "scanf"
        BY <1>5
      <4>2. /\ BlankFrom(screen', a + at.col + typed')
            /\ \A c \in a + at.col .. a + at.col + typed' - 1 : screen'[c] = "key"
            /\ \A c \in a .. a + 1 :
                  screen'[c] = "prompt" \/ (screen'[c] = "blank" /\ typed' = 0 /\ at.col = 2)
            /\ typed' > 0 => cursor' = a + at.col + typed'
        BY <3>2, <3>3, <3>4, <3>5, <3>6
      <4> QED BY <1>2, <1>5, <1>11, <4>1, <4>2 DEF Typing
    <3>8. AppendedBy(screen, screen', 0, {})
      <4>1. x \in Cells /\ Start(at.row) + 2 <= x
        BY <1>2, <1>3, <2>1
      <4>2. \A c \in Start(at.row) .. Start(at.row) + 1 :
              screen[c] = "prompt" \/ (screen[c] = "blank" /\ x = Start(at.row) + 2)
        BY <1>2, <1>3, <3>1
      <4> QED BY <1>2, <1>3, <1>7, <2>2, <3>1, <4>1, <4>2, AppendLetter
    <3>9. Erased = {}
      BY <1>3, <1>5 DEF Erased
    <3> QED BY <1>12, <1>13, <1>14, <2>5, <3>7, <3>8, <3>9, StepAppended DEF TInv
  <2> QED BY <2>6, <2>7
<1> QED BY <1>3, <1>7, <1>15, <1>16

\* A backspace: the last letter is taken back, and nothing else.
LEMMA BackspaceStep ==
    ASSUME TInv, Backspace
    PROVE  TInv' /\ (Crowded \/ StepAppends)
<1>1. TypeOK /\ Asking /\ Waiting /\ Below /\ Typing
  BY DEF TInv
<1>2. PICK a, x, col, q : /\ a = Start(at.row) /\ x = Start(at.row) + at.col + typed - 1
                          /\ col = at.col + typed - 1 /\ q = Put(screen, x, 1, "blank")
  OBVIOUS
<1>3. /\ a \in Nat /\ at.row \in Nat /\ at.col \in {2, 3} /\ typed \in Nat /\ typed > 0
      /\ Cols \in Nat /\ at.col + typed <= Cols
      /\ x = a + at.col + typed - 1 /\ x \in Nat /\ a + 2 <= x /\ x < a + Cols
      /\ col \in 0 .. Cols /\ x = a + col
  <2>1. typed > 0
    BY DEF Backspace
  <2> QED BY <1>1, <1>2, <2>1, TypingRow
<1>4. Input + typed - 1 = x
  BY <1>2, <1>3 DEF Input, Start
<1>5. /\ pc = "scanf" /\ typed' = typed - 1
      /\ update_cursor(q, col, at.row)
      /\ UNCHANGED <<current_line, cmd, todo, pc, at>>
  BY <1>2, <1>4 DEF Backspace
<1>6. /\ screen' = IF at.row >= Rows THEN scroll_screen(q) ELSE q
      /\ cursor' \in 0 .. Rows * Cols
      /\ at.row < Rows => cursor' = a + col
  BY <1>2, <1>3, <1>5, CursorOnScreen
<1>7. screen \in [Cells -> Marks] /\ "blank" \in Marks /\ Rows \in Nat /\ Cells \subseteq Int
  BY <1>1, RowsFollow DEF TypeOK, Marks
<1>8. q \in [Cells -> Marks] /\ \A c \in Cells : q[c] = IF c = x THEN "blank" ELSE screen[c]
  <2>1. q \in [Cells -> Marks]
    BY <1>2, <1>3, <1>7, PutCells
  <2>2. \A c \in Cells : q[c] = IF x <= c /\ c < x + 1 THEN "blank" ELSE screen[c]
    BY <1>2, <1>3, <1>7, PutCells
  <2> QED BY <1>3, <1>7, <2>1, <2>2
<1>9. screen' \in [Cells -> Marks]
  BY <1>6, <1>8, ScrollCells
<1>10. typed' \in 0 .. Cols /\ at.col + typed' <= Cols
  BY <1>3, <1>5
<1>11. TypeOK'
  BY <1>1, <1>5, <1>6, <1>9, <1>10 DEF TypeOK
<1>12. Asking' /\ Waiting' /\ (Crowded' <=> Crowded)
  BY <1>1, <1>5, SameCourse
<1>13. Running'
  BY <1>5 DEF Running
<1>14. CASE at.row >= Rows
  <2>1. Crowded
    BY <1>5, <1>14 DEF Crowded
  <2>2. Below'
    BY <1>3, <1>5, <1>7, <1>14 DEF Below, FreeRow
  <2>3. Typing'
    BY <1>5, <1>10, <1>12, <2>1 DEF Typing
  <2> QED BY <1>11, <1>12, <1>13, <2>1, <2>2, <2>3 DEF TInv
<1>15. CASE at.row < Rows
  <2>1. \A c \in a .. a + Cols - 1 : c \in Cells
    BY <1>1, <1>2, <1>15, TypingRow
  <2>2. screen' = q
    BY <1>3, <1>6, <1>7, <1>15
  <2>3. Below'
    <3>1. FreeRow(screen, at.row + 1)
      BY <1>1, <1>5 DEF Below
    <3>2. FreeRow(screen', at.row + 1)
      BY <1>8, <2>2, <3>1 DEF FreeRow, BlankFrom
    <3> QED BY <1>5, <3>2 DEF Below
  <2>4. StepAppends
    <3>1. Erased = {x}
      BY <1>3, <1>4, <1>5 DEF Erased
    <3>2. AppendedBy(screen, screen', 0, Erased)
      BY <1>2, <1>3, <1>7, <2>2, <3>1, AppendErased
    <3> QED BY <3>2, StepAppended
  <2>5. CASE Crowded
    <3>1. Typing'
      BY <1>5, <1>10, <1>12, <2>5 DEF Typing
    <3> QED BY <1>11, <1>12, <1>13, <2>3, <2>4, <3>1 DEF TInv
  <2>6. CASE ~Crowded
    <3>1. /\ BlankFrom(screen, Start(at.row) + at.col + typed)
          /\ \A c \in Start(at.row) + at.col .. Start(at.row) + at.col + typed - 1 :
                screen[c] = "key"
      BY <1>1, <1>5, <2>6 DEF Typing
    <3>2. \A c \in Start(at.row) .. Start(at.row) + 1 :
             screen[c] = "prompt" \/ (screen[c] = "blank" /\ typed = 0 /\ at.col = 2)
      BY <1>1, <1>5, <2>6 DEF Typing
    <3>3. BlankFrom(screen', x)
      BY <1>2, <1>3, <1>7, <1>8, <2>2, <3>1 DEF BlankFrom
    <3>4. \A c \in a + at.col .. x - 1 : screen'[c] = "key"
      BY <1>2, <1>3, <1>7, <1>8, <2>1, <2>2, <3>1
    <3>5. \A c \in a .. a + 1 : screen'[c] = "prompt"
      BY <1>2, <1>3, <1>7, <1>8, <2>1, <2>2, <3>2
    <3>6. cursor' = x /\ a + at.col + typed' = x /\ a + at.col + typed' - 1 = x - 1
      BY <1>3, <1>5, <1>6, <1>15
    <3>7. /\ BlankFrom(screen', a + at.col + typed')
          /\ \A c \in a + at.col .. a + at.col + typed' - 1 : screen'[c] = "key"
          /\ \A c \in a .. a + 1 :
                screen'[c] = "prompt" \/ (screen'[c] = "blank" /\ typed' = 0 /\ at.col = 2)
          /\ typed' > 0 => cursor' = a + at.col + typed'
      BY <3>3, <3>4, <3>5, <3>6
    <3>8. Typing'
      BY <1>2, <1>5, <1>10, <3>7 DEF Typing
    <3> QED BY <1>11, <1>12, <1>13, <2>3, <2>4, <3>8 DEF TInv
  <2> QED BY <2>5, <2>6
<1> QED BY <1>3, <1>7, <1>14, <1>15

\* Enter: the screen may scroll, and what it has scrolled away is not needed.
LEMMA EnterStep ==
    ASSUME TInv, Enter
    PROVE  TInv' /\ StepAppends
<1>1. TypeOK /\ Asking /\ Waiting /\ Below /\ Typing
  BY DEF TInv
<1>2. /\ pc = "scanf" /\ typed' = 0 /\ update_cursor(screen, at.col, at.row + 2)
      /\ pc' = (IF todo = <<>> THEN "shell" ELSE "command")
      /\ UNCHANGED <<current_line, cmd, todo, at>>
  BY DEF Enter
<1>3. /\ at.row \in Nat /\ at.col \in {2, 3} /\ Cols \in Nat /\ Cols > 3 /\ Rows \in Nat
      /\ at.col <= Cols
  <2>1. at.row \in Nat /\ at.col \in {2, 3}
    BY <1>1, TypingRow
  <2>2. Cols \in Nat /\ Cols > 3 /\ Rows \in Nat
    BY RowsFollow
  <2> QED BY <2>1, <2>2
<1>4. /\ screen' = IF at.row + 2 >= Rows THEN scroll_screen(screen) ELSE screen
      /\ cursor' \in 0 .. Rows * Cols
  <2>1. at.col \in 0 .. Cols /\ at.row + 2 \in Nat
    BY <1>3
  <2> QED BY <1>2, <2>1, CursorOnScreen
<1>5. screen \in [Cells -> Marks]
  BY <1>1 DEF TypeOK
<1>6. screen' \in [Cells -> Marks]
  BY <1>4, <1>5, ScrollCells
<1>7. FreeRow(screen', at.row + 1)
  <2>1. FreeRow(screen, at.row + 1)
    BY <1>1, <1>2 DEF Below
  <2>2. CASE at.row + 2 >= Rows
    <3>1. SUFFICES ASSUME at.row + 1 < Rows, NEW c \in Cells, c >= Start(at.row + 1)
                   PROVE  screen'[c] = "blank"
      BY DEF FreeRow, BlankFrom
    <3>2. at.row + 1 = Rows - 1
      BY <1>3, <2>2, <3>1
    <3>3. c \in Int /\ Start(Rows - 1) \in Nat
      BY RowsFollow, LastRowStarts
    <3>4. ~ c < Start(Rows - 1)
      BY <3>1, <3>2, <3>3
    <3> QED BY <1>4, <1>5, <2>2, <3>4, ScrollCells
  <2>3. CASE ~ at.row + 2 >= Rows
    BY <1>4, <2>1, <2>3
  <2> QED BY <2>2, <2>3
<1>8. StepAppends
  <2>1. Erased = {}
    BY <1>2 DEF Erased
  <2>2. \/ AppendedBy(screen, screen', 0, {})
        \/ AppendedBy(screen, screen', Cols, {})
    BY <1>4, <1>5, AppendNothing
  <2> QED BY <2>1, <2>2, StepAppended
<1>9. Typing'
  BY <1>2, <1>3 DEF Typing
<1>10. Below'
  BY <1>2, <1>7 DEF Below
<1>11. CASE todo = <<>>
  <2>1. current_line \in 0 .. Rows - 1 /\ at = [row |-> current_line, col |-> 2]
    BY <1>1, <1>2, <1>11 DEF Waiting
  <2>2. pc' = "shell"
    BY <1>2, <1>11
  <2>3. TypeOK'
    BY <1>1, <1>2, <1>3, <1>4, <1>6, <2>2 DEF TypeOK
  <2>4. Running' /\ Asking' /\ Waiting'
    BY <1>2, <1>11, <2>1, <2>2 DEF Running, Asking, Waiting
  <2> QED BY <1>8, <1>9, <1>10, <2>3, <2>4 DEF TInv
<1>12. CASE todo # <<>>
  <2>1. /\ current_line \in 1 .. Rows + 3 /\ at = [row |-> current_line - 1, col |-> 3]
        /\ \E v \in Stops : v.row = "free" /\ Planned(cmd, todo, v) /\ current_line <= v.high
    BY <1>1, <1>2, <1>12 DEF Asking
  <2>2. pc' = "command"
    BY <1>2, <1>12
  <2>3. TypeOK'
    BY <1>1, <1>2, <1>3, <1>4, <1>6, <2>2 DEF TypeOK
  <2>4. Running'
    <3>1. PICK v \in Stops : v.row = "free" /\ Planned(cmd, todo, v) /\ current_line <= v.high
      BY <2>1
    <3>2. at.row + 1 = current_line /\ current_line >= 1
      BY <1>3, <2>1
    <3>3. Stands(v.row, screen', current_line)
      BY <1>7, <3>1, <3>2 DEF Stands
    <3> QED BY <1>2, <3>1, <3>2, <3>3 DEF Running
  <2>5. Asking' /\ Waiting'
    BY <1>2, <1>12, <2>2 DEF Asking, Waiting
  <2> QED BY <1>8, <1>9, <1>10, <2>3, <2>4, <2>5 DEF TInv
<1> QED BY <1>11, <1>12

-----------------------------------------------------------------------------
(* The steps of the shell and its commands.                                 *)

\* The part of a course that is next, and the stop it leads to.
LEMMA NextTurn ==
    ASSUME NEW c, NEW t, NEW v \in Stops, Planned(c, t, v), t # <<>>
    PROVE  /\ Head(t) \in Parts
           /\ \E z \in Stops : Turn(c, Head(t), v, z) /\ Planned(c, Tail(t), z)
<1>1. PICK u \in Stops : Leads(c, t, v, u) /\ u.row = LastRow(c)
  BY DEF Planned
<1> QED BY <1>1, LeadsAway DEF Planned

\* While a command goes on, only its course matters.
LEMMA CommandGoesOn ==
    ASSUME TInv, pc # "scanf", pc' = "command", UNCHANGED <<cursor, at, typed>>,
           cmd' \in Commands, screen' \in [Cells -> Marks],
           NEW v \in Stops, Planned(cmd', todo', v),
           current_line' \in Nat, current_line' >= 1, current_line' <= v.high,
           Exempt' \/ Stands(v.row, screen', current_line')
    PROVE  TInv'
<1>1. TypeOK /\ Typing
  BY DEF TInv
<1>2. Running'
  BY DEF Running
<1>3. Asking' /\ Waiting' /\ Below'
  BY DEF Asking, Waiting, Below
<1>4. typed = 0
  BY <1>1 DEF TypeOK, Typing
<1>5. Typing'
  BY <1>1, <1>4 DEF Typing
<1>6. current_line' \in 0 .. Limit
  BY Limits DEF Stops
<1>7. TypeOK'
  BY <1>1, <1>6 DEF TypeOK, Limit
<1> QED BY <1>2, <1>3, <1>5, <1>7 DEF TInv

\* A step that leaves the screen alone appends nothing.
LEMMA NothingWritten ==
    ASSUME screen' = screen, screen \in [Cells -> Marks], typed' = typed \/ pc' # "scanf", typed \in Nat
    PROVE  StepAppends
<1>1. Erased = {}
  BY DEF Erased
<1> QED BY <1>1, AppendNothing, StepAppended

\* The shell takes a command on below the line that was typed.
LEMMA ShellStep ==
    ASSUME TInv, NEW c \in Commands, shell_func(c)
    PROVE  TInv' /\ StepAppends
<1>1. TypeOK /\ Waiting /\ Below
  BY DEF TInv
<1>2. /\ pc = "shell" /\ pc' = "command" /\ current_line' = current_line + 1
      /\ cmd' = c /\ todo' \in StepsOf(c) /\ UNCHANGED <<screen, cursor, at, typed>>
  BY DEF shell_func
<1>3. current_line \in 0 .. Rows - 1 /\ at.row = current_line
  BY <1>1, <1>2 DEF Waiting
<1>4. Planned(cmd', todo', Stop(Rows, "free"))
  BY <1>2, EveryCommand
<1>5. PICK v \in Stops : v = Stop(Rows, "free") /\ v.high = Rows /\ v.row = "free"
  BY Starts DEF Stop
<1>6. current_line' \in Nat /\ current_line' >= 1 /\ current_line' <= v.high
  BY <1>2, <1>3, <1>5, ScreenAssumption
<1>7. Stands(v.row, screen', current_line')
  <2>1. FreeRow(screen, current_line + 1)
    BY <1>1, <1>2, <1>3 DEF Below
  <2> QED BY <1>2, <1>5, <2>1 DEF Stands
<1>8. screen \in [Cells -> Marks] /\ typed \in Nat
  BY <1>1 DEF TypeOK
<1>9. TInv'
  BY <1>2, <1>4, <1>5, <1>6, <1>7, <1>8, CommandGoesOn
<1> QED BY <1>2, <1>8, <1>9, NothingWritten

\* What a command finds when it goes on.
LEMMA InCommand ==
    ASSUME TInv, pc = "command", todo # <<>>
    PROVE  /\ current_line \in Nat /\ current_line >= 1
           /\ Head(todo) \in Parts
           /\ \E v, z \in Stops :
                 /\ Turn(cmd, Head(todo), v, z) /\ Planned(cmd, Tail(todo), z)
                 /\ current_line <= v.high
                 /\ Exempt \/ Stands(v.row, screen, current_line)
<1>1. TypeOK /\ Running
  BY DEF TInv
<1>2. current_line >= 1
  BY <1>1 DEF Running
<1>3. PICK v \in Stops : /\ Planned(cmd, todo, v) /\ current_line <= v.high
                         /\ Exempt \/ Stands(v.row, screen, current_line)
  BY <1>1 DEF Running
<1>4. current_line \in Nat
  BY <1>1, Limits DEF TypeOK
<1>5. /\ Head(todo) \in Parts
      /\ \E z \in Stops : Turn(cmd, Head(todo), v, z) /\ Planned(cmd, Tail(todo), z)
  BY <1>3, NextTurn
<1> QED BY <1>2, <1>3, <1>4, <1>5

\* A part is printed.
LEMMA PrintStep ==
    ASSUME TInv, PrintPart
    PROVE  TInv' /\ (Crowded \/ StepAppends)
<1>1. TypeOK /\ pc = "command" /\ todo # <<>> /\ pc' = "command"
  BY DEF TInv, PrintPart, Do
<1>2. PICK x : x = Head(todo) /\ x.do = "print"
  BY DEF PrintPart, Do
<1>3. PICK len \in x.lens, mark \in x.marks :
        screen' = print(screen, current_line, x.col, len, mark)
  BY <1>2 DEF PrintPart
<1>4. /\ current_line' = Moved(x, current_line)
      /\ UNCHANGED <<cursor, cmd, typed, at>> /\ todo' = Tail(todo)
  BY <1>1, <1>2 DEF PrintPart, Do, Moved
<1>5. PICK v, z \in Stops :
        /\ Turn(cmd, x, v, z) /\ Planned(cmd, Tail(todo), z)
        /\ current_line <= v.high
        /\ Exempt \/ Stands(v.row, screen, current_line)
  BY <1>1, <1>2, InCommand
<1>6. current_line \in Nat /\ current_line >= 1 /\ x \in Parts
  BY <1>1, <1>2, InCommand
<1>7. /\ len \in Nat /\ x.col \in Nat /\ mark \in Marks
      /\ screen \in [Cells -> Marks] /\ typed \in Nat /\ cmd \in Commands
  BY <1>1, <1>2, <1>3, <1>6, PartLengths DEF TypeOK
<1>8. screen' \in [Cells -> Marks]
  <2>1. PICK n : n = x.col
    OBVIOUS
  <2>2. CASE current_line < Rows
    BY <1>3, <1>6, <1>7, <2>1, <2>2, PrintAbove
  <2>3. CASE current_line >= Rows
    BY <1>3, <1>6, <1>7, <2>1, <2>3, PrintBelow
  <2> QED BY <1>6, <2>2, <2>3, ScreenAssumption
<1>9. current_line' \in Nat /\ current_line' >= 1 /\ current_line' <= z.high
  <2>1. v.high \in Nat
    BY Limits DEF Stops
  <2>2. \/ x \in {Line, Rest, Result} /\ z.high = v.high + 1
        \/ x \in {Half, Prompt, Path(1), Path(3), Angle} /\ z.high = v.high
    BY <1>2, <1>5, PartValues DEF Turn
  <2>3. CASE x.next
    <3>1. z.high = v.high + 1
      BY <2>2, <2>3, PartValues
    <3> QED BY <1>4, <1>5, <1>6, <2>1, <2>3, <3>1 DEF Moved
  <2>4. CASE ~x.next
    <3>1. z.high = v.high
      BY <2>2, <2>4, PartValues
    <3> QED BY <1>4, <1>5, <1>6, <2>1, <2>4, <3>1 DEF Moved
  <2> QED BY <2>3, <2>4
<1>10. ASSUME Exempt' \/ Stands(z.row, screen', current_line')
       PROVE  TInv'
  BY <1>1, <1>4, <1>5, <1>7, <1>8, <1>9, <1>10, CommandGoesOn
<1>11. Erased = {}
  BY <1>1 DEF Erased
<1>12. CASE current_line >= Rows
  <2>1. /\ Stands(z.row, screen', current_line')
        /\ AppendedBy(screen, screen', Cols, {})
    BY <1>2, <1>3, <1>4, <1>5, <1>6, <1>7, <1>12, TurnBelow
  <2> QED BY <1>10, <1>11, <2>1, StepAppended
<1>13. CASE current_line < Rows /\ ~Exempt
  <2>1. /\ Stands(z.row, screen', current_line')
        /\ AppendedBy(screen, screen', 0, {})
    BY <1>2, <1>3, <1>4, <1>5, <1>6, <1>7, <1>13, TurnAbove
  <2> QED BY <1>10, <1>11, <2>1, StepAppended
<1>14. CASE Exempt
  <2>1. Crowded /\ cmd \notin Calcs /\ current_line = Rows - 1
    BY <1>14 DEF Exempt, Crowded, Calcs
  <2>2. CASE x.next
    <3>1. current_line' = Rows
      BY <1>4, <2>1, <2>2, RowsFollow DEF Moved
    <3>2. z.row = "free"
      BY <1>2, <1>5, <2>1, <2>2, PartValues DEF Turn
    <3>3. Stands(z.row, screen', current_line')
      BY <3>1, <3>2, RowsFollow DEF Stands, FreeRow
    <3> QED BY <1>10, <2>1, <3>3
  <2>3. CASE ~x.next
    <3>1. current_line' = current_line
      BY <1>4, <1>6, <2>3 DEF Moved
    <3>2. Exempt'
      BY <1>4, <1>14, <3>1 DEF Exempt
    <3> QED BY <1>10, <2>1, <3>2
  <2> QED BY <2>2, <2>3
<1> QED BY <1>6, <1>12, <1>13, <1>14, RowsFollow

\* The counter is taken back.
LEMMA TakeBackStep ==
    ASSUME TInv, TakeBack
    PROVE  TInv' /\ StepAppends
<1>1. TypeOK /\ pc = "command" /\ todo # <<>>
  BY DEF TInv, TakeBack, Do
<1>2. /\ Head(todo).do = "clamp" /\ todo' = Tail(todo) /\ current_line' = Clamped
      /\ UNCHANGED <<cursor, cmd, typed, screen, pc, at>>
  BY DEF TakeBack, Do
<1>3. PICK v, z \in Stops :
        /\ Turn(cmd, Head(todo), v, z) /\ Planned(cmd, Tail(todo), z)
        /\ current_line <= v.high
        /\ Exempt \/ Stands(v.row, screen, current_line)
  BY <1>1, InCommand
<1>4. current_line \in Nat /\ current_line >= 1
  BY <1>1, InCommand
<1>5. v.row = "free" /\ z.row = "free" /\ z.high = Rows /\ cmd \in {"cat", "disk"}
  BY <1>2, <1>3, PartValues DEF Turn
<1>6. current_line' \in Nat /\ current_line' >= 1 /\ current_line' <= z.high
  BY <1>2, <1>4, <1>5, ScreenAssumption DEF Clamped
<1>7. screen \in [Cells -> Marks] /\ typed \in Nat /\ cmd \in Commands
  BY <1>1 DEF TypeOK
<1>8. Exempt' \/ Stands(z.row, screen', current_line')
  <2>1. CASE current_line >= Rows
    <3>1. Exempt'
      BY <1>2, <1>5, <2>1 DEF Exempt, Clamped
    <3> QED BY <3>1
  <2>2. CASE ~ current_line >= Rows
    <3>1. current_line' = current_line
      BY <1>2, <2>2 DEF Clamped
    <3> QED BY <1>2, <1>3, <1>5, <3>1 DEF Exempt
  <2> QED BY <2>1, <2>2
<1>9. TInv'
  BY <1>1, <1>2, <1>3, <1>6, <1>7, <1>8, CommandGoesOn
<1> QED BY <1>2, <1>7, <1>9, NothingWritten

\* The screen is cleared.
LEMMA ClearStep ==
    ASSUME TInv, ClearScreen
    PROVE  TInv' /\ Clears
<1>1. TypeOK /\ pc = "command" /\ todo # <<>>
  BY DEF TInv, ClearScreen, Do
<1>2. /\ Head(todo).do = "clear" /\ todo' = Tail(todo) /\ current_line' = 1
      /\ screen' = clear_screen /\ UNCHANGED <<cursor, cmd, typed, pc, at>>
  BY DEF ClearScreen, Do
<1>3. PICK v, z \in Stops :
        Turn(cmd, Head(todo), v, z) /\ Planned(cmd, Tail(todo), z)
  BY <1>1, InCommand
<1>4. z.row = "free"
  BY <1>2, <1>3, PartValues DEF Turn
<1>5. current_line' \in Nat /\ current_line' >= 1 /\ current_line' <= z.high
  BY <1>2, Limits DEF Stops
<1>6. screen' \in [Cells -> Marks] /\ \A c \in Cells : screen'[c] = "blank"
  BY <1>2 DEF clear_screen, Marks
<1>7. Stands(z.row, screen', current_line')
  BY <1>4, <1>6 DEF Stands, FreeRow, BlankFrom
<1>8. cmd' \in Commands
  BY <1>1, <1>2 DEF TypeOK
<1>9. TInv'
  BY <1>1, <1>2, <1>3, <1>5, <1>6, <1>7, <1>8, CommandGoesOn
<1> QED BY <1>1, <1>2, <1>9 DEF Clears

\* calc asks for a line: it is typed behind the prompt of the question.
LEMMA AskStep ==
    ASSUME TInv, AskForLine
    PROVE  TInv' /\ StepAppends
<1>1. TypeOK /\ Typing /\ pc = "command" /\ todo # <<>>
  BY DEF TInv, AskForLine, Do
<1>2. /\ Head(todo).do = "scanf" /\ todo' = Tail(todo) /\ pc' = "scanf"
      /\ at' = [row |-> current_line - 1, col |-> Head(todo).col]
      /\ UNCHANGED <<cursor, cmd, typed, screen, current_line>>
  BY DEF AskForLine, Do
<1>3. PICK v, z \in Stops :
        /\ Turn(cmd, Head(todo), v, z) /\ Planned(cmd, Tail(todo), z)
        /\ current_line <= v.high
        /\ Exempt \/ Stands(v.row, screen, current_line)
  BY <1>1, InCommand
<1>4. /\ Head(todo) = Ask /\ v.row = "asked" /\ z.row = "free" /\ z.high = v.high
      /\ cmd \in Calcs /\ v.high <= Rows + 3
  BY <1>2, <1>3, PartValues DEF Turn
<1>5. v.high \in Nat /\ current_line \in Nat /\ current_line >= 1 /\ typed = 0
  <2>1. v.high \in Nat
    BY Limits DEF Stops
  <2>2. current_line \in Nat /\ current_line >= 1
    BY <1>1, InCommand
  <2>3. typed = 0
    BY <1>1 DEF TypeOK, Typing
  <2> QED BY <2>1, <2>2, <2>3
<1>6. PICK r : r = current_line - 1 /\ r \in Nat /\ r + 1 = current_line /\ r \in 0 .. Rows + 2
  BY <1>3, <1>4, <1>5, ScreenAssumption
<1>7. at' = [row |-> r, col |-> 3] /\ at'.row = r /\ at'.col = 3
  BY <1>2, <1>4, <1>6, PartValues
<1>8. screen \in [Cells -> Marks]
  BY <1>1 DEF TypeOK
<1>9. r < Rows =>
        /\ BlankFrom(screen, Start(r) + 3)
        /\ \A c \in Start(r) .. Start(r) + 1 : screen[c] = "prompt"
  <2>1. ~Exempt
    BY <1>4 DEF Exempt, Calcs
  <2>2. AskedRow(screen, current_line)
    BY <1>3, <1>4, <2>1 DEF Stands
  <2> QED BY <1>6, <2>2 DEF AskedRow
<1>10. TypeOK'
  <2>1. current_line \in 0 .. Rows + 3
    BY <1>3, <1>4, <1>5, ScreenAssumption
  <2> QED BY <1>1, <1>2, <1>6, <1>7, <2>1 DEF TypeOK
<1>11. Running'
  BY <1>2 DEF Running
<1>12. Asking'
  <2>1. current_line \in 1 .. Rows + 3
    BY <1>3, <1>4, <1>5, ScreenAssumption
  <2>2. current_line <= z.high
    BY <1>3, <1>4
  <2> QED BY <1>2, <1>3, <1>4, <1>6, <1>7, <2>1, <2>2 DEF Asking
<1>13. Waiting'
  <2>1. Tail(todo) # <<>>
    <3>1. SUFFICES ASSUME Tail(todo) = <<>>
                   PROVE  FALSE
      OBVIOUS
    <3>2. PICK u \in Stops : Leads(cmd, <<>>, z, u) /\ u.row = LastRow(cmd)
      BY <1>3, <3>1 DEF Planned
    <3>3. u = z
      BY <3>2, LeadsNowhere
    <3> QED BY <1>4, <3>2, <3>3 DEF LastRow, Calcs
  <2> QED BY <1>2, <2>1 DEF Waiting
<1>14. Below'
  <2>1. SUFFICES ASSUME r + 1 < Rows
                 PROVE  BlankFrom(screen, Start(r + 1))
    BY <1>2, <1>7 DEF Below, FreeRow
  <2>2. BlankFrom(screen, Start(r) + 3)
    BY <1>6, <1>9, <2>1, ScreenAssumption
  <2>3. Start(r) \in Int /\ Start(r + 1) = Start(r) + Cols
    <3>1. r \in Int
      BY <1>6
    <3> QED BY <3>1, RowsFollow
  <2>4. Cells \subseteq Int /\ Cols \in Nat /\ Cols > 3
    BY RowsFollow
  <2> QED BY <2>2, <2>3, <2>4 DEF BlankFrom
<1>15. Typing'
  <2>1. typed' = 0 /\ at'.col + typed' <= Cols
    BY <1>2, <1>5, <1>7, ScreenAssumption
  <2>2. Start(r) \in Int
    BY <1>6, RowsFollow
  <2>3. ~Crowded' => r < Rows
    BY <1>2, <1>6, <1>7, ScreenAssumption DEF Crowded
  <2>4. ASSUME ~Crowded'
        PROVE  /\ BlankFrom(screen', Start(r) + 3 + 0)
               /\ \A c \in Start(r) + 3 .. Start(r) + 3 + 0 - 1 : screen'[c] = "key"
               /\ \A c \in Start(r) .. Start(r) + 1 : screen'[c] = "prompt"
    <3>1. Start(r) + 3 + 0 = Start(r) + 3 /\ Start(r) + 3 .. Start(r) + 3 + 0 - 1 = {}
      BY <2>2
    <3> QED BY <1>2, <1>9, <2>3, <2>4, <3>1
  <2> QED BY <1>7, <2>1, <2>4 DEF Typing
<1>16. TInv'
  BY <1>10, <1>11, <1>12, <1>13, <1>14, <1>15 DEF TInv
<1>17. StepAppends
  <2>1. typed \in Nat
    BY <1>5
  <2> QED BY <1>2, <1>8, <2>1, NothingWritten
<1> QED BY <1>16, <1>17

\* A command ends: its prompt stands where kmain lets the next line be typed.
LEMMA ReturnStep ==
    ASSUME TInv, Return
    PROVE  TInv' /\ StepAppends
<1>1. TypeOK /\ Running /\ Typing /\ pc = "command" /\ todo = <<>>
  BY DEF TInv, Return
<1>2. /\ pc' = "scanf" /\ current_line' = Clamped /\ at' = [row |-> Clamped, col |-> 2]
      /\ UNCHANGED <<cursor, cmd, typed, screen, todo>>
  BY DEF Return
<1>3. PICK v \in Stops : Planned(cmd, <<>>, v) /\ (Exempt \/ Stands(v.row, screen, current_line))
  BY <1>1 DEF Running
<1>4. v.row = LastRow(cmd)
  BY <1>3, LeadsNowhere DEF Planned
<1>5. /\ screen \in [Cells -> Marks] /\ cmd \in Commands /\ typed = 0
      /\ cursor \in 0 .. Rows * Cols /\ current_line \in Nat
  BY <1>1, Limits DEF TypeOK, Typing, Running
<1>6. PICK r : /\ r = Clamped /\ r \in Nat /\ r < Rows
               /\ r = (IF current_line >= Rows THEN Rows - 1 ELSE current_line)
  BY <1>5, ScreenAssumption DEF Clamped
<1>7. current_line' = r /\ at' = [row |-> r, col |-> 2] /\ at'.row = r /\ at'.col = 2
  BY <1>2, <1>6
<1>8. /\ Start(r) \in Nat /\ Start(r + 1) = Start(r) + Cols
      /\ Cells \subseteq Int /\ Cols \in Nat /\ Cols > 3
      /\ \A c \in Start(r) .. Start(r) + Cols - 1 : c \in Cells
  <2>1. "blank" \in Marks
    BY DEF Marks
  <2>2. Start(r) \in Nat /\ Start(r + 1) = Start(r) + Cols
    BY <1>5, <1>6, <2>1, PrintAbove
  <2>3. \A c \in Start(r) .. Start(r) + Cols - 1 : c \in Cells
    BY <1>5, <1>6, <2>1, PrintAbove
  <2> QED BY <2>2, <2>3, RowsFollow
<1>9. TypeOK'
  <2>1. r \in 0 .. Rows + 2 /\ r \in 0 .. Rows + 3 /\ r \in 0 .. Rows + MaxLines + FetchLines + 5
    BY <1>5, <1>6, ScreenAssumption
  <2>2. typed \in 0 .. Cols
    BY <1>5, <1>8
  <2> QED BY <1>2, <1>5, <1>7, <2>1, <2>2 DEF TypeOK
<1>10. Running' /\ Asking'
  BY <1>1, <1>2 DEF Running, Asking
<1>11. Waiting'
  <2>1. r \in 0 .. Rows - 1
    BY <1>5, <1>6, ScreenAssumption
  <2> QED BY <1>1, <1>2, <1>7, <2>1 DEF Waiting
<1>12. LastRow(cmd) \in {"free", "prompted", "spoiled"}
  BY DEF LastRow
<1>13. ASSUME ~Exempt
       PROVE  /\ LastRow(cmd) = "free" /\ current_line < Rows => BlankFrom(screen, Start(r))
              /\ LastRow(cmd) = "prompted" =>
                   /\ BlankFrom(screen, Start(r) + 2)
                   /\ \A c \in Start(r) .. Start(r) + 1 : screen[c] \in {"prompt", "blank"}
              /\ LastRow(cmd) = "spoiled" /\ current_line < Rows => BlankFrom(screen, Start(r) + 3)
  <2>1. Stands(LastRow(cmd), screen, current_line)
    BY <1>3, <1>4, <1>13
  <2>2. current_line < Rows => r = current_line
    BY <1>5, <1>6, ScreenAssumption
  <2> QED BY <1>6, <2>1, <2>2 DEF Stands, FreeRow, PromptRow, SpoiledRow
<1>14. Below'
  <2>1. SUFFICES ASSUME r + 1 < Rows
                 PROVE  BlankFrom(screen, Start(r + 1))
    BY <1>2, <1>7 DEF Below, FreeRow
  <2>2. current_line < Rows /\ ~Exempt
    BY <1>5, <1>6, <2>1, ScreenAssumption DEF Exempt
  <2> QED BY <1>8, <1>12, <1>13, <2>2 DEF BlankFrom
<1>15. Typing'
  <2>1. typed' = 0 /\ at'.col + typed' <= Cols
    BY <1>2, <1>5, <1>7, <1>8
  <2>2. ASSUME ~Crowded'
        PROVE  /\ BlankFrom(screen, Start(r) + 2)
               /\ \A c \in Start(r) .. Start(r) + 1 : screen[c] \in {"prompt", "blank"}
    <3>1. cmd # "calc_below_root" /\ ~(cmd \in {"cat", "disk", "fetch"} /\ r = Rows - 1)
      BY <1>1, <1>2, <1>7, <2>2 DEF Crowded
    <3>2. ~Exempt
      BY <1>5, <1>6, <3>1, ScreenAssumption DEF Exempt
    <3>3. CASE cmd = "fetch"
      <4>1. LastRow(cmd) = "free" /\ current_line < Rows
        BY <1>5, <1>6, <3>1, <3>3, ScreenAssumption DEF LastRow
      <4>2. BlankFrom(screen, Start(r))
        BY <1>13, <3>2, <4>1
      <4> QED BY <1>8, <4>2 DEF BlankFrom
    <3>4. CASE cmd # "fetch"
      <4>1. LastRow(cmd) = "prompted"
        BY <3>1, <3>4 DEF LastRow
      <4> QED BY <1>13, <3>2, <4>1
    <3> QED BY <3>3, <3>4
  <2>3. /\ Start(r) + 2 + 0 = Start(r) + 2
        /\ Start(r) + 2 .. Start(r) + 2 + 0 - 1 = {}
    BY <1>8
  <2>4. ASSUME ~Crowded'
        PROVE  /\ BlankFrom(screen', Start(r) + 2 + 0)
               /\ \A c \in Start(r) + 2 .. Start(r) + 2 + 0 - 1 : screen'[c] = "key"
               /\ \A c \in Start(r) .. Start(r) + 1 : screen'[c] = "prompt" \/ screen'[c] = "blank"
    BY <1>2, <2>2, <2>3, <2>4
  <2> QED BY <1>7, <2>1, <2>4 DEF Typing
<1>16. TInv'
  BY <1>9, <1>10, <1>11, <1>14, <1>15 DEF TInv
<1>17. StepAppends
  <2>1. typed \in Nat
    BY <1>5
  <2> QED BY <1>2, <1>5, <2>1, NothingWritten
<1> QED BY <1>16, <1>17

\* The cells of what is printed on the screen.
LEMMA PrintedCells ==
    ASSUME NEW s \in [Cells -> Marks], NEW line \in Nat, line < Rows, NEW col \in Nat,
           NEW len \in Nat, NEW mark \in Marks
    PROVE  \A c \in Cells : print(s, line, col, len, mark)[c] =
             IF Start(line) + col <= c /\ c < Start(line) + col + len THEN mark ELSE s[c]
<1>1. PICK x, p : x = Start(line) + col /\ p = print(s, line, col, len, mark)
  OBVIOUS
<1>2. p = Put(s, x, len, mark) /\ x \in Int
  <2>1. print(s, line, col, len, mark) = Put(s, Start(line) + col, len, mark)
    BY PrintAbove
  <2>2. Start(line) \in Nat
    BY PrintAbove
  <2> QED BY <1>1, <2>1, <2>2
<1>3. \A c \in Cells : p[c] = IF x <= c /\ c < x + len THEN mark ELSE s[c]
  BY <1>2, PutCells
<1> QED BY <1>1, <1>3

\* A text of the banner leaves the rows below it empty.
LEMMA BannerLine ==
    ASSUME NEW s \in [Cells -> Marks], NEW line \in Nat, NEW below \in Nat, line < below, below < Rows,
           NEW col \in Nat, NEW n \in Nat, col + n <= Cols, NEW char \in Marks,
           BlankFrom(s, Start(below))
    PROVE  /\ print(s, line, col, n, char) \in [Cells -> Marks]
           /\ BlankFrom(print(s, line, col, n, char), Start(below))
<1>1. line < Rows /\ Cells \subseteq Int /\ Cols \in Nat
  BY RowsFollow
<1>2. PICK p, a, b : p = print(s, line, col, n, char) /\ a = Start(line) /\ b = Start(below)
  OBVIOUS
<1>3. p \in [Cells -> Marks]
  BY <1>1, <1>2, PrintAbove
<1>4. \A c \in Cells : p[c] = IF a + col <= c /\ c < a + col + n THEN char ELSE s[c]
  <2>1. \A c \in Cells : print(s, line, col, n, char)[c] =
          IF Start(line) + col <= c /\ c < Start(line) + col + n THEN char ELSE s[c]
    BY <1>1, PrintedCells
  <2> QED BY <1>2, <2>1
<1>5. a \in Nat /\ Start(line + 1) = a + Cols
  BY <1>1, <1>2, PrintAbove
<1>6. Start(line + 1) <= Start(below) /\ b \in Int
  BY <1>1, <1>2, RowsAscend, RowsFollow
<1>7. a + col + n <= b
  BY <1>1, <1>2, <1>5, <1>6
<1>8. BlankFrom(p, b)
  BY <1>1, <1>2, <1>4, <1>5, <1>6, <1>7 DEF BlankFrom
<1> QED BY <1>2, <1>3, <1>8

\* What kmain prints before it reads the first line.
LEMMA FirstScreen == Init => TInv
<1>1. SUFFICES ASSUME Init
               PROVE  TInv
  OBVIOUS
<1>2. PICK n \in Lengths \ {0}, char \in Characters :
        screen = print(print(print(clear_screen, 0, 1, n, char), 3, 0, n, char),
                       5, 0, 2, "prompt")
  BY <1>1 DEF Init
<1>3. /\ cursor = 0 /\ current_line = 5 /\ cmd = "plain" /\ todo = <<>>
      /\ pc = "scanf" /\ at = [row |-> 5, col |-> 2] /\ typed = 0
  BY <1>1 DEF Init
<1>4. n \in Nat /\ n + 2 <= Cols /\ Cols \in Nat /\ Cols > 3 /\ Rows \in Nat /\ Rows > 5
  BY ScreenAssumption
<1>5. Cells \subseteq Int
  BY RowsFollow
<1>6. {"blank", char, "prompt"} \subseteq Marks
  BY DEF Marks
<1>7. clear_screen \in [Cells -> Marks] /\ \A c \in Cells : clear_screen[c] = "blank"
  BY DEF clear_screen, Marks
<1>8. PICK zero, one, two, three, five :
        zero = 0 /\ one = 1 /\ two = 2 /\ three = 3 /\ five = 5
  OBVIOUS
<1>9. PICK s, q : /\ s = print(clear_screen, zero, one, n, char)
                  /\ q = print(s, three, zero, n, char)
                  /\ screen = print(q, five, zero, two, "prompt")
  BY <1>2, <1>8
<1>10. PICK a : a = Start(five)
  OBVIOUS
<1>11. q \in [Cells -> Marks] /\ BlankFrom(q, a)
  <2>1. BlankFrom(clear_screen, a)
    BY <1>7 DEF BlankFrom
  <2>2. s \in [Cells -> Marks] /\ BlankFrom(s, a)
    <3>1. /\ zero \in Nat /\ five \in Nat /\ zero < five /\ five < Rows
          /\ one \in Nat /\ one + n <= Cols
      BY <1>4, <1>8
    <3> QED BY <1>4, <1>6, <1>7, <1>9, <1>10, <2>1, <3>1, BannerLine
  <2>3. /\ three \in Nat /\ five \in Nat /\ three < five /\ five < Rows
        /\ zero \in Nat /\ zero + n <= Cols
    BY <1>4, <1>8
  <2> QED BY <1>4, <1>6, <1>9, <1>10, <2>2, <2>3, BannerLine
<1>12. /\ a \in Nat /\ Start(five + 1) = a + Cols
       /\ \A c \in a .. a + Cols - 1 : c \in Cells
       /\ screen \in [Cells -> Marks]
       /\ \A c \in Cells : screen[c] = IF a + zero <= c /\ c < a + zero + two THEN "prompt" ELSE q[c]
  <2>1. five \in Nat /\ five < Rows /\ zero \in Nat /\ two \in Nat /\ "prompt" \in Marks
    BY <1>4, <1>6, <1>8
  <2>2. a \in Nat /\ Start(five + 1) = a + Cols
    BY <1>10, <1>11, <2>1, PrintAbove
  <2>3. \A c \in a .. a + Cols - 1 : c \in Cells
    BY <1>10, <1>11, <2>1, PrintAbove
  <2>4. screen \in [Cells -> Marks]
    BY <1>9, <1>11, <2>1, PrintAbove
  <2>5. \A c \in Cells : screen[c] = IF a + zero <= c /\ c < a + zero + two THEN "prompt" ELSE q[c]
    <3>1. PICK mark : mark = "prompt"
      OBVIOUS
    <3>2. /\ q \in [Cells -> Marks] /\ mark \in Marks
          /\ five \in Nat /\ five < Rows /\ zero \in Nat /\ two \in Nat
      BY <1>11, <2>1, <3>1
    <3>3. \A c \in Cells : print(q, five, zero, two, mark)[c] =
            IF Start(five) + zero <= c /\ c < Start(five) + zero + two THEN mark ELSE q[c]
      BY <3>2, PrintedCells
    <3> QED BY <1>9, <1>10, <3>1, <3>3
  <2> QED BY <2>2, <2>3, <2>4, <2>5
<1>13. /\ Start(5) = a /\ Start(6) = a + Cols
       /\ \A c \in Cells : screen[c] = IF a <= c /\ c < a + 2 THEN "prompt" ELSE q[c]
  <2>1. five + 1 = 6 /\ a + zero = a
    BY <1>8, <1>12
  <2> QED BY <1>8, <1>10, <1>12, <2>1
<1>14. BlankFrom(screen, a + 2) /\ \A c \in a .. a + 1 : screen[c] = "prompt"
  BY <1>4, <1>5, <1>11, <1>12, <1>13 DEF BlankFrom
<1>15. TypeOK
  <2>1. 0 \in 0 .. Rows * Cols
    <3>1. Rows * Cols \in Nat
      BY <1>4
    <3> QED BY <3>1
  <2>2. 5 \in 0 .. Rows + MaxLines + FetchLines + 5 /\ 5 \in 0 .. Rows + 3 /\ 5 \in 0 .. Rows + 2
    BY ScreenAssumption
  <2>3. 0 \in 0 .. Cols
    BY <1>4
  <2> QED BY <1>3, <1>12, <2>1, <2>2, <2>3 DEF TypeOK, Commands
<1>16. Running /\ Asking
  BY <1>3 DEF Running, Asking
<1>17. Waiting
  <2>1. 5 \in 0 .. Rows - 1
    BY <1>4
  <2> QED BY <1>3, <2>1 DEF Waiting
<1>18. Below
  <2>1. BlankFrom(screen, a + Cols)
    BY <1>4, <1>5, <1>12, <1>14 DEF BlankFrom
  <2>2. at.row + 1 = 6
    BY <1>3
  <2> QED BY <1>13, <2>1, <2>2 DEF Below, FreeRow
<1>19. Typing
  <2>1. a + 2 + 0 = a + 2 /\ a + 2 .. a + 2 + 0 - 1 = {}
    BY <1>12
  <2>2. /\ BlankFrom(screen, a + 2 + 0)
        /\ \A c \in a + 2 .. a + 2 + 0 - 1 : screen[c] = "key"
        /\ \A c \in a .. a + 1 : screen[c] = "prompt"
    BY <1>14, <2>1
  <2>3. at.row = 5 /\ at.col = 2 /\ at.col + typed <= Cols
    BY <1>3, <1>4
  <2> QED BY <1>3, <1>13, <2>2, <2>3 DEF Typing
<1> QED BY <1>15, <1>16, <1>17, <1>18, <1>19 DEF TInv

-----------------------------------------------------------------------------
(* The theorems.                                                            *)

\* Every step keeps the invariant, and writes behind all the rest but where
\* OutputAppended says that the code does not.
LEMMA EveryStep ==
    ASSUME TInv, [Next]_vars
    PROVE  TInv' /\ (Crowded \/ Clears \/ StepAppends)
<1>1. CASE Letter
  BY <1>1, LetterStep
<1>2. CASE Backspace
  BY <1>2, BackspaceStep
<1>3. CASE Enter
  BY <1>3, EnterStep
<1>4. CASE \E c \in Commands : shell_func(c)
  BY <1>4, ShellStep
<1>5. CASE PrintPart
  BY <1>5, PrintStep
<1>6. CASE TakeBack
  BY <1>6, TakeBackStep
<1>7. CASE ClearScreen
  BY <1>7, ClearStep
<1>8. CASE AskForLine
  BY <1>8, AskStep
<1>9. CASE Return
  BY <1>9, ReturnStep
<1>10. CASE UNCHANGED vars
  <2>1. /\ screen' = screen /\ cursor' = cursor /\ current_line' = current_line
        /\ cmd' = cmd /\ todo' = todo /\ pc' = pc /\ at' = at /\ typed' = typed
    BY <1>10 DEF vars
  <2>2. screen \in [Cells -> Marks] /\ typed \in Nat
    BY DEF TInv, TypeOK
  <2>3. StepAppends
    BY <2>1, <2>2, NothingWritten
  <2>4. /\ (TypeOK' <=> TypeOK) /\ (Running' <=> Running) /\ (Asking' <=> Asking)
        /\ (Waiting' <=> Waiting) /\ (Below' <=> Below) /\ (Typing' <=> Typing)
    BY <2>1 DEF TypeOK, Running, Asking, Waiting, Below, Typing, Exempt, Crowded
  <2> QED BY <2>3, <2>4 DEF TInv
<1> QED BY <1>1, <1>2, <1>3, <1>4, <1>5, <1>6, <1>7, <1>8, <1>9, <1>10 DEF Next

\* The invariant of the screen and its writers holds on every run.
THEOREM Inductive == Spec => []TInv
<1>1. TInv /\ [Next]_vars => TInv'
  BY EveryStep
<1> QED BY <1>1, FirstScreen, PTL DEF Spec

\* The counter runs no further below the screen than one command takes it, and
\* what is read and written stays on the screen (vga.c, shell.c, keyboard.c).
THEOREM TypeCorrect == Spec => []TypeOK
<1>1. TInv => TypeOK
  BY DEF TInv
<1> QED BY <1>1, Inductive, PTL

\* The line that is typed stands where scanf has put the cursor, and nothing
\* stands behind it (keyboard.c:93, 124-141).
THEOREM LineVisible == Spec => []InputVisible
<1>1. TInv => InputVisible
  <2>1. SUFFICES ASSUME TInv, pc = "scanf", ~Crowded
                 PROVE  /\ \A c \in Input .. Input + typed - 1 : c \in Cells /\ screen[c] = "key"
                        /\ \A c \in Cells : c >= Input + typed => screen[c] = "blank"
                        /\ typed > 0 => cursor = Input + typed
    BY DEF InputVisible
  <2>2. TypeOK /\ Typing
    BY <2>1 DEF TInv
  <2>3. PICK a : a = Start(at.row)
    OBVIOUS
  <2>4. Input = a + at.col
    BY <2>3 DEF Input, Start
  <2>5. /\ BlankFrom(screen, a + at.col + typed)
        /\ \A c \in a + at.col .. a + at.col + typed - 1 : screen[c] = "key"
        /\ typed > 0 => cursor = a + at.col + typed
    BY <2>1, <2>2, <2>3 DEF Typing
  <2>6. /\ a \in Nat /\ at.col \in {2, 3} /\ typed \in Nat /\ Cols \in Nat
        /\ at.col + typed <= Cols
    BY <2>2, <2>3, TypingRow
  <2>7. \A c \in a .. a + Cols - 1 : c \in Cells
    <3>1. at.row < Rows
      BY <2>1, <2>2, ScreenAssumption DEF Crowded, TypeOK
    <3> QED BY <2>2, <2>3, <3>1, TypingRow
  <2>8. \A c \in a + at.col .. a + at.col + typed - 1 : c \in Cells
    BY <2>6, <2>7
  <2> QED BY <2>4, <2>5, <2>8 DEF BlankFrom
<1> QED BY <1>1, Inductive, PTL

\* Nothing on the screen is overwritten, by another text, a prompt or a key, and what
\* is new stands behind all the rest: the screen is the end of what was written
\* (vga.c:15-55, shell.c, bin), whatever characters the texts consist of.
THEOREM OutputStaysInOrder == Spec => OutputAppended
<1>1. TInv /\ [Next]_vars =>
        [Crowded \/ Clears \/ \E k \in {0, 1} :
           /\ Kept(k)
           /\ \A c \in Fresh(k), d \in Cells \ Fresh(k) :
                screen'[d] # "blank" => d < c \/ Completes(c, d)]_vars
  BY EveryStep DEF StepAppends
<1> QED BY <1>1, Inductive, PTL DEF Spec, OutputAppended

=============================================================================
