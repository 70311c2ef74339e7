------------------------------ MODULE Terminal ------------------------------
(***************************************************************************)
(* The text screen, src/os/drivers/vga_text.c, under the line editor of    *)
(* the shell, src/os/bin/shell/shell.c.                                    *)
(*                                                                         *)
(* Colours are left out: a cell is its character.  printf prints nothing   *)
(* in this code: its formatter has no return but the one with -1           *)
(* (lib/stdio.c:160-569), and printf gives up on that.  What the shell     *)
(* prints with it, the prompt and the spacing, is therefore absent, and    *)
(* commands show only what they print through vga_text.c.                  *)
(***************************************************************************)
EXTENDS Integers, SequencesExt

CONSTANTS
    VGA_TEXT_ROWS, VGA_TEXT_COLUMNS, VGA_TEXT_TAB_LENGTH,
    SHELL_COMMAND_LENGTH_MAXIMUM, SHELL_ARGC_MAXIMUM, SHELL_ARGV_MAXIMUM,
    Typed,            \* the characters of keys, without enter and backspace
    ClearCommand,     \* the name of the command that clears the screen
    Shown             \* what other commands print, by their names

ASSUME ScreenAssumption ==
    /\ VGA_TEXT_ROWS \in Nat \ {0} /\ VGA_TEXT_COLUMNS \in Nat \ {0}
    /\ VGA_TEXT_TAB_LENGTH \in Nat \ {0}

ASSUME LineAssumption ==
    /\ SHELL_COMMAND_LENGTH_MAXIMUM \in Nat \ {0}
    /\ SHELL_ARGC_MAXIMUM \in Nat \ {0} /\ SHELL_ARGV_MAXIMUM \in Nat \ {0, 1}

VARIABLES
    cursor_x, cursor_y,       \* vga_text_cursor_x, _y
    vga,                      \* the cells, row by row
    start_x, start_y,         \* shell_input_start_x, _y
    input,                    \* the line so far; index is its length
    shell_pc,                 \* "input" in shell_get_input, "run" once it returned
    odd                       \* history: a tab or a backspace got into the line

shell == <<start_x, start_y, input, shell_pc, odd>>
terminal_vars == <<cursor_x, cursor_y, vga, shell>>

Space == " "
Newline == "newline"
TabKey == "tab"
Bs == "backspace"
SHELL_COMMAND_DELIMITER == " "
Cells == 0 .. VGA_TEXT_ROWS * VGA_TEXT_COLUMNS - 1
Unknown == "unknown"      \* what lies in memory in front of the screen

(* Enter and backspace are keys of their own.                              *)
ASSUME TypedAssumption ==
    /\ Typed \subseteq STRING \ {Newline, Bs}
    /\ \A command \in DOMAIN Shown : Shown[command] \in Seq(STRING)

-----------------------------------------------------------------------------
(* vga_text.c.  Its functions take a screen [x, y, cells] to a screen.     *)
Position(s) == s.y * VGA_TEXT_COLUMNS + s.x

(* In front of the first cell there is memory that is no part of the screen.*)
Put(s, c) == IF Position(s) \in Cells
             THEN [s EXCEPT !.cells[Position(s)] = c] ELSE s

scroll(s, count) ==
    [s EXCEPT !.cells =
        [p \in Cells |-> LET q == p + count * VGA_TEXT_COLUMNS
                         IN  IF q \in Cells THEN s.cells[q] ELSE Space],
              !.y = VGA_TEXT_ROWS - 1]

(* By a negative count: memcpy goes forward, and copies the rows in front  *)
(* of the screen over all of it.                                           *)
scroll_down(s) == [s EXCEPT !.cells = [p \in Cells |-> Unknown], !.y = 0]

(* Division in C is towards zero.                                          *)
Quotient(n, d) == IF n < 0 THEN -((-n) \div d) ELSE n \div d

AddRows(s, n) == [s EXCEPT !.x = s.x - n * VGA_TEXT_COLUMNS, !.y = s.y + n]

(* Mutant: to the left, x goes up and y is forgotten.                      *)
MutRectify(s) ==
    LET right == IF s.x < VGA_TEXT_COLUMNS THEN s
                 ELSE AddRows(s, Quotient(s.x, VGA_TEXT_COLUMNS))
        left  == IF right.x >= 0 THEN right ELSE [right EXCEPT !.x = @ + VGA_TEXT_COLUMNS]
    IN  IF left.y < 0 THEN scroll_down(left)
        ELSE IF left.y < VGA_TEXT_ROWS THEN left
        ELSE scroll(left, left.y - (VGA_TEXT_ROWS - 1))

(* Too far to the right, too far to the left, too far down or up.  Left of *)
(* the first column the cursor goes down, and x stays negative: the cell   *)
(* is the right one, the row is not.                                       *)
rectify(s) ==
    LET right == IF s.x < VGA_TEXT_COLUMNS THEN s
                 ELSE AddRows(s, Quotient(s.x, VGA_TEXT_COLUMNS))
        left  == IF right.x >= 0 THEN right
                 ELSE AddRows(right, Quotient(right.x, VGA_TEXT_COLUMNS) + 1)
    IN  IF left.y < 0 THEN scroll_down(left)
        ELSE IF left.y < VGA_TEXT_ROWS THEN left
        ELSE scroll(left, left.y - (VGA_TEXT_ROWS - 1))

cursor_shift(s, x, y) == rectify([s EXCEPT !.x = x, !.y = y])

clear_screen(s) == [x |-> 0, y |-> 0, cells |-> [p \in Cells |-> Space]]

newline(s) == cursor_shift(s, 0, s.y + 1)

Show(s, c) == LET t == Put(s, c) IN cursor_shift(t, t.x + 1, t.y)

Spaces(s, count) ==
    LET t[k \in 0 .. count] == IF k = 0 THEN s ELSE Show(t[k - 1], Space)
    IN  t[count]

(* The column within the tab is kept in a byte.                            *)
tab(s) ==
    LET spaces == (s.x - VGA_TEXT_TAB_LENGTH * Quotient(s.x, VGA_TEXT_TAB_LENGTH)) % 256
        left == VGA_TEXT_TAB_LENGTH - spaces
    IN  IF s.x + left > VGA_TEXT_COLUMNS - 1 THEN newline(s)
        ELSE IF left > 0 THEN Spaces(s, left) ELSE s

erase(s) == Put(cursor_shift(s, s.x - 1, s.y), Space)

print_character(s, c) ==
    CASE c = Newline -> newline(s)
      [] c = TabKey -> tab(s)
      [] c = Bs -> erase(s)
      [] OTHER -> Show(s, c)

print(s, string) ==
    LET t[k \in 0 .. Len(string)] ==
            IF k = 0 THEN s ELSE print_character(t[k - 1], string[k])
    IN  t[Len(string)]

Screen == [x |-> cursor_x, y |-> cursor_y, cells |-> vga]
Becomes(s) == cursor_x' = s.x /\ cursor_y' = s.y /\ vga' = s.cells

-----------------------------------------------------------------------------
(* Mutant: arguments are not counted while the line is read.               *)
MutLetter(a, c) ==
    IF c = SHELL_COMMAND_DELIMITER
    THEN IF a.word = <<>> THEN a
         ELSE [args |-> Append(a.args, a.word), word |-> <<>>]
    ELSE IF Len(a.word) < SHELL_ARGV_MAXIMUM - 1
         THEN [a EXCEPT !.word = Append(@, c)] ELSE a

(* The next character of a line, with the arguments that are complete and  *)
(* the word so far: a word longer than its place is cut, and the line is   *)
(* read no further than the last argument there is a place for.            *)
Letter(a, c) ==
    IF Len(a.args) = SHELL_ARGC_MAXIMUM THEN a
    ELSE IF c = SHELL_COMMAND_DELIMITER
    THEN IF a.word = <<>> THEN a
         ELSE [args |-> Append(a.args, a.word), word |-> <<>>]
    ELSE IF Len(a.word) < SHELL_ARGV_MAXIMUM - 1
         THEN [a EXCEPT !.word = Append(@, c)] ELSE a

(* shell_input_parse.                                                      *)
parse(line) ==
    LET at[k \in 0 .. Len(line)] ==
            IF k = 0 THEN [args |-> <<>>, word |-> <<>>] ELSE Letter(at[k - 1], line[k])
        end == at[Len(line)]
    IN  IF end.word = <<>> THEN end.args ELSE Append(end.args, end.word)

run_command(s, arguments) ==
    IF arguments = <<>> THEN s
    ELSE IF arguments[1] = ClearCommand THEN clear_screen(s)
    ELSE IF arguments[1] \in DOMAIN Shown THEN print(s, Shown[arguments[1]])
    ELSE s

(* The shell declares the coordinates as bytes and sees their low ones.    *)
Byte(n) == n % 256

print_prompt(s) ==
    /\ start_x' = Byte(s.x) /\ start_y' = Byte(s.y)
    /\ input' = <<>> /\ odd' = FALSE /\ shell_pc' = "input"

TerminalInit ==
    /\ cursor_x = 0 /\ cursor_y = 0
    /\ vga = [p \in Cells |-> Space]
    /\ start_x = 0 /\ start_y = 0
    /\ input = <<>> /\ odd = FALSE /\ shell_pc = "input"

-----------------------------------------------------------------------------
(* shell_get_input, key by key.                                            *)
Reading == shell_pc = "input" /\ Len(input) < SHELL_COMMAND_LENGTH_MAXIMUM - 1

AtStart == Byte(cursor_x) = start_x /\ Byte(cursor_y) = start_y

Echo(c) ==
    /\ Becomes(print_character(Screen, c))
    /\ input' = Append(input, c)
    /\ odd' = (odd \/ c \in {TabKey, Bs})
    /\ UNCHANGED <<start_x, start_y, shell_pc>>

Type(c) == Reading /\ Echo(c)

(* Mutant: the cursor is not compared with the start.                      *)
MutBackspace ==
    /\ Reading
    /\ \/ /\ Len(input) > 0
          /\ Becomes(print_character(Screen, Bs))
          /\ input' = Front(input)
          /\ UNCHANGED <<start_x, start_y, shell_pc, odd>>
       \/ Len(input) = 0 /\ Echo(Bs)

(* With nothing to take back and the cursor away from the start, the       *)
(* backspace is shown and becomes part of the line.                        *)
Backspace ==
    /\ Reading /\ ~ AtStart
    /\ \/ /\ Len(input) > 0
          /\ Becomes(print_character(Screen, Bs))
          /\ input' = Front(input)
          /\ UNCHANGED <<start_x, start_y, shell_pc, odd>>
       \/ Len(input) = 0 /\ Echo(Bs)

Enter ==
    /\ Reading
    /\ Becomes(print_character(Screen, Newline))
    /\ shell_pc' = "run"
    /\ UNCHANGED <<start_x, start_y, input, odd>>

(* A line that is full is run without a new line on the screen.            *)
Full ==
    /\ shell_pc = "input" /\ Len(input) = SHELL_COMMAND_LENGTH_MAXIMUM - 1
    /\ shell_pc' = "run"
    /\ UNCHANGED <<cursor_x, cursor_y, vga, start_x, start_y, input, odd>>

(* One round of shell_main after the line is read.                         *)
Run ==
    /\ shell_pc = "run"
    /\ LET s == run_command(Screen, parse(input))
       IN  Becomes(s) /\ print_prompt(s)

TerminalNext ==
    \/ \E c \in Typed : Type(c)
    \/ Backspace
    \/ Enter
    \/ Full
    \/ Run

TerminalSpec == TerminalInit /\ [][TerminalNext]_terminal_vars

-----------------------------------------------------------------------------
Count == Len(input)
Here == Position(Screen)

(* What the line and the screen agree on while the line is edited, over    *)
(* wrapped lines, rows that scrolled away and backspaces into them: the    *)
(* cells before the cursor are the line.  A tab is one character and       *)
(* several cells, and a backspace in the line is none, so without those.   *)
EchoMatchesInput ==
    shell_pc = "input" /\ ~ odd =>
        \A i \in 1 .. Count :
            LET p == Here - Count + i - 1 IN p \in Cells => vga[p] = input[i]

(* Backspace does not reach behind the start of the line, nor get into the *)
(* line itself, unless a tab was typed or the cursor went back over the    *)
(* left edge: the coordinates it is compared with are then not the         *)
(* cursor's any more.                                                      *)
BackspaceStopsAtStart ==
    [][~ odd /\ cursor_x >= 0 => Bs \notin Range(input')]_terminal_vars

(* The words of a line: where they start, and each up to its end.          *)
Starts(line) == { i \in DOMAIN line : /\ line[i] # SHELL_COMMAND_DELIMITER
                                      /\ i > 1 => line[i - 1] = SHELL_COMMAND_DELIMITER }
Word(line, i) ==
    LET end == CHOOSE e \in i .. Len(line) :
                  /\ \A j \in i .. e : line[j] # SHELL_COMMAND_DELIMITER
                  /\ e < Len(line) => line[e + 1] = SHELL_COMMAND_DELIMITER
    IN  SubSeq(line, i, IF end < i + SHELL_ARGV_MAXIMUM - 1 THEN end
                        ELSE i + SHELL_ARGV_MAXIMUM - 2)

(* A command gets the words of the line in their order, the first ones if  *)
(* there are more than places, and of a word what its place holds.         *)
ParsedAsWords ==
    LET starts == Starts(input)
        Rank(i) == Cardinality({j \in starts : j <= i})
    IN  /\ Len(parse(input)) = Min({Cardinality(starts), SHELL_ARGC_MAXIMUM})
        /\ \A i \in starts :
              Rank(i) <= SHELL_ARGC_MAXIMUM => parse(input)[Rank(i)] = Word(input, i)

=============================================================================
