------------------------------ MODULE CrbInput ------------------------------
(* How source text reaches the parser and statements reach CRB_interpret:    *)
(* the three input functions of src/tlang/tlexer.c, do_compile and           *)
(* CRB_interpret of tinterpreter.c and the two modes of tlang.c.  The        *)
(* scanner asks for at most max_size characters when its buffer is empty;    *)
(* the grammar makes a statement of the characters up to a newline, drops    *)
(* what came before a token that does not fit (BAD), and raises at the end   *)
(* of a line with a constant expression that fails (FOLD), as 1/0 does.      *)
(* In interactive mode such a line jumps into a CRB_interpret that has       *)
(* returned, which C leaves undefined: lines there hold no FOLD.             *)
EXTENDS Integers, Sequences, SequencesExt

CONSTANTS
    Characters,     \* the characters of a program
    Builtin,        \* the lines of the built-in script
    Files,          \* the program texts
    Typed,          \* the lines a user types
    MaxLines,       \* bound on the lines typed, for model checking
    BufferSizes,    \* the values of max_size
    NL, BAD, FOLD,  \* newline, and the two kinds of faulty token
    NO_TEXT         \* the end of input, and no file

\* readline leaves the newline out.
ASSUME InputAssumption ==
    /\ Builtin \in Seq(Seq(Characters)) /\ Builtin # << >>
    /\ Files \subseteq Seq(Characters) /\ Typed \subseteq Seq(Characters)
    /\ \A line \in Typed : \A i \in 1..Len(line) : line[i] # NL
    /\ NL \in Characters /\ NO_TEXT \notin Seq(Characters)
    /\ BufferSizes \subseteq Nat /\ BufferSizes # {}

VARIABLES
    phase,          \* what CRB_create_interpreter, file_mode or readline_mode is at
    file,           \* the program's text, or NO_TEXT in interactive mode
    text, at,       \* the string characters come from, and how many have been taken
    lines,          \* the lines after it in string mode
    buf,            \* the scanner's buffer
    pending,        \* the tokens of the statement being parsed
    statement_list, last_statement_pos,
    delivered,      \* ghost: what the source in hand gave the scanner
    typed,          \* ghost: the lines readline returned
    history,        \* ghost: the lines given to add_history
    executed        \* ghost: the positions executed, in order

inputVars == <<phase, file, text, at, lines, buf, pending, statement_list,
               last_statement_pos, delivered, typed, history, executed>>
sourceVars == <<text, at, lines, typed, history>>
statementVars == <<statement_list, last_statement_pos, executed>>

Phases == {"builtin", "file", "readline", "interpret", "done", "exit"}
Parsing == phase \in {"builtin", "file", "readline"}

Smaller(a, b) == IF a < b THEN a ELSE b
Exhausted == IF text = NO_TEXT THEN TRUE ELSE at = Len(text)

-----------------------------------------------------------------------------

InputInit ==
    /\ phase = "builtin" /\ file \in Files \cup {NO_TEXT}
    /\ text = Builtin[1] /\ at = 0 /\ lines = Tail(Builtin)
    /\ buf = << >> /\ pending = << >>
    /\ statement_list = << >> /\ last_statement_pos = 0
    /\ delivered = << >> /\ typed = << >> /\ history = << >> /\ executed = << >>

(* An input function returns these characters *)
Deliver(chars) ==
    /\ buf' = chars
    /\ delivered' = delivered \o chars

Taken(from, max_size) == SubSeq(text, from + 1, from + Smaller(Len(text) - from, max_size))

FileInput(max_size) ==
    /\ phase = "file" /\ ~ Exhausted
    /\ Deliver(Taken(at, max_size))
    /\ at' = at + Len(Taken(at, max_size))
    /\ UNCHANGED <<phase, file, text, lines, pending, typed, history>>
    /\ UNCHANGED statementVars

(* The line to take from: the next one when this one is used up *)
StringInput(max_size) ==
    /\ phase = "builtin" /\ ~ (Exhausted /\ lines = << >>)
    /\ LET line == IF Exhausted THEN lines[1] ELSE text
           from == IF Exhausted THEN 0 ELSE at
           len == Smaller(Len(line) - from, max_size)
       IN  /\ Deliver(SubSeq(line, from + 1, from + len))
           /\ text' = line /\ at' = from + len
           /\ lines' = IF Exhausted THEN Tail(lines) ELSE lines
    /\ UNCHANGED <<phase, file, pending, typed, history>>
    /\ UNCHANGED statementVars

\* last_statement_pos stays at the statement that raised.
InterpretedLate(last) ==
    /\ last_statement_pos' = last
    /\ executed' = executed \o [i \in 1..(last - last_statement_pos) |-> last_statement_pos + i]
    /\ UNCHANGED statement_list

(* CRB_interpret: last_statement_pos moves to the end before anything runs,   *)
(* so that an exception in the statement `last` drops those behind it         *)
Interpreted(last) ==
    /\ last_statement_pos' = Len(statement_list)
    /\ executed' = executed \o [i \in 1..(last - last_statement_pos) |-> last_statement_pos + i]
    /\ UNCHANGED statement_list

Interpret == IF statement_list = << >> THEN UNCHANGED statementVars
             ELSE \E last \in Smaller(last_statement_pos + 1, Len(statement_list))..Len(statement_list) :
                    Interpreted(last)

(* The line is used up: what it said is executed before the next is asked     *)
(* for.  An empty line is a newline that is not kept in the history.          *)
Prompt(line) ==
    /\ phase = "readline" /\ buf = << >> /\ text # NO_TEXT /\ Exhausted
    /\ Len(typed) < MaxLines \/ line = NO_TEXT
    /\ Interpret
    /\ text' = IF line = << >> THEN <<NL>> ELSE line
    /\ at' = 0
    /\ typed' = IF line = NO_TEXT THEN typed ELSE Append(typed, line)
    /\ UNCHANGED <<phase, file, lines, buf, pending, delivered, history>>

\* The newline is added to a full buffer.
RoomAlways(chars, max_size) == TRUE

Room(chars, max_size) == Len(chars) < max_size

ReadlineInput(max_size) ==
    /\ phase = "readline" /\ ~ Exhausted
    /\ LET chars == Taken(at, max_size)
           ends == at + Len(chars) = Len(text) /\ text[Len(text)] # NL
           room == Room(chars, max_size)
       IN  /\ Deliver(IF ends /\ room THEN Append(chars, NL) ELSE chars)
           /\ text' = IF ~ ends THEN text ELSE IF room THEN << >> ELSE <<NL>>
           /\ at' = IF ends THEN 0 ELSE at + Len(chars)
           /\ history' = IF ends THEN Append(history, text) ELSE history
    /\ UNCHANGED <<phase, file, lines, pending, typed>>
    /\ UNCHANGED statementVars

Input ==
    /\ buf = << >>
    /\ \E max_size \in BufferSizes :
          FileInput(max_size) \/ StringInput(max_size) \/ ReadlineInput(max_size)

NewStatement(tokens) ==
    /\ statement_list' = Append(statement_list, tokens)
    /\ UNCHANGED <<last_statement_pos, executed>>

Faulty(tokens) == \E i \in 1..Len(tokens) : tokens[i] = FOLD

(* do_compile catches the exception, and its caller goes on as if the whole   *)
(* source had been parsed; a compile error ends the program unless a user can *)
(* go on typing                                                               *)
PhaseAfter(char) ==
    IF char = NL /\ Faulty(pending) THEN "interpret"
    ELSE IF char = BAD /\ phase # "readline" THEN "exit" ELSE phase

Token ==
    LET char == buf[1] IN
    /\ Parsing /\ buf # << >>
    /\ buf' = Tail(buf)
    /\ pending' = IF char \in {NL, BAD} THEN << >> ELSE Append(pending, char)
    /\ IF char = NL /\ ~ Faulty(pending) THEN NewStatement(pending) ELSE UNCHANGED statementVars
    /\ phase' = PhaseAfter(char)
    /\ UNCHANGED <<file, delivered>> /\ UNCHANGED sourceVars

(* The end of the source is a newline to the grammar.  After the built-in     *)
(* script the program's own source is opened; interactive mode ends without   *)
(* executing what came last, which is empty.                                  *)
EndOfSource ==
    /\ Parsing /\ buf = << >> /\ Exhausted /\ lines = << >>
    /\ phase = "readline" => text = NO_TEXT
    /\ IF Faulty(pending) THEN UNCHANGED statementVars ELSE NewStatement(pending)
    /\ pending' = << >>
    /\ IF phase # "builtin"
       THEN phase' = (IF phase = "file" THEN "interpret" ELSE "done") /\ UNCHANGED <<text, at, delivered>>
       ELSE /\ phase' = (IF file = NO_TEXT THEN "readline" ELSE "file")
            /\ text' = (IF file = NO_TEXT THEN <<NL>> ELSE file)
            /\ at' = 0 /\ delivered' = << >>
    /\ UNCHANGED <<file, lines, buf, typed, history>>

(* file_mode executes the program once it is parsed *)
RunProgram ==
    /\ phase = "interpret"
    /\ Interpret
    /\ phase' = "done"
    /\ UNCHANGED <<file, buf, pending, delivered>> /\ UNCHANGED sourceVars

InputNext ==
    \/ Input \/ Token \/ EndOfSource \/ RunProgram
    \/ \E line \in Typed \cup {NO_TEXT} : Prompt(line)

InputSpec == InputInit /\ [][InputNext]_inputVars

-----------------------------------------------------------------------------

(* The types of the variables, a part of RunsOnce. *)
InputTypeOK ==
    /\ phase \in Phases /\ file \in Files \cup {NO_TEXT}
    /\ IF text = NO_TEXT THEN at = 0 ELSE at \in 0..Len(text)
    /\ last_statement_pos \in 0..Len(statement_list)
    /\ \A i \in 1..Len(executed) : executed[i] \in 1..last_statement_pos

Line(line) == IF line = << >> \/ line[Len(line)] # NL THEN Append(line, NL) ELSE line

Whole == CASE phase = "builtin" -> FlattenSeq(Builtin)
           [] phase = "readline" -> <<NL>> \o FlattenSeq([i \in 1..Len(typed) |-> Line(typed[i])])
           [] OTHER -> file

Outstanding ==
    LET rest == IF Exhausted THEN << >> ELSE SubSeq(text, at + 1, Len(text)) IN
    (IF phase = "readline" /\ rest # << >> THEN Line(rest) ELSE rest) \o FlattenSeq(lines)

\* The lines that are not empty
KeptLines == FlattenSeq([i \in 1..Len(typed) |-> IF typed[i] = << >> THEN << >> ELSE <<typed[i]>>])

(* Wherever max_size cuts it, every character of the source reaches the        *)
(* scanner once, in order, and fits its buffer; a line typed without a newline *)
(* gets just one, and every line that is not empty enters the history once     *)
(* (file_input, string_input and readline_input).                              *)
EachCharacterOnce ==
    Parsing =>
    /\ delivered \o Outstanding = Whole
    /\ \E max_size \in BufferSizes : Len(buf) <= max_size
    /\ history = IF text # NO_TEXT /\ KeptLines # << >> /\ text = KeptLines[Len(KeptLines)] /\ ~ Exhausted
                 THEN SubSeq(KeptLines, 1, Len(KeptLines) - 1) ELSE KeptLines

(* Every statement is executed at most once and in the order it was parsed,    *)
(* also after an exception dropped the rest of its batch; when a line is asked *)
(* for, all that came before it, the built-in script included, has been handed *)
(* to CRB_interpret (statement_list and last_statement_pos).                   *)
RunsOnce ==
    /\ InputTypeOK
    /\ \A i, j \in 1..Len(executed) : i < j => executed[i] < executed[j]
    /\ phase = "readline" /\ typed # << >> => Len(statement_list) <= last_statement_pos + 1
    /\ phase = "done" /\ file # NO_TEXT => last_statement_pos = Len(statement_list)

=============================================================================
