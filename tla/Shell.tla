------------------------------- MODULE Shell -------------------------------
(***************************************************************************)
(* The prompt of the shell (user/shell.c, shell_main): the line buffer and *)
(* its editing, the command history, and the split of a line into argv.    *)
(*                                                                         *)
(* A buffer is an array of bytes that holds a string up to its first NUL;  *)
(* what lies behind it stays there.  One action per key, as shell_main     *)
(* works on one key at a time and nobody else has its buffers.             *)
(***************************************************************************)
EXTENDS Integers, FiniteSets, FiniteSetsExt, SequencesExt

CONSTANTS
    LINE,          \* bytes of a line buffer
    HISTORY_MAX,
    MAX_ARGS,      \* entries of argv
    Chars,         \* what the keyboard types
    SPACE, NUL,
    Junk,          \* what the line buffer may hold when shell_main begins
    MaxKeys        \* bound: keys pressed

ASSUME ShellAssumption ==
    /\ LINE \in Nat \ {0, 1} /\ HISTORY_MAX \in Nat \ {0} /\ MAX_ARGS \in Nat \ {0}
    /\ MaxKeys \in Nat
    /\ NUL \notin Chars /\ SPACE # NUL
    /\ Junk \subseteq [0 .. LINE - 1 -> Chars \cup {NUL}]

VARIABLES
    line, pos, line_len,
    saved_line, saved_pos,
    history, history_count,
    history_index,   \* -1: the line being typed
    ran,             \* the words execute gave to the last command
    keys             \* keys pressed so far

vars == <<line, pos, line_len, saved_line, saved_pos,
          history, history_count, history_index, ran, keys>>

Buffers == [0 .. LINE - 1 -> Chars \cup {NUL}]

\* static char arrays start zeroed, line is on the stack.
Init ==
    /\ line \in Junk /\ pos = 0 /\ line_len = 0
    /\ saved_line = [i \in 0 .. LINE - 1 |-> NUL] /\ saved_pos = 0
    /\ history = [h \in 0 .. HISTORY_MAX - 1 |-> [i \in 0 .. LINE - 1 |-> NUL]]
    /\ history_count = 0 /\ history_index = -1
    /\ ran = <<>> /\ keys = 0

-----------------------------------------------------------------------------
(* kernel/string.c.  strlen counts from the byte at i.                       *)

strlen(s, i) == Min({j \in i .. LINE - 1 : s[j] = NUL}) - i

String(s, i) == [k \in 1 .. strlen(s, i) |-> s[i + k - 1]]

\* Bytes up to and including the NUL are copied; the rest of dest stays.
strcpy(dest, src) ==
    [i \in 0 .. LINE - 1 |-> IF i <= strlen(src, 0) THEN src[i] ELSE dest[i]]

-----------------------------------------------------------------------------
\* parse_command: the places where a word begins, the first MAX_ARGS of them,
\* and the line with the space behind each of those words overwritten by NUL.
Starts(s) == {i \in 0 .. strlen(s, 0) - 1 : s[i] # SPACE /\ (i = 0 \/ s[i - 1] = SPACE)}

Taken(s) == {i \in Starts(s) : Cardinality({j \in Starts(s) : j < i}) < MAX_ARGS}

Cut(s) ==
    [i \in 0 .. LINE - 1 |->
        IF i > 0 /\ i < strlen(s, 0) /\ s[i] = SPACE /\ s[i - 1] # SPACE
           /\ Max({j \in Starts(s) : j < i}) \in Taken(s)
        THEN NUL ELSE s[i]]

\* argv as the command sees it.
Argv(s) ==
    LET starts == SetToSortSeq(Taken(s), <)
    IN  [k \in 1 .. Len(starts) |-> String(Cut(s), starts[k])]

-----------------------------------------------------------------------------
\* getchar returned a key.
Pressed == keys < MaxKeys /\ keys' = keys + 1

\* history_add: nothing for an empty line or the command just repeated; a full
\* history first moves every entry one place forward.
Repeated(s) == \/ strlen(s, 0) = 0
               \/ history_count > 0 /\ String(history[history_count - 1], 0) = String(s, 0)

Shifted == [h \in 0 .. HISTORY_MAX - 1 |->
              IF h < HISTORY_MAX - 1 THEN strcpy(history[h], history[h + 1]) ELSE history[h]]

history_add(s) ==
    IF Repeated(s) THEN UNCHANGED <<history, history_count>>
    ELSE IF history_count >= HISTORY_MAX
    THEN /\ history' = [Shifted EXCEPT ![HISTORY_MAX - 1] = strcpy(@, s)]
         /\ history_count' = HISTORY_MAX
    ELSE /\ history' = [history EXCEPT ![history_count] = strcpy(@, s)]
         /\ history_count' = history_count + 1

\* Mutation of Enter: the line is executed before it is remembered.
EnterExecutesFirst ==
    LET s == [line EXCEPT ![pos] = NUL]
    IN  /\ Pressed
        /\ ran' = Argv(s)
        /\ line' = Cut(s)
        /\ history_add(Cut(s))
        /\ pos' = 0 /\ line_len' = 0 /\ history_index' = -1
        /\ UNCHANGED <<saved_line, saved_pos>>

Enter ==
    LET s == [line EXCEPT ![pos] = NUL]
    IN  /\ Pressed
        /\ history_add(s)
        /\ line' = Cut(s)
        /\ ran' = Argv(s)
        /\ pos' = 0 /\ line_len' = 0 /\ history_index' = -1
        /\ UNCHANGED <<saved_line, saved_pos>>

\* What is behind the cursor moves one place to the left.
Backspace ==
    /\ Pressed
    /\ pos > 0
    /\ line' = [i \in 0 .. LINE - 1 |->
                  IF i = line_len - 1 THEN NUL
                  ELSE IF i >= pos - 1 /\ i < line_len - 1 THEN line[i + 1] ELSE line[i]]
    /\ pos' = pos - 1 /\ line_len' = line_len - 1
    /\ UNCHANGED <<saved_line, saved_pos, history, history_count, history_index, ran>>

\* The n-th latest command becomes the line, with the cursor at its end.
Recall(n) ==
    /\ history_index' = n
    /\ line' = strcpy(line, history[history_count - 1 - n])
    /\ pos' = strlen(line', 0) /\ line_len' = pos'

KeyUp ==
    /\ Pressed
    /\ history_index < history_count - 1
    /\ IF history_index = -1
       THEN saved_line' = strcpy(saved_line, line) /\ saved_pos' = pos
       ELSE UNCHANGED <<saved_line, saved_pos>>
    /\ Recall(history_index + 1)
    /\ UNCHANGED <<history, history_count, ran>>

\* Back to the draft the line ends at the saved cursor.
KeyDown ==
    /\ Pressed
    /\ history_index # -1
    /\ \/ history_index > 0 /\ Recall(history_index - 1)
       \/ /\ history_index = 0
          /\ history_index' = -1
          /\ line' = strcpy(line, saved_line)
          /\ pos' = saved_pos /\ line_len' = saved_pos
    /\ UNCHANGED <<saved_line, saved_pos, history, history_count, ran>>

KeyLeft ==
    /\ Pressed
    /\ pos > 0 /\ pos' = pos - 1
    /\ UNCHANGED <<line, line_len, saved_line, saved_pos,
                   history, history_count, history_index, ran>>

KeyRight ==
    /\ Pressed
    /\ pos < line_len /\ pos' = pos + 1
    /\ UNCHANGED <<line, line_len, saved_line, saved_pos,
                   history, history_count, history_index, ran>>

\* Mutation of Type: the last byte of the buffer is used as well.
TypeToTheEnd(c) ==
    /\ Pressed
    /\ pos < LINE
    /\ line' = [line EXCEPT ![pos] = c]
    /\ pos' = pos + 1 /\ line_len' = Max({line_len, pos + 1})
    /\ UNCHANGED <<saved_line, saved_pos, history, history_count, history_index, ran>>

\* A character overwrites the one at the cursor; the last byte stays for the NUL.
Type(c) ==
    /\ Pressed
    /\ pos < LINE - 1
    /\ line' = [line EXCEPT ![pos] = c]
    /\ pos' = pos + 1 /\ line_len' = Max({line_len, pos + 1})
    /\ UNCHANGED <<saved_line, saved_pos, history, history_count, history_index, ran>>

Next == \/ Enter \/ Backspace \/ KeyUp \/ KeyDown \/ KeyLeft \/ KeyRight
        \/ \E c \in Chars : Type(c)

Spec == Init /\ [][Next]_vars

-----------------------------------------------------------------------------
TypeOK ==
    /\ line \in Buffers /\ saved_line \in Buffers
    /\ history \in [0 .. HISTORY_MAX - 1 -> Buffers]
    /\ history_count \in 0 .. HISTORY_MAX
    /\ history_index \in -1 .. history_count - 1
    /\ pos \in 0 .. line_len /\ line_len \in 0 .. LINE - 1 /\ saved_pos \in 0 .. LINE - 1

\* Every buffer holds a string that ends inside it, so no strcpy of shell_main or
\* history_add ever runs past a buffer; and the line typed so far has no NUL in it,
\* although the bytes behind it are left over from other commands.
StringsEnd ==
    /\ TypeOK
    /\ \A s \in {line, saved_line} \cup {history[h] : h \in DOMAIN history} :
           \E i \in 0 .. LINE - 1 : s[i] = NUL
    /\ \A i \in 0 .. line_len - 1 : line[i] # NUL

Editor == INSTANCE LineEditor WITH
            Char <- Chars, Space <- SPACE, Width <- LINE - 1,
            Memory <- HISTORY_MAX, MaxWords <- MAX_ARGS,
            text <- [k \in 1 .. line_len |-> line[k - 1]],
            cursor <- pos,
            past <- [k \in 1 .. history_count |-> String(history[k - 1], 0)],
            at <- history_index + 1,
            draft <- IF history_index = -1 THEN <<>> ELSE [k \in 1 .. saved_pos |-> saved_line[k - 1]],
            ran <- ran

\* The buffers, with their left-over bytes, copies and NULs put in by parse_command,
\* implement the line editor: what is typed, recalled or set aside comes back as it
\* was, the history holds whole commands, and a command gets the words of the line.
RefinesEditor == Editor!Spec
=============================================================================
