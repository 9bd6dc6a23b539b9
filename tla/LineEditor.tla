----------------------------- MODULE LineEditor -----------------------------
(***************************************************************************)
(* What the prompt of the shell promises: a line of text with a cursor, a  *)
(* list of the latest commands to walk through, and the draft that walking *)
(* sets aside.  Enter runs the words of what stands before the cursor.     *)
(***************************************************************************)
EXTENDS Integers, SequencesExt

CONSTANTS Char, Space, Width, Memory, MaxWords

VARIABLES text, cursor, past, at, draft, ran

vars == <<text, cursor, past, at, draft, ran>>

Before == SubSeq(text, 1, cursor)

\* The words of a text: the runs of characters between spaces.
Words(s) ==
    LET upTo[i \in 0 .. Len(s)] ==
            IF i = 0 THEN <<>>
            ELSE IF s[i] = Space THEN upTo[i - 1]
            ELSE IF i = 1 \/ s[i - 1] = Space THEN Append(upTo[i - 1], <<s[i]>>)
            ELSE [upTo[i - 1] EXCEPT ![Len(upTo[i - 1])] = Append(@, s[i])]
    IN  upTo[Len(s)]

FirstOf(s, n) == SubSeq(s, 1, IF Len(s) < n THEN Len(s) ELSE n)

\* The latest commands, without empty ones and repetitions, oldest first.
Remember(command) ==
    IF command = <<>> \/ (past # <<>> /\ Last(past) = command) THEN past
    ELSE IF Len(past) = Memory THEN Append(Tail(past), command)
    ELSE Append(past, command)

Init == text = <<>> /\ cursor = 0 /\ past = <<>> /\ at = 0 /\ draft = <<>> /\ ran = <<>>

Show(s) == text' = s /\ cursor' = Len(s)

Enter ==
    /\ ran' = FirstOf(Words(Before), MaxWords)
    /\ past' = Remember(Before)
    /\ Show(<<>>) /\ at' = 0 /\ draft' = <<>>

Erase ==
    /\ cursor > 0
    /\ text' = RemoveAt(text, cursor)
    /\ cursor' = cursor - 1
    /\ UNCHANGED <<past, at, draft, ran>>

\* The at-th latest command is shown; the first step back sets the draft aside.
Older ==
    /\ at < Len(past)
    /\ at' = at + 1
    /\ draft' = IF at = 0 THEN Before ELSE draft
    /\ Show(past[Len(past) - at])
    /\ UNCHANGED <<past, ran>>

Newer ==
    /\ at > 0
    /\ at' = at - 1
    /\ \/ at > 1 /\ Show(past[Len(past) - at + 2]) /\ UNCHANGED draft
       \/ at = 1 /\ Show(draft) /\ draft' = <<>>
    /\ UNCHANGED <<past, ran>>

Move ==
    /\ cursor' \in {cursor - 1, cursor + 1} \cap (0 .. Len(text))
    /\ UNCHANGED <<text, past, at, draft, ran>>

\* A character replaces the one under the cursor, or is appended.
Type(c) ==
    /\ cursor < Width
    /\ text' = IF cursor < Len(text) THEN [text EXCEPT ![cursor + 1] = c] ELSE Append(text, c)
    /\ cursor' = cursor + 1
    /\ UNCHANGED <<past, at, draft, ran>>

Next == Enter \/ Erase \/ Older \/ Newer \/ Move \/ \E c \in Char : Type(c)

Spec == Init /\ [][Next]_vars
=============================================================================
