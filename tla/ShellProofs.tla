---------------------------- MODULE ShellProofs ----------------------------
(***************************************************************************)
(* No string of the prompt of user/shell.c ever runs past its buffer, for  *)
(* every size of the line, of the history and of argv and any number of    *)
(* keys, when the last byte of the uninitialised line buffer is NUL.       *)
(*                                                                         *)
(* StringsEnd alone is not inductive: a NUL in the middle of a buffer can  *)
(* be typed over, and the draft must be whole before it is copied back.    *)
(* PromptInv says that the last byte of every buffer is NUL and stays so,  *)
(* and that the draft has no NUL before the saved cursor.                  *)
(***************************************************************************)
EXTENDS Shell, TLAPS, WellFoundedInduction

\* What shell_main takes for granted of its line buffer, which is not initialised.
JunkEnds == \A s \in Junk : s[LINE - 1] = NUL

Ended == {s \in Buffers : s[LINE - 1] = NUL}

\* No byte of s before place n is NUL.
Whole(s, n) == \A i \in 0 .. n - 1 : s[i] # NUL

PromptInv ==
    /\ line \in Ended /\ saved_line \in Ended
    /\ history \in [0 .. HISTORY_MAX - 1 -> Ended]
    /\ history_count \in 0 .. HISTORY_MAX
    /\ history_index \in -1 .. history_count - 1
    /\ line_len \in 0 .. LINE - 1 /\ pos \in 0 .. line_len /\ saved_pos \in 0 .. LINE - 1
    /\ Whole(line, line_len) /\ Whole(saved_line, saved_pos)

\* A non-empty set of naturals has a minimum, and Min is it.
LEMMA MinOfNats ==
    ASSUME NEW S \in SUBSET Nat, S # {}
    PROVE  Min(S) \in S /\ \A y \in S : Min(S) <= y
<1>1. PICK x \in S : \A y \in S : ~(<<y, x>> \in OpToRel(<, Nat))
  BY NatLessThanWellFounded, WFMin
<1>2. \A y \in S : x <= y
  <2> SUFFICES ASSUME NEW y \in S PROVE ~(y < x)
    OBVIOUS
  <2>1. <<y, x>> \in Nat \X Nat
    OBVIOUS
  <2>2. QED
    BY <1>1, <2>1 DEF OpToRel
<1>3. QED
  BY <1>2 DEF Min

\* strlen finds the first NUL of a buffer that ends in one.
LEMMA StrlenFindsEnd ==
    ASSUME NEW s \in Ended
    PROVE  /\ strlen(s, 0) \in 0 .. LINE - 1
           /\ s[strlen(s, 0)] = NUL
           /\ Whole(s, strlen(s, 0))
           /\ \A n \in 0 .. LINE - 1 : Whole(s, n) => n <= strlen(s, 0)
<1> DEFINE N == {j \in 0 .. LINE - 1 : s[j] = NUL}
<1>1. N \in SUBSET Nat /\ LINE - 1 \in N
  BY ShellAssumption DEF Ended
<1>2. Min(N) \in N /\ \A y \in N : Min(N) <= y
  BY <1>1, MinOfNats
<1>3. strlen(s, 0) = Min(N)
  BY <1>2 DEF strlen
<1>4. QED
  BY <1>2, <1>3, ShellAssumption DEF Whole

\* strcpy copies the whole string and leaves a buffer that ends in NUL.
LEMMA StrcpyCopies ==
    ASSUME NEW d \in Ended, NEW s \in Ended
    PROVE  /\ strcpy(d, s) \in Ended
           /\ \A n \in 0 .. LINE - 1 : Whole(s, n) => Whole(strcpy(d, s), n)
<1> DEFINE k == strlen(s, 0)
           r == strcpy(d, s)
<1>1. /\ k \in 0 .. LINE - 1 /\ s[k] = NUL
      /\ \A n \in 0 .. LINE - 1 : Whole(s, n) => n <= k
  BY StrlenFindsEnd
<1>2. r = [i \in 0 .. LINE - 1 |-> IF i <= k THEN s[i] ELSE d[i]]
  BY DEF strcpy
<1> HIDE DEF k, r
<1>3. r \in Ended
  BY <1>1, <1>2, ShellAssumption DEF Ended, Buffers
<1>4. ASSUME NEW n \in 0 .. LINE - 1, Whole(s, n) PROVE Whole(r, n)
  <2>1. \A i \in 0 .. n - 1 : i \in 0 .. LINE - 1 /\ i <= k
    BY <1>1, <1>4, ShellAssumption
  <2>2. QED
    BY <1>2, <1>4, <2>1 DEF Whole
<1>5. QED
  BY <1>3, <1>4 DEF r

\* parse_command only puts NULs into the line.
LEMMA CutEnds ==
    ASSUME NEW s \in Ended
    PROVE  Cut(s) \in Ended
<1>1. LINE - 1 \in 0 .. LINE - 1 /\ s \in [0 .. LINE - 1 -> Chars \cup {NUL}]
  BY ShellAssumption DEF Ended, Buffers
<1>2. Cut(s) \in [0 .. LINE - 1 -> Chars \cup {NUL}] /\ Cut(s)[LINE - 1] = NUL
  BY <1>1 DEF Cut, Ended
<1>3. QED
  BY <1>2 DEF Ended, Buffers

\* history_add keeps whole commands, at most HISTORY_MAX of them.
LEMMA HistoryAddKeeps ==
    ASSUME PromptInv, NEW s \in Ended, history_add(s)
    PROVE  /\ history' \in [0 .. HISTORY_MAX - 1 -> Ended]
           /\ history_count' \in 0 .. HISTORY_MAX
<1>0. /\ history \in [0 .. HISTORY_MAX - 1 -> Ended] /\ HISTORY_MAX \in Nat \ {0}
      /\ history_count \in 0 .. HISTORY_MAX
  BY ShellAssumption DEF PromptInv
<1>1. \A d \in Ended, e \in Ended : strcpy(d, e) \in Ended
  BY StrcpyCopies
<1>2. CASE UNCHANGED <<history, history_count>>
  BY <1>0, <1>2
<1>3. CASE /\ history' = [Shifted EXCEPT ![HISTORY_MAX - 1] = strcpy(@, s)]
           /\ history_count' = HISTORY_MAX
  <2>1. Shifted \in [0 .. HISTORY_MAX - 1 -> Ended]
    <3>1. \A h \in 0 .. HISTORY_MAX - 1 : h < HISTORY_MAX - 1 => h + 1 \in 0 .. HISTORY_MAX - 1
      BY <1>0
    <3>2. QED
      BY <1>0, <1>1, <3>1 DEF Shifted
  <2>2. QED
    BY <1>0, <1>1, <1>3, <2>1
<1>4. CASE /\ history_count < HISTORY_MAX
           /\ history' = [history EXCEPT ![history_count] = strcpy(@, s)]
           /\ history_count' = history_count + 1
  BY <1>0, <1>1, <1>4
<1>5. QED
  BY <1>0, <1>2, <1>3, <1>4 DEF history_add

\* The command that is recalled stands in the line up to its NUL.
LEMMA RecallKeeps ==
    ASSUME PromptInv, NEW n \in 0 .. history_count - 1, Recall(n)
    PROVE  /\ history_index' = n /\ line' \in Ended
           /\ line_len' \in 0 .. LINE - 1 /\ pos' = line_len' /\ Whole(line', line_len')
<1>1. history[history_count - 1 - n] \in Ended /\ line \in Ended
  BY ShellAssumption DEF PromptInv
<1>2. line' \in Ended
  BY <1>1, StrcpyCopies DEF Recall
<1>3. QED
  BY <1>2, StrlenFindsEnd DEF Recall

\* The zeroed buffers, and the line buffer by assumption, end in NUL.
LEMMA InitPrompt ==
    ASSUME JunkEnds, Init
    PROVE  PromptInv
<1>1. [i \in 0 .. LINE - 1 |-> NUL] \in Ended
  BY ShellAssumption DEF Ended, Buffers
<1>2. line \in Ended
  BY ShellAssumption DEF Init, JunkEnds, Ended, Buffers
<1>3. history \in [0 .. HISTORY_MAX - 1 -> Ended] /\ saved_line \in Ended
  BY <1>1 DEF Init
<1>4. QED
  BY <1>2, <1>3, ShellAssumption DEF Init, PromptInv, Whole

\* Every key keeps the invariant.
LEMMA KeyKeepsPrompt ==
    ASSUME PromptInv, Next
    PROVE  PromptInv'
<1>0. /\ line \in Ended /\ saved_line \in Ended
      /\ history \in [0 .. HISTORY_MAX - 1 -> Ended]
      /\ history_count \in 0 .. HISTORY_MAX /\ history_index \in -1 .. history_count - 1
      /\ line_len \in 0 .. LINE - 1 /\ pos \in 0 .. line_len /\ saved_pos \in 0 .. LINE - 1
      /\ Whole(line, line_len) /\ Whole(saved_line, saved_pos)
      /\ LINE \in Nat \ {0, 1} /\ HISTORY_MAX \in Nat \ {0} /\ NUL \notin Chars
      /\ line \in [0 .. LINE - 1 -> Chars \cup {NUL}] /\ line[LINE - 1] = NUL
  BY ShellAssumption DEF PromptInv, Ended, Buffers
<1>1. CASE Enter
  <2> DEFINE s == [line EXCEPT ![pos] = NUL]
  <2>1. s \in Ended
    BY <1>0 DEF Ended, Buffers
  <2>2. history_add(s) /\ line' = Cut(s)
    BY <1>1 DEF Enter
  <2> HIDE DEF s
  <2>3. /\ history' \in [0 .. HISTORY_MAX - 1 -> Ended] /\ history_count' \in 0 .. HISTORY_MAX
    BY <2>1, <2>2, HistoryAddKeeps
  <2>4. line' \in Ended
    BY <2>1, <2>2, CutEnds
  <2>5. pos' = 0 /\ line_len' = 0 /\ history_index' = -1 /\ UNCHANGED <<saved_line, saved_pos>>
    BY <1>1 DEF Enter
  <2>6. Whole(line', line_len')
    BY <2>5 DEF Whole
  <2>7. history_count' \in Nat
    BY <1>0, <2>3
  <2>8. history_index' \in -1 .. history_count' - 1
    <3>1. \A k \in Nat : -1 \in -1 .. k - 1
      OBVIOUS
    <3>2. QED
      BY <2>5, <2>7, <3>1
  <2>9. line_len' \in 0 .. LINE - 1 /\ pos' \in 0 .. line_len'
    <3>1. 0 \in 0 .. 0 /\ 0 \in 0 .. LINE - 1
      BY <1>0
    <3>2. QED
      BY <2>5, <3>1
  <2>10. saved_line' \in Ended /\ saved_pos' \in 0 .. LINE - 1 /\ Whole(saved_line', saved_pos')
    BY <1>0, <2>5
  <2>11. QED
    BY <2>3, <2>4, <2>6, <2>8, <2>9, <2>10 DEF PromptInv
<1>2. CASE Backspace
  <2>1. /\ pos > 0 /\ pos' = pos - 1 /\ line_len' = line_len - 1
        /\ line' = [i \in 0 .. LINE - 1 |->
                     IF i = line_len - 1 THEN NUL
                     ELSE IF i >= pos - 1 /\ i < line_len - 1 THEN line[i + 1] ELSE line[i]]
        /\ UNCHANGED <<saved_line, saved_pos, history, history_count, history_index>>
    BY <1>2 DEF Backspace
  <2>2. line' \in Ended
    BY <1>0, <2>1 DEF Ended, Buffers
  <2>3. Whole(line', line_len')
    <3> SUFFICES ASSUME NEW i \in 0 .. line_len - 2 PROVE line'[i] # NUL
      BY <1>0, <2>1 DEF Whole
    <3>1. /\ i \in 0 .. LINE - 1 /\ i # line_len - 1 /\ i < line_len - 1
          /\ i \in 0 .. line_len - 1 /\ i + 1 \in 0 .. line_len - 1
      BY <1>0
    <3>2. line'[i] = line[i] \/ line'[i] = line[i + 1]
      BY <2>1, <3>1
    <3>3. QED
      BY <1>0, <3>1, <3>2 DEF Whole
  <2>4. QED
    BY <1>0, <2>1, <2>2, <2>3 DEF PromptInv
<1>3. CASE KeyUp
  <2>1. /\ history_index + 1 \in 0 .. history_count - 1
        /\ UNCHANGED <<history, history_count>>
    BY <1>0, <1>3 DEF KeyUp
  <2>2. /\ history_index' = history_index + 1 /\ line' \in Ended
        /\ line_len' \in 0 .. LINE - 1 /\ pos' = line_len' /\ Whole(line', line_len')
    BY <1>3, <2>1, RecallKeeps DEF KeyUp
  <2>3. saved_line' \in Ended /\ saved_pos' \in 0 .. LINE - 1 /\ Whole(saved_line', saved_pos')
    <3>1. CASE saved_line' = strcpy(saved_line, line) /\ saved_pos' = pos
      <4>1. Whole(line, pos) /\ pos \in 0 .. LINE - 1
        BY <1>0 DEF Whole
      <4>2. QED
        BY <1>0, <3>1, <4>1, StrcpyCopies
    <3>2. QED
      BY <1>0, <1>3, <3>1 DEF KeyUp
  <2>4. QED
    BY <1>0, <2>1, <2>2, <2>3 DEF PromptInv
<1>4. CASE KeyDown
  <2>0. UNCHANGED <<saved_line, saved_pos, history, history_count>>
    BY <1>4 DEF KeyDown
  <2>1. CASE history_index > 0 /\ Recall(history_index - 1)
    <3>1. /\ history_index' = history_index - 1 /\ line' \in Ended
          /\ line_len' \in 0 .. LINE - 1 /\ pos' = line_len' /\ Whole(line', line_len')
      BY <1>0, <2>1, RecallKeeps
    <3>2. QED
      BY <1>0, <2>0, <2>1, <3>1 DEF PromptInv
  <2>2. CASE /\ history_index' = -1 /\ line' = strcpy(line, saved_line)
             /\ pos' = saved_pos /\ line_len' = saved_pos
    <3>1. line' \in Ended /\ Whole(line', saved_pos)
      BY <1>0, <2>2, StrcpyCopies
    <3>2. QED
      BY <1>0, <2>0, <2>2, <3>1 DEF PromptInv
  <2>3. QED
    BY <1>4, <2>1, <2>2 DEF KeyDown
<1>5. CASE KeyLeft \/ KeyRight
  BY <1>0, <1>5 DEF KeyLeft, KeyRight, PromptInv
<1>6. ASSUME NEW c \in Chars, Type(c) PROVE PromptInv'
  <2>1. /\ pos < LINE - 1 /\ line' = [line EXCEPT ![pos] = c] /\ pos' = pos + 1
        /\ line_len' = Max({line_len, pos + 1})
        /\ UNCHANGED <<saved_line, saved_pos, history, history_count, history_index>>
    BY <1>6 DEF Type
  <2>2. line_len' = IF pos = line_len THEN pos + 1 ELSE line_len
    <3>1. CASE pos = line_len
      <4>1. pos + 1 \in {line_len, pos + 1} /\ \A y \in {line_len, pos + 1} : pos + 1 >= y
        BY <1>0, <3>1
      <4>2. QED
        BY <1>0, <2>1, <3>1, <4>1 DEF Max
    <3>2. CASE pos < line_len
      BY <1>0, <2>1, <3>2 DEF Max
    <3>3. QED
      BY <1>0, <3>1, <3>2
  <2>3. line' \in Ended
    BY <1>0, <1>6, <2>1 DEF Ended, Buffers
  <2>4. Whole(line', line_len')
    BY <1>0, <1>6, <2>1, <2>2 DEF Whole
  <2>5. QED
    BY <1>0, <2>1, <2>2, <2>3, <2>4 DEF PromptInv
<1>7. QED
  BY <1>1, <1>2, <1>3, <1>4, <1>5, <1>6 DEF Next

\* Whatever is typed, edited, recalled and executed, every buffer of the prompt holds
\* a string that ends inside it, and the line typed so far has no NUL in it.
THEOREM StringsAlwaysEnd ==
    ASSUME JunkEnds
    PROVE  Spec => []StringsEnd
<1>1. Init => PromptInv
  BY InitPrompt
<1>2. PromptInv /\ [Next]_vars => PromptInv'
  <2> SUFFICES ASSUME PromptInv, [Next]_vars PROVE PromptInv'
    OBVIOUS
  <2>1. CASE UNCHANGED vars
    BY <2>1 DEF vars, PromptInv
  <2>2. QED
    BY <2>1, KeyKeepsPrompt
<1>3. PromptInv => StringsEnd
  <2> SUFFICES ASSUME PromptInv PROVE StringsEnd
    OBVIOUS
  <2>1. LINE - 1 \in 0 .. LINE - 1
    BY ShellAssumption
  <2>2. TypeOK
    BY DEF PromptInv, TypeOK, Ended
  <2>3. \A s \in {line, saved_line} \cup {history[h] : h \in DOMAIN history} : s[LINE - 1] = NUL
    BY DEF PromptInv, Ended
  <2>4. QED
    BY <2>1, <2>2, <2>3 DEF StringsEnd, PromptInv, Whole
<1>4. QED
  BY <1>1, <1>2, <1>3, PTL DEF Spec
=============================================================================
