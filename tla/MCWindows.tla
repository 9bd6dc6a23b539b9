----------------------------- MODULE MCWindows -----------------------------
(* Small instances of Windows for TLC. *)
EXTENDS Windows

ThreeWindows == <<"info", "hello", "help">>

\* 3 x 3 windows that overlap in pairs; the close button is one pixel.
Overlapping ==
    [w \in Range(ThreeWindows) |->
        CASE w = "info"  -> [x |-> 0, y |-> 0, cw |-> 1, ch |-> 1]
          [] w = "hello" -> [x |-> 2, y |-> 0, cw |-> 1, ch |-> 1]
          [] OTHER       -> [x |-> 1, y |-> 1, cw |-> 1, ch |-> 1]]

Arrow == {<<0, 0>>, <<1, 1>>}

\* Steps, and one move that the screen's edge cuts off.
Steps == {<<1, 0>>, <<0, 1>>, <<0, -1>>, <<-3, 0>>}
=============================================================================
