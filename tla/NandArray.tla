------------------------------ MODULE NandArray ------------------------------
(***************************************************************************)
(* What the transfer engine driver promises the layers above it, which is  *)
(* what NandPhysical and the MTD cores build on: an array of pages and one *)
(* call at a time.  Until it is answered a program or an erase changes the *)
(* array at most once and at one moment, by exactly what was asked and     *)
(* only inside the arena, whatever fails; an answer is good only if that   *)
(* has happened, or if it returns the bytes the page holds, and never once *)
(* the engine has failed.                                                  *)
(***************************************************************************)
EXTENDS Integers, Sequences

CONSTANTS
  Page,         \* pages of the chip
  RawBytes,     \* bytes of a page, data and spare
  BlockPages,   \* pages of an erase block
  Arena,        \* pages that may be programmed and erased
  Images        \* page images a caller programs

VARIABLES
  array,    \* page -> its bytes
  failed,   \* the engine has failed
  call      \* the call under way: asked, taken by the chip, or answered

Bytes == 0 .. RawBytes - 1

Erased == [i \in Bytes |-> 1]

Asking(kind, p, c, im) ==
  [state |-> "asked", kind |-> kind, page |-> p, column |-> c, image |-> im,
   good |-> FALSE, data |-> <<>>]

Idle == [Asking("read", 0, 0, Erased) EXCEPT !.state = "idle"]

\* The array once a program or an erase is done: bits are only cleared from the
\* column on, or one block is all ones.
After(a) ==
  CASE call.kind = "program" ->
         [a EXCEPT ![call.page] =
            [i \in Bytes |-> IF i >= call.column /\ call.image[i] = 0 THEN 0 ELSE @[i]]]
    [] call.kind = "erase" ->
         [p \in Page |-> IF p \div BlockPages = call.page \div BlockPages THEN Erased
                         ELSE a[p]]

\* The bytes of a page from a column to its end.
BytesFrom(p, c) == [i \in 1 .. RawBytes - c |-> array[p][c + i - 1]]

Init ==
  /\ array = [p \in Page |-> Erased]
  /\ failed = FALSE
  /\ call = Idle

Ask ==
  /\ call.state = "idle"
  /\ \E p \in Page :
       \/ \E c \in Bytes :
            \/ call' = Asking("read", p, c, Erased)
            \/ \E im \in Images : call' = Asking("program", p, c, im)
       \/ call' = Asking("erase", p, 0, Erased)
  /\ UNCHANGED <<array, failed>>

\* The one step that changes the array; a wait may time out with it.
Take ==
  /\ call.state = "asked" /\ call.kind # "read" /\ call.page \in Arena
  /\ array' = After(array)
  /\ call' = [call EXCEPT !.state = "taken"]
  /\ failed' \in {failed, TRUE}

Fail == failed' = TRUE /\ UNCHANGED <<array, call>>

Answer ==
  /\ call.state \in {"asked", "taken"}
  /\ \E good \in BOOLEAN :
       /\ good => ~failed /\ (call.kind = "read" \/ call.state = "taken")
       /\ call' = [call EXCEPT !.state = "answered", !.good = good,
                     !.data = IF good /\ call.kind = "read"
                              THEN BytesFrom(call.page, call.column) ELSE <<>>]
  /\ UNCHANGED <<array, failed>>

Return == call.state = "answered" /\ call' = Idle /\ UNCHANGED <<array, failed>>

Next == Ask \/ Take \/ Fail \/ Answer \/ Return

Spec == Init /\ [][Next]_<<array, failed, call>>

=============================================================================
