-------------------------------- MODULE Utf8 --------------------------------
(***************************************************************************)
(* test_ws/src/utf8/utf8.c: the automaton that validates UTF-8, and, as    *)
(* what it is to be compared with, well-formed UTF-8 by code points. The   *)
(* code point decode computes is used by nobody and is left out.           *)
(***************************************************************************)
EXTENDS Integers, SequencesExt

UTF8_ACCEPT == 0
UTF8_REJECT == 1

\* The first half of the table: the type of a byte.
Type(byte) ==
  CASE byte < 128 -> 0
    [] byte \in 128 .. 143 -> 1
    [] byte \in 144 .. 159 -> 9
    [] byte \in 160 .. 191 -> 7
    [] byte \in {192, 193} \cup 245 .. 255 -> 8
    [] byte \in 194 .. 223 -> 2
    [] byte = 224 -> 10
    [] byte \in (225 .. 239) \ {237} -> 3
    [] byte = 237 -> 4
    [] byte = 240 -> 11
    [] byte \in 241 .. 243 -> 6
    [] byte = 244 -> 5

\* The second half: every entry that is not UTF8_REJECT.
Entries ==
  {<<0, 0, 0>>, <<0, 2, 2>>, <<0, 3, 3>>, <<0, 10, 4>>, <<0, 4, 5>>, <<0, 11, 6>>,
   <<0, 6, 7>>, <<0, 5, 8>>,
   <<2, 1, 0>>, <<2, 7, 0>>, <<2, 9, 0>>,
   <<3, 1, 2>>, <<3, 7, 2>>, <<3, 9, 2>>,
   <<4, 7, 2>>,
   <<5, 1, 2>>, <<5, 9, 2>>,
   <<6, 7, 3>>, <<6, 9, 3>>,
   <<7, 1, 3>>, <<7, 7, 3>>, <<7, 9, 3>>,
   <<8, 1, 3>>}

decode(state, byte) ==
  LET next == {n \in {0, 2, 3, 4, 5, 6, 7, 8} : <<state, Type(byte), n>> \in Entries} IN
  IF next = {} THEN UTF8_REJECT ELSE CHOOSE n \in next : TRUE

\* Mutant of is_utf8_len_state: validates each piece for itself.
is_utf8_len(s, state) == FoldLeft(decode, UTF8_ACCEPT, s)

is_utf8_len_state(s, state) == FoldLeft(decode, state, s)

----------------------------------------------------------------------------
(* Well-formed UTF-8 *)

IsTail(b) == 128 <= b /\ b <= 191

\* A code point in two, three or four bytes: no longer than needed, no
\* surrogate, not above 10FFFF.
TwoBytes(a, b) ==
  LET point == (a - 192) * 64 + (b - 128) IN
  192 <= a /\ a <= 223 /\ IsTail(b) /\ point >= 128

ThreeBytes(a, b, c) ==
  LET point == (a - 224) * 4096 + (b - 128) * 64 + (c - 128) IN
  /\ 224 <= a /\ a <= 239 /\ IsTail(b) /\ IsTail(c)
  /\ point >= 2048
  /\ ~ (55296 <= point /\ point <= 57343)

FourBytes(a, b, c, d) ==
  LET point == (a - 240) * 262144 + (b - 128) * 4096 + (c - 128) * 64 + (d - 128) IN
  /\ 240 <= a /\ a <= 247 /\ IsTail(b) /\ IsTail(c) /\ IsTail(d)
  /\ 65536 <= point /\ point <= 1114111

IsCharacter(t) ==
  \/ Len(t) = 1 /\ t[1] < 128
  \/ Len(t) = 2 /\ TwoBytes(t[1], t[2])
  \/ Len(t) = 3 /\ ThreeBytes(t[1], t[2], t[3])
  \/ Len(t) = 4 /\ FourBytes(t[1], t[2], t[3], t[4])

WellFormed(s) ==
  LET Upto[n \in 0 .. Len(s)] ==
        \/ n = 0
        \/ \E k \in 1 .. 4 : k <= n /\ Upto[n - k] /\ IsCharacter(SubSeq(s, n - k + 1, n))
  IN Upto[Len(s)]

=============================================================================
