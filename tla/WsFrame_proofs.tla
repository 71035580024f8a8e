---------------------------- MODULE WsFrame_proofs ----------------------------
(***************************************************************************)
(* Proofs about Utf8 and WsFrame, for any frames of any length and any     *)
(* limits. First the automaton accepts what is well-formed, and nothing    *)
(* else. Then the reference of WsFrame, the messages of a sequence of      *)
(* frames by their positions, is brought into the form in which            *)
(* next_frame computes them, frame by frame; with that the invariant is    *)
(* kept by each step.                                                      *)
(***************************************************************************)
EXTENDS WsFrame, SequenceTheorems, FiniteSetTheorems, TLAPS

States == 0 .. 8

\* Induction over the natural numbers, for sets of them.
LEMMA NatSetInduction ==
  ASSUME NEW S, 0 \in S, \A n \in Nat : n \in S => n + 1 \in S
  PROVE  \A n \in Nat : n \in S
<1>. DEFINE R == {ss \in Nat \X Nat : ss[1] < ss[2]}
            T == {n \in Nat : n \notin S}
<1>1. IsWellFoundedOn(R, Nat)
  BY NatLessThanWellFounded DEF OpToRel
<1>2. SUFFICES ASSUME T # {} PROVE FALSE
  OBVIOUS
<1>3. T \subseteq Nat
  OBVIOUS
<1>. HIDE DEF R, T
<1>4. PICK m \in T : \A y \in T : <<y, m>> \notin R
  BY <1>1, <1>2, <1>3, WFMin
<1>5. m \in Nat /\ m \notin S /\ m # 0
  BY <1>4 DEF T
<1>6. m - 1 \in Nat /\ m = (m - 1) + 1 /\ m - 1 < m
  BY <1>5
<1>7. m - 1 \in T
  BY <1>5, <1>6 DEF T
<1>8. <<m - 1, m>> \in R
  BY <1>5, <1>6 DEF R
<1>. QED BY <1>4, <1>7, <1>8

----------------------------------------------------------------------------
(* decode, and the fold of decode over a sequence *)

\* The table as ranges of bytes.
LEMMA DecodeTable ==
  ASSUME NEW b \in Byte
  PROVE  /\ decode(0, b) = IF b < 128 THEN 0 ELSE IF b \in 194 .. 223 THEN 2
                           ELSE IF b = 224 THEN 4 ELSE IF b = 237 THEN 5
                           ELSE IF b \in 225 .. 239 THEN 3
                           ELSE IF b = 240 THEN 6 ELSE IF b = 244 THEN 8
                           ELSE IF b \in 241 .. 243 THEN 7 ELSE 1
         /\ decode(1, b) = 1
         /\ decode(2, b) = IF b \in 128 .. 191 THEN 0 ELSE 1
         /\ decode(3, b) = IF b \in 128 .. 191 THEN 2 ELSE 1
         /\ decode(4, b) = IF b \in 160 .. 191 THEN 2 ELSE 1
         /\ decode(5, b) = IF b \in 128 .. 159 THEN 2 ELSE 1
         /\ decode(6, b) = IF b \in 144 .. 191 THEN 3 ELSE 1
         /\ decode(7, b) = IF b \in 128 .. 191 THEN 3 ELSE 1
         /\ decode(8, b) = IF b \in 128 .. 143 THEN 3 ELSE 1
<1>. DEFINE y == Type(b)
            next(q) == {n \in {0, 2, 3, 4, 5, 6, 7, 8} : <<q, y, n>> \in Entries}
<1>1. \A q, x, n : <<q, x, n>> \in Entries <=>
        \/ q = 0 /\ (\/ x = 0 /\ n = 0
                     \/ x = 2 /\ n = 2
                     \/ x = 3 /\ n = 3
                     \/ x = 10 /\ n = 4
                     \/ x = 4 /\ n = 5
                     \/ x = 11 /\ n = 6
                     \/ x = 6 /\ n = 7
                     \/ x = 5 /\ n = 8)
        \/ q = 2 /\ x \in {1, 7, 9} /\ n = 0
        \/ q = 3 /\ x \in {1, 7, 9} /\ n = 2
        \/ q = 4 /\ x = 7 /\ n = 2
        \/ q = 5 /\ x \in {1, 9} /\ n = 2
        \/ q = 6 /\ x \in {7, 9} /\ n = 3
        \/ q = 7 /\ x \in {1, 7, 9} /\ n = 3
        \/ q = 8 /\ x = 1 /\ n = 3
  BY DEF Entries
<1>2. \A q : decode(q, b) = IF next(q) = {} THEN 1 ELSE CHOOSE n \in next(q) : TRUE
  BY DEF decode, UTF8_REJECT
<1>. HIDE DEF y
<1>3. \A q, n, m : <<q, y, n>> \in Entries /\ <<q, y, m>> \in Entries => n = m
  BY <1>1
<1>4. \A q, n : <<q, y, n>> \in Entries => n \in {0, 2, 3, 4, 5, 6, 7, 8}
  BY <1>1
<1>5. ASSUME NEW q, NEW n, <<q, y, n>> \in Entries
      PROVE  decode(q, b) = n
  <2>1. n \in next(q) /\ \A m \in next(q) : m = n
    BY <1>3, <1>4, <1>5
  <2>. HIDE DEF next
  <2>. QED BY <1>2, <2>1
<1>6. ASSUME NEW q, \A n : <<q, y, n>> \notin Entries
      PROVE  decode(q, b) = 1
  <2>1. next(q) = {}
    BY <1>6
  <2>. HIDE DEF next
  <2>. QED BY <1>2, <2>1
<1>7. b \in Int /\ b >= 0 /\ b <= 255
  BY DEF Byte
<1>8. y = IF b < 128 THEN 0 ELSE IF b <= 143 THEN 1 ELSE IF b <= 159 THEN 9
          ELSE IF b <= 191 THEN 7 ELSE IF b <= 193 THEN 8 ELSE IF b <= 223 THEN 2
          ELSE IF b = 224 THEN 10 ELSE IF b = 237 THEN 4 ELSE IF b <= 239 THEN 3
          ELSE IF b = 240 THEN 11 ELSE IF b <= 243 THEN 6 ELSE IF b = 244 THEN 5 ELSE 8
  BY <1>7 DEF Type, y
<1>9. decode(0, b) = IF y = 0 THEN 0 ELSE IF y = 2 THEN 2 ELSE IF y = 10 THEN 4
        ELSE IF y = 4 THEN 5 ELSE IF y = 3 THEN 3 ELSE IF y = 11 THEN 6 ELSE IF y = 5 THEN 8
        ELSE IF y = 6 THEN 7 ELSE 1
  <2>1. /\ y = 0 => decode(0, b) = 0
        /\ y = 2 => decode(0, b) = 2
        /\ y = 3 => decode(0, b) = 3
        /\ y = 10 => decode(0, b) = 4
        /\ y = 4 => decode(0, b) = 5
        /\ y = 11 => decode(0, b) = 6
        /\ y = 6 => decode(0, b) = 7
        /\ y = 5 => decode(0, b) = 8
    <3>1. /\ y = 0 => <<0, y, 0>> \in Entries
          /\ y = 2 => <<0, y, 2>> \in Entries
          /\ y = 3 => <<0, y, 3>> \in Entries
          /\ y = 10 => <<0, y, 4>> \in Entries
          /\ y = 4 => <<0, y, 5>> \in Entries
          /\ y = 11 => <<0, y, 6>> \in Entries
          /\ y = 6 => <<0, y, 7>> \in Entries
          /\ y = 5 => <<0, y, 8>> \in Entries
      BY <1>1
    <3>. QED BY <1>5, <3>1
  <2>2. y \notin {0, 2, 3, 4, 5, 6, 10, 11} => decode(0, b) = 1
    <3>1. y \notin {0, 2, 3, 4, 5, 6, 10, 11} => \A n : <<0, y, n>> \notin Entries
      BY <1>1
    <3>. QED BY <1>6, <3>1
  <2>. QED BY <2>1, <2>2
<1>10. /\ decode(1, b) = 1
       /\ decode(2, b) = IF y \in {1, 7, 9} THEN 0 ELSE 1
       /\ decode(3, b) = IF y \in {1, 7, 9} THEN 2 ELSE 1
       /\ decode(4, b) = IF y = 7 THEN 2 ELSE 1
       /\ decode(5, b) = IF y \in {1, 9} THEN 2 ELSE 1
       /\ decode(6, b) = IF y \in {7, 9} THEN 3 ELSE 1
       /\ decode(7, b) = IF y \in {1, 7, 9} THEN 3 ELSE 1
       /\ decode(8, b) = IF y = 1 THEN 3 ELSE 1
  <2>1. /\ y \in {1, 7, 9} => decode(2, b) = 0 /\ decode(3, b) = 2 /\ decode(7, b) = 3
        /\ y = 7 => decode(4, b) = 2
        /\ y \in {1, 9} => decode(5, b) = 2
        /\ y \in {7, 9} => decode(6, b) = 3
        /\ y = 1 => decode(8, b) = 3
    <3>1. /\ y \in {1, 7, 9} => /\ <<2, y, 0>> \in Entries
                              /\ <<3, y, 2>> \in Entries
                              /\ <<7, y, 3>> \in Entries
          /\ y = 7 => <<4, y, 2>> \in Entries
          /\ y \in {1, 9} => <<5, y, 2>> \in Entries
          /\ y \in {7, 9} => <<6, y, 3>> \in Entries
          /\ y = 1 => <<8, y, 3>> \in Entries
      BY <1>1
    <3>. QED BY <1>5, <3>1
  <2>2. /\ \A n : <<1, y, n>> \notin Entries
        /\ y \notin {1, 7, 9} => \A n : /\ <<2, y, n>> \notin Entries
                                        /\ <<3, y, n>> \notin Entries
                                        /\ <<7, y, n>> \notin Entries
        /\ y # 7 => \A n : <<4, y, n>> \notin Entries
        /\ y \notin {1, 9} => \A n : <<5, y, n>> \notin Entries
        /\ y \notin {7, 9} => \A n : <<6, y, n>> \notin Entries
        /\ y # 1 => \A n : <<8, y, n>> \notin Entries
    BY <1>1
  <2>3. /\ decode(1, b) = 1
        /\ y \notin {1, 7, 9} => decode(2, b) = 1 /\ decode(3, b) = 1 /\ decode(7, b) = 1
        /\ y # 7 => decode(4, b) = 1
        /\ y \notin {1, 9} => decode(5, b) = 1
        /\ y \notin {7, 9} => decode(6, b) = 1
        /\ y # 1 => decode(8, b) = 1
    BY <1>6, <2>2
  <2>. QED BY <2>1, <2>3
<1>. QED BY <1>7, <1>8, <1>9, <1>10

\* decode leads from a state to a state.
LEMMA DecodeType ==
  ASSUME NEW q \in States, NEW b \in Byte
  PROVE  decode(q, b) \in States
BY DecodeTable DEF States

\* The function whose value FoldLeft is: there is one, for all subsets of the
\* first m positions.
LEMMA FoldExists ==
  ASSUME NEW s \in Seq(Byte), NEW q \in States, NEW m \in Nat, m <= Len(s)
  PROVE  \E g \in [SUBSET (1 .. m) -> States] :
           \A t \in SUBSET (1 .. m) :
             g[t] = IF t = {} THEN q ELSE decode(g[t \ {Max(t)}], s[Max(t)])
<1>. DEFINE Fits(g, k) ==
              \A t \in SUBSET (1 .. k) :
                g[t] = IF t = {} THEN q ELSE decode(g[t \ {Max(t)}], s[Max(t)])
            Holds(k) == \E g \in [SUBSET (1 .. k) -> States] : Fits(g, k)
            N == {k \in Nat : k <= Len(s) => Holds(k)}
<1>1. 0 \in N
  <2>. DEFINE g == [t \in SUBSET (1 .. 0) |-> q]
  <2>1. g \in [SUBSET (1 .. 0) -> States]
    OBVIOUS
  <2>2. \A t \in SUBSET (1 .. 0) : t = {} /\ g[t] = q
    OBVIOUS
  <2>3. Fits(g, 0)
    BY <2>2
  <2>. HIDE DEF g, Fits
  <2>. QED BY <2>1, <2>3
<1>2. ASSUME NEW k \in Nat, k \in N
      PROVE  k + 1 \in N
  <2>. SUFFICES ASSUME k + 1 <= Len(s)
                PROVE  Holds(k + 1)
    <3>. HIDE DEF Holds
    <3>. QED OBVIOUS
  <2>0. Len(s) \in Nat /\ k <= Len(s) /\ k + 1 \in 1 .. Len(s)
    BY LenProperties
  <2>1. PICK h \in [SUBSET (1 .. k) -> States] : Fits(h, k)
    BY <1>2, <2>0
  <2>2. s[k + 1] \in Byte
    BY <2>0, ElementOfSeq
  <2>. DEFINE g == [t \in SUBSET (1 .. k + 1) |->
                      IF k + 1 \in t THEN decode(h[t \ {k + 1}], s[k + 1]) ELSE h[t]]
  <2>3. \A t \in SUBSET (1 .. k + 1) : t \ {k + 1} \in SUBSET (1 .. k)
    OBVIOUS
  <2>4. \A t \in SUBSET (1 .. k + 1) : k + 1 \notin t => t \in SUBSET (1 .. k)
    OBVIOUS
  <2>5. g \in [SUBSET (1 .. k + 1) -> States]
    BY <2>2, <2>3, <2>4, DecodeType
  <2>6. ASSUME NEW t \in SUBSET (1 .. k + 1)
        PROVE  g[t] = IF t = {} THEN q ELSE decode(g[t \ {Max(t)}], s[Max(t)])
    <3>1. CASE k + 1 \in t
      <4>1. Max(t) = k + 1
        <5>1. \A y \in t : k + 1 >= y
          OBVIOUS
        <5>2. \A x \in t : (\A y \in t : x >= y) => x = k + 1
          BY <3>1
        <5>. QED BY <3>1, <5>1, <5>2 DEF Max
      <4>2. t \ {k + 1} \in SUBSET (1 .. k + 1) /\ k + 1 \notin t \ {k + 1}
        OBVIOUS
      <4>3. g[t \ {k + 1}] = h[t \ {k + 1}]
        BY <4>2
      <4>4. g[t] = decode(h[t \ {k + 1}], s[k + 1])
        BY <3>1
      <4>. HIDE DEF g
      <4>. QED BY <3>1, <4>1, <4>3, <4>4
    <3>2. CASE k + 1 \notin t
      <4>1. t \in SUBSET (1 .. k) /\ g[t] = h[t]
        BY <2>4, <3>2
      <4>2. \A x : t \ {x} \in SUBSET (1 .. k + 1) /\ k + 1 \notin t \ {x}
        BY <3>2
      <4>3. \A x : g[t \ {x}] = h[t \ {x}]
        BY <4>2
      <4>4. h[t] = IF t = {} THEN q ELSE decode(h[t \ {Max(t)}], s[Max(t)])
        BY <2>1, <4>1
      <4>. HIDE DEF g
      <4>. QED BY <4>1, <4>3, <4>4
    <3>. QED BY <3>1, <3>2
  <2>7. Fits(g, k + 1)
    BY <2>6
  <2>. HIDE DEF g, Fits
  <2>. QED BY <2>5, <2>7
<1>3. \A k \in Nat : k \in N
  <2>. HIDE DEF N
  <2>. QED BY <1>1, <1>2, NatSetInduction
<1>. QED BY <1>3

\* r[i] is the state after i bytes of s, from state q.
IsRun(r, s, q) ==
  /\ r \in [0 .. Len(s) -> States]
  /\ r[0] = q
  /\ \A i \in 1 .. Len(s) : r[i] = decode(r[i - 1], s[i])

\* The fold is where the run ends.
LEMMA RunValue ==
  ASSUME NEW s \in Seq(Byte), NEW q \in States, NEW r, IsRun(r, s, q)
  PROVE  is_utf8_len_state(s, q) = r[Len(s)]
<1>. DEFINE n == Len(s)
            Fold(g) == [t \in SUBSET (1 .. n) |->
                          IF t = {} THEN q ELSE decode(g[t \ {Max(t)}], s[Max(t)])]
            iter == CHOOSE g : g = Fold(g)
<1>1. n \in Nat /\ DOMAIN s = 1 .. n
  BY LenProperties
<1>2. is_utf8_len_state(s, q) = iter[1 .. n]
  BY <1>1 DEF is_utf8_len_state, FoldLeft, MapThenFoldSet
<1>3. \E g : g = Fold(g)
  <2>0. n \in Nat /\ n <= Len(s)
    BY <1>1
  <2>1. PICK g \in [SUBSET (1 .. n) -> States] :
          \A t \in SUBSET (1 .. n) :
            g[t] = IF t = {} THEN q ELSE decode(g[t \ {Max(t)}], s[Max(t)])
    <3>. HIDE DEF n
    <3>. QED BY <2>0, FoldExists
  <2>2. g = Fold(g)
    BY <2>1
  <2>. QED BY <2>2
<1>4. iter = Fold(iter)
  <2>. HIDE DEF Fold
  <2>. QED BY <1>3
<1>5. \A t \in SUBSET (1 .. n) :
        iter[t] = IF t = {} THEN q ELSE decode(iter[t \ {Max(t)}], s[Max(t)])
  <2>. HIDE DEF iter
  <2>1. ASSUME NEW t \in SUBSET (1 .. n)
        PROVE  Fold(iter)[t] = IF t = {} THEN q ELSE decode(iter[t \ {Max(t)}], s[Max(t)])
    OBVIOUS
  <2>. HIDE DEF Fold
  <2>. QED BY <1>4, <2>1
<1>. HIDE DEF iter
<1>. DEFINE N == {i \in Nat : i <= n => iter[1 .. i] = r[i]}
<1>6. 0 \in N
  <2>1. 1 .. 0 = {} /\ 1 .. 0 \in SUBSET (1 .. n)
    OBVIOUS
  <2>2. iter[1 .. 0] = q
    BY <1>5, <2>1
  <2>. QED BY <2>2 DEF IsRun
<1>7. ASSUME NEW i \in Nat, i \in N
      PROVE  i + 1 \in N
  <2>. SUFFICES ASSUME i + 1 <= n PROVE iter[1 .. i + 1] = r[i + 1]
    OBVIOUS
  <2>1. iter[1 .. i] = r[i]
    BY <1>1, <1>7
  <2>2. 1 .. i + 1 \in SUBSET (1 .. n) /\ 1 .. i + 1 # {} /\ (1 .. i + 1) \ {i + 1} = 1 .. i
    BY <1>1
  <2>3. Max(1 .. i + 1) = i + 1
    BY DEF Max
  <2>4. iter[1 .. i + 1] = decode(iter[1 .. i], s[i + 1])
    BY <1>5, <2>2, <2>3
  <2>5. r[i + 1] = decode(r[i], s[i + 1])
    BY <1>1 DEF IsRun
  <2>. QED BY <2>1, <2>4, <2>5
<1>8. \A i \in Nat : i \in N
  <2>. HIDE DEF N
  <2>. QED BY <1>6, <1>7, NatSetInduction
<1>. QED BY <1>1, <1>2, <1>8

\* A sequence has a run from every state.
LEMMA RunExists ==
  ASSUME NEW s \in Seq(Byte), NEW q \in States
  PROVE  \E r : IsRun(r, s, q)
<1>. DEFINE Part(r, k) == /\ r[0] = q
                          /\ \A i \in 1 .. k : r[i] = decode(r[i - 1], s[i])
            Holds(k) == \E r \in [0 .. k -> States] : Part(r, k)
            N == {k \in Nat : k <= Len(s) => Holds(k)}
<1>0. Len(s) \in Nat
  BY LenProperties
<1>1. 0 \in N
  <2>1. [i \in 0 .. 0 |-> q] \in [0 .. 0 -> States] /\ Part([i \in 0 .. 0 |-> q], 0)
    OBVIOUS
  <2>. HIDE DEF Part
  <2>. QED BY <2>1
<1>2. ASSUME NEW k \in Nat, k \in N
      PROVE  k + 1 \in N
  <2>. SUFFICES ASSUME k + 1 <= Len(s) PROVE Holds(k + 1)
    <3>. HIDE DEF Holds
    <3>. QED OBVIOUS
  <2>1. PICK h \in [0 .. k -> States] : Part(h, k)
    BY <1>0, <1>2
  <2>2. s[k + 1] \in Byte
    <3>1. k + 1 \in 1 .. Len(s)
      BY <1>0
    <3>. QED BY <3>1, ElementOfSeq
  <2>. DEFINE r == [i \in 0 .. k + 1 |-> IF i = k + 1 THEN decode(h[k], s[k + 1]) ELSE h[i]]
  <2>3. r \in [0 .. k + 1 -> States]
    BY <2>2, DecodeType
  <2>4. Part(r, k + 1)
    <3>1. r[0] = q /\ r[k + 1] = decode(h[k], s[k + 1])
      BY <2>1
    <3>2. \A i \in 0 .. k : r[i] = h[i]
      OBVIOUS
    <3>3. \A i \in 1 .. k : h[i] = decode(h[i - 1], s[i])
      BY <2>1
    <3>. HIDE DEF r
    <3>4. \A i \in 1 .. k : r[i] = decode(r[i - 1], s[i])
      BY <3>2, <3>3
    <3>5. r[k + 1] = decode(r[k], s[k + 1]) /\ (k + 1) - 1 = k
      BY <3>1, <3>2
    <3>6. \A i \in 1 .. k + 1 : i \in 1 .. k \/ i = k + 1
      OBVIOUS
    <3>. QED BY <3>1, <3>4, <3>5, <3>6
  <2>. HIDE DEF r, Part
  <2>. QED BY <2>3, <2>4
<1>3. \A k \in Nat : k \in N
  <2>. HIDE DEF N
  <2>. QED BY <1>1, <1>2, NatSetInduction
<1>4. Holds(Len(s))
  <2>. HIDE DEF Holds
  <2>. QED BY <1>0, <1>3
<1>. QED BY <1>4 DEF IsRun

\* The fold leads from a state to a state,
LEMMA RunType ==
  ASSUME NEW s \in Seq(Byte), NEW q \in States
  PROVE  is_utf8_len_state(s, q) \in States
<1>1. PICK r : IsRun(r, s, q)
  BY RunExists
<1>2. is_utf8_len_state(s, q) = r[Len(s)]
  BY <1>1, RunValue
<1>3. Len(s) \in 0 .. Len(s)
  BY LenProperties
<1>. QED BY <1>1, <1>2, <1>3 DEF IsRun

\* to the same state without bytes,
LEMMA RunEmpty ==
  ASSUME NEW q \in States
  PROVE  is_utf8_len_state(<<>>, q) = q
<1>0. <<>> \in Seq(Byte) /\ Len(<<>>) = 0
  OBVIOUS
<1>1. PICK r : IsRun(r, <<>>, q)
  BY <1>0, RunExists
<1>2. is_utf8_len_state(<<>>, q) = r[Len(<<>>)]
  BY <1>0, <1>1, RunValue
<1>. QED BY <1>0, <1>1, <1>2 DEF IsRun

\* where decode leads with one byte,
LEMMA RunOne ==
  ASSUME NEW q \in States, NEW b \in Byte
  PROVE  is_utf8_len_state(<<b>>, q) = decode(q, b)
<1>0. <<b>> \in Seq(Byte) /\ Len(<<b>>) = 1 /\ <<b>>[1] = b
  OBVIOUS
<1>1. PICK r : IsRun(r, <<b>>, q)
  BY <1>0, RunExists
<1>2. is_utf8_len_state(<<b>>, q) = r[Len(<<b>>)]
  BY <1>0, <1>1, RunValue
<1>3. r[0] = q /\ r[1] = decode(r[1 - 1], <<b>>[1])
  BY <1>0, <1>1 DEF IsRun
<1>. QED BY <1>0, <1>2, <1>3

\* and however the bytes are cut.
LEMMA RunConcat ==
  ASSUME NEW s \in Seq(Byte), NEW t \in Seq(Byte), NEW q \in States
  PROVE  is_utf8_len_state(s \o t, q) = is_utf8_len_state(t, is_utf8_len_state(s, q))
<1>. DEFINE p == is_utf8_len_state(s, q)
            n == Len(s)
            m == Len(t)
<1>0. p \in States /\ n \in Nat /\ m \in Nat
  BY RunType, LenProperties
<1>1. PICK r1 : IsRun(r1, s, q)
  BY RunExists
<1>2. r1[n] = p
  BY <1>1, RunValue
<1>. HIDE DEF p
<1>3. PICK r2 : IsRun(r2, t, p)
  BY <1>0, RunExists
<1>4. is_utf8_len_state(t, p) = r2[m]
  BY <1>0, <1>3, RunValue
<1>5. /\ s \o t \in Seq(Byte)
      /\ Len(s \o t) = n + m
      /\ \A i \in 1 .. n + m : (s \o t)[i] = IF i <= n THEN s[i] ELSE t[i - n]
  BY ConcatProperties
<1>. DEFINE u == s \o t
            r == [i \in 0 .. n + m |-> IF i <= n THEN r1[i] ELSE r2[i - n]]
<1>6. IsRun(r, u, q)
  <2>0. /\ r1 \in [0 .. n -> States] /\ r1[0] = q
        /\ \A i \in 1 .. n : r1[i] = decode(r1[i - 1], s[i])
        /\ r2 \in [0 .. m -> States] /\ r2[0] = p
        /\ \A i \in 1 .. m : r2[i] = decode(r2[i - 1], t[i])
    BY <1>1, <1>3 DEF IsRun
  <2>. HIDE DEF n, m
  <2>1. r \in [0 .. n + m -> States] /\ r[0] = q
    BY <1>0, <2>0
  <2>2. ASSUME NEW i \in 1 .. n + m
        PROVE  r[i] = decode(r[i - 1], u[i])
    <3>1. CASE i <= n
      <4>1. r[i] = r1[i] /\ r[i - 1] = r1[i - 1] /\ u[i] = s[i] /\ i \in 1 .. n
        BY <1>0, <1>5, <3>1
      <4>. QED BY <2>0, <4>1
    <3>2. CASE i = n + 1
      <4>1. r[i] = r2[1] /\ r[i - 1] = r1[n] /\ u[i] = t[1] /\ 1 \in 1 .. m /\ i - n = 1 /\ i - 1 = n
        BY <1>0, <1>5, <3>2
      <4>2. r2[1] = decode(p, t[1])
        <5>1. 1 - 1 = 0 /\ r2[1] = decode(r2[1 - 1], t[1])
          BY <2>0, <4>1
        <5>. QED BY <2>0, <5>1
      <4>. HIDE DEF r, u
      <4>. QED BY <1>2, <4>1, <4>2
    <3>3. CASE i > n + 1
      <4>1. /\ r[i] = r2[i - n] /\ r[i - 1] = r2[(i - n) - 1] /\ u[i] = t[i - n]
            /\ i - n \in 1 .. m
        BY <1>0, <1>5, <3>3
      <4>. HIDE DEF r, u
      <4>. QED BY <2>0, <4>1
    <3>. HIDE DEF r, u
    <3>. QED BY <1>0, <3>1, <3>2, <3>3
  <2>. HIDE DEF r
  <2>3. Len(u) = n + m
    BY <1>5
  <2>. HIDE DEF u
  <2>. QED BY <2>1, <2>2, <2>3 DEF IsRun
<1>7. r[n + m] = r2[m]
  BY SMTT(60), <1>0, <1>2, <1>3 DEF IsRun
<1>8. is_utf8_len_state(u, q) = r[n + m]
  <2>. HIDE DEF r, u
  <2>1. u \in Seq(Byte) /\ Len(u) = n + m
    BY <1>5 DEF u
  <2>. QED BY <1>6, <2>1, RunValue
<1>. QED BY <1>4, <1>7, <1>8 DEF p

\* What was rejected stays so.
LEMMA RunRejected ==
  ASSUME NEW s \in Seq(Byte)
  PROVE  is_utf8_len_state(s, UTF8_REJECT) = UTF8_REJECT
<1>. DEFINE r == [i \in 0 .. Len(s) |-> 1]
<1>1. \A i \in 1 .. Len(s) : decode(1, s[i]) = 1
  BY ElementOfSeq, DecodeTable
<1>2. Len(s) \in Nat
  BY LenProperties
<1>3. IsRun(r, s, 1)
  BY <1>1, <1>2 DEF IsRun, States
<1>4. 1 \in States /\ r[Len(s)] = 1
  BY <1>2 DEF States
<1>. HIDE DEF r
<1>. QED BY <1>3, <1>4, RunValue DEF UTF8_REJECT

----------------------------------------------------------------------------
(* The automaton accepts well-formed UTF-8 and nothing else *)

\* Which bytes make a character of two, three and four bytes, by their number.
LEMMA TwoByteCharacter ==
  ASSUME NEW a \in Int, NEW b \in Int
  PROVE  TwoBytes(a, b) <=> 194 <= a /\ a <= 223 /\ IsTail(b)
BY DEF TwoBytes, IsTail

\* The same of three bytes.
LEMMA ThreeByteCharacter ==
  ASSUME NEW a \in Int, NEW b \in Int, NEW c \in Int
  PROVE  ThreeBytes(a, b, c) <=>
           /\ \/ a = 224 /\ 160 <= b /\ b <= 191
              \/ a = 237 /\ 128 <= b /\ b <= 159
              \/ 225 <= a /\ a <= 239 /\ a # 237 /\ IsTail(b)
           /\ IsTail(c)
BY DEF ThreeBytes, IsTail

\* The same of four bytes.
LEMMA FourByteCharacter ==
  ASSUME NEW a \in Int, NEW b \in Int, NEW c \in Int, NEW d \in Int
  PROVE  FourBytes(a, b, c, d) <=>
           /\ \/ a = 240 /\ 144 <= b /\ b <= 191
              \/ a = 244 /\ 128 <= b /\ b <= 143
              \/ 241 <= a /\ a <= 243 /\ IsTail(b)
           /\ IsTail(c)
           /\ IsTail(d)
BY DEF FourBytes, IsTail

\* A byte is a number.
LEMMA ByteIsInt ==
  ASSUME NEW b \in Byte
  PROVE  b \in Int
BY DEF Byte

\* The table, with comparisons, and backwards: from which state and by which byte
\* a state is reached.
LEMMA DecodeSteps ==
  ASSUME NEW q \in States, NEW b \in Byte
  PROVE  /\ b \in Int
         /\ decode(q, b) = 0 <=> \/ q = 0 /\ b < 128
                                 \/ q = 2 /\ IsTail(b)
         /\ decode(q, b) = 2 <=> \/ q = 0 /\ 194 <= b /\ b <= 223
                                 \/ q = 3 /\ IsTail(b)
                                 \/ q = 4 /\ 160 <= b /\ b <= 191
                                 \/ q = 5 /\ 128 <= b /\ b <= 159
         /\ decode(q, b) = 3 <=> \/ q = 0 /\ 225 <= b /\ b <= 239 /\ b # 237
                                 \/ q = 6 /\ 144 <= b /\ b <= 191
                                 \/ q = 7 /\ IsTail(b)
                                 \/ q = 8 /\ 128 <= b /\ b <= 143
         /\ decode(q, b) = 4 <=> q = 0 /\ b = 224
         /\ decode(q, b) = 5 <=> q = 0 /\ b = 237
         /\ decode(q, b) = 6 <=> q = 0 /\ b = 240
         /\ decode(q, b) = 7 <=> q = 0 /\ 241 <= b /\ b <= 243
         /\ decode(q, b) = 8 <=> q = 0 /\ b = 244
<1>1. b \in Int /\ b >= 0 /\ b <= 255
  BY DEF Byte
<1>2. q = 0 \/ q = 1 \/ q = 2 \/ q = 3 \/ q = 4 \/ q = 5 \/ q = 6 \/ q = 7 \/ q = 8
  BY DEF States
<1>3. /\ decode(0, b) = IF b < 128 THEN 0 ELSE IF 194 <= b /\ b <= 223 THEN 2
                        ELSE IF b = 224 THEN 4 ELSE IF b = 237 THEN 5
                        ELSE IF 225 <= b /\ b <= 239 THEN 3
                        ELSE IF b = 240 THEN 6 ELSE IF b = 244 THEN 8
                        ELSE IF 241 <= b /\ b <= 243 THEN 7 ELSE 1
      /\ decode(1, b) = 1
      /\ decode(2, b) = IF 128 <= b /\ b <= 191 THEN 0 ELSE 1
      /\ decode(3, b) = IF 128 <= b /\ b <= 191 THEN 2 ELSE 1
      /\ decode(4, b) = IF 160 <= b /\ b <= 191 THEN 2 ELSE 1
      /\ decode(5, b) = IF 128 <= b /\ b <= 159 THEN 2 ELSE 1
      /\ decode(6, b) = IF 144 <= b /\ b <= 191 THEN 3 ELSE 1
      /\ decode(7, b) = IF 128 <= b /\ b <= 191 THEN 3 ELSE 1
      /\ decode(8, b) = IF 128 <= b /\ b <= 143 THEN 3 ELSE 1
  BY <1>1, DecodeTable
<1>. QED BY <1>1, <1>2, <1>3 DEF IsTail

\* A piece of a sequence is a character if its bytes are one.
LEMMA PieceIsCharacter ==
  ASSUME NEW s \in Seq(Byte), NEW n \in 1 .. Len(s), NEW k \in 1 .. 4, k <= n
  PROVE  IsCharacter(SubSeq(s, n - k + 1, n)) <=>
           \/ k = 1 /\ s[n] < 128
           \/ k = 2 /\ TwoBytes(s[n - 1], s[n])
           \/ k = 3 /\ ThreeBytes(s[n - 2], s[n - 1], s[n])
           \/ k = 4 /\ FourBytes(s[n - 3], s[n - 2], s[n - 1], s[n])
<1>. DEFINE t == SubSeq(s, n - k + 1, n)
<1>0. n \in Int /\ k \in Int /\ n - k + 1 \in 1 .. Len(s) /\ Len(s) \in Nat
  BY LenProperties
<1>1. Len(t) = k /\ \A i \in 1 .. k : t[i] = s[n - k + i]
  <2>1. /\ Len(t) = IF n - k + 1 <= n THEN n - (n - k + 1) + 1 ELSE 0
        /\ \A i \in 1 .. n - (n - k + 1) + 1 : t[i] = s[n - k + 1 + i - 1]
    BY <1>0, SubSeqProperties
  <2>2. n - (n - k + 1) + 1 = k /\ n - k + 1 <= n /\ \A i \in Int : n - k + 1 + i - 1 = n - k + i
    BY <1>0
  <2>. HIDE DEF t
  <2>. QED BY <2>1, <2>2
<1>. HIDE DEF t
<1>2. k = 1 => t[1] = s[n]
  BY <1>0, <1>1
<1>3. k = 2 => t[1] = s[n - 1] /\ t[2] = s[n]
  BY <1>0, <1>1
<1>4. k = 3 => t[1] = s[n - 2] /\ t[2] = s[n - 1] /\ t[3] = s[n]
  BY <1>0, <1>1
<1>5. k = 4 => t[1] = s[n - 3] /\ t[2] = s[n - 2] /\ t[3] = s[n - 1] /\ t[4] = s[n]
  BY <1>0, <1>1
<1>6. IsCharacter(t) <=>
        \/ k = 1 /\ t[1] < 128
        \/ k = 2 /\ TwoBytes(t[1], t[2])
        \/ k = 3 /\ ThreeBytes(t[1], t[2], t[3])
        \/ k = 4 /\ FourBytes(t[1], t[2], t[3], t[4])
  BY <1>1 DEF IsCharacter
<1>7. IsCharacter(t) <=>
        \/ k = 1 /\ s[n] < 128
        \/ k = 2 /\ TwoBytes(s[n - 1], s[n])
        \/ k = 3 /\ ThreeBytes(s[n - 2], s[n - 1], s[n])
        \/ k = 4 /\ FourBytes(s[n - 3], s[n - 2], s[n - 1], s[n])
  BY <1>2, <1>3, <1>4, <1>5, <1>6
<1>. QED BY <1>7 DEF t

\* The automaton is in UTF8_ACCEPT where a character ends that begins where it was
\* in UTF8_ACCEPT, and nowhere else after the first byte.
LEMMA AcceptsCharacters ==
  ASSUME NEW s \in Seq(Byte), NEW r, IsRun(r, s, 0), NEW n \in 1 .. Len(s)
  PROVE  r[n] = 0 <=>
           \E k \in 1 .. 4 : k <= n /\ r[n - k] = 0 /\ IsCharacter(SubSeq(s, n - k + 1, n))
<1>0. n \in Int /\ n >= 1 /\ n <= Len(s) /\ Len(s) \in Nat
  BY LenProperties
<1>1. ASSUME NEW i \in Int, 1 <= i, i <= n
      PROVE  /\ r[i - 1] \in States
             /\ s[i] \in Byte
             /\ s[i] \in Int
             /\ r[i] = decode(r[i - 1], s[i])
  <2>1. i - 1 \in 0 .. Len(s) /\ i \in 1 .. Len(s)
    BY <1>0, <1>1
  <2>2. s[i] \in Byte
    BY <2>1, ElementOfSeq
  <2>3. s[i] \in Int
    BY <2>2, ByteIsInt
  <2>. QED BY <2>1, <2>2, <2>3 DEF IsRun
<1>2. r[0] = 0
  BY DEF IsRun
<1>3. ASSUME NEW i \in Int, 1 <= i, i <= n
      PROVE  /\ r[i] = 0 <=> \/ r[i - 1] = 0 /\ s[i] < 128
                             \/ r[i - 1] = 2 /\ IsTail(s[i])
             /\ r[i] = 2 <=> \/ r[i - 1] = 0 /\ 194 <= s[i] /\ s[i] <= 223
                             \/ r[i - 1] = 3 /\ IsTail(s[i])
                             \/ r[i - 1] = 4 /\ 160 <= s[i] /\ s[i] <= 191
                             \/ r[i - 1] = 5 /\ 128 <= s[i] /\ s[i] <= 159
             /\ r[i] = 3 <=> \/ r[i - 1] = 0 /\ 225 <= s[i] /\ s[i] <= 239 /\ s[i] # 237
                             \/ r[i - 1] = 6 /\ 144 <= s[i] /\ s[i] <= 191
                             \/ r[i - 1] = 7 /\ IsTail(s[i])
                             \/ r[i - 1] = 8 /\ 128 <= s[i] /\ s[i] <= 143
             /\ r[i] = 4 <=> r[i - 1] = 0 /\ s[i] = 224
             /\ r[i] = 5 <=> r[i - 1] = 0 /\ s[i] = 237
             /\ r[i] = 6 <=> r[i - 1] = 0 /\ s[i] = 240
             /\ r[i] = 7 <=> r[i - 1] = 0 /\ 241 <= s[i] /\ s[i] <= 243
             /\ r[i] = 8 <=> r[i - 1] = 0 /\ s[i] = 244
  <2>. DEFINE q == r[i - 1]
              b == s[i]
  <2>1. q \in States /\ b \in Byte /\ r[i] = decode(q, b)
    BY <1>1, <1>3
  <2>. HIDE DEF q, b
  <2>2. /\ decode(q, b) = 0 <=> \/ q = 0 /\ b < 128
                                \/ q = 2 /\ IsTail(b)
        /\ decode(q, b) = 2 <=> \/ q = 0 /\ 194 <= b /\ b <= 223
                                \/ q = 3 /\ IsTail(b)
                                \/ q = 4 /\ 160 <= b /\ b <= 191
                                \/ q = 5 /\ 128 <= b /\ b <= 159
        /\ decode(q, b) = 3 <=> \/ q = 0 /\ 225 <= b /\ b <= 239 /\ b # 237
                                \/ q = 6 /\ 144 <= b /\ b <= 191
                                \/ q = 7 /\ IsTail(b)
                                \/ q = 8 /\ 128 <= b /\ b <= 143
        /\ decode(q, b) = 4 <=> q = 0 /\ b = 224
        /\ decode(q, b) = 5 <=> q = 0 /\ b = 237
        /\ decode(q, b) = 6 <=> q = 0 /\ b = 240
        /\ decode(q, b) = 7 <=> q = 0 /\ 241 <= b /\ b <= 243
        /\ decode(q, b) = 8 <=> q = 0 /\ b = 244
    BY <2>1, DecodeSteps
  <2>. QED BY <2>1, <2>2 DEF q, b
\* One, two and three bytes after UTF8_ACCEPT
<1>4. ASSUME NEW i \in Int, 1 <= i, i <= n
      PROVE  /\ r[i] = 4 => i - 1 >= 0 /\ r[i - 1] = 0 /\ s[i] = 224
             /\ r[i] = 5 => i - 1 >= 0 /\ r[i - 1] = 0 /\ s[i] = 237
             /\ r[i] = 6 => i - 1 >= 0 /\ r[i - 1] = 0 /\ s[i] = 240
             /\ r[i] = 7 => i - 1 >= 0 /\ r[i - 1] = 0 /\ 241 <= s[i] /\ s[i] <= 243
             /\ r[i] = 8 => i - 1 >= 0 /\ r[i - 1] = 0 /\ s[i] = 244
  BY <1>3, <1>4
<1>. DEFINE Three(i) ==
              \/ s[i] = 240 /\ 144 <= s[i + 1] /\ s[i + 1] <= 191
              \/ 241 <= s[i] /\ s[i] <= 243 /\ IsTail(s[i + 1])
              \/ s[i] = 244 /\ 128 <= s[i + 1] /\ s[i + 1] <= 143
            Two(i) ==
              \/ s[i] = 224 /\ 160 <= s[i + 1] /\ s[i + 1] <= 191
              \/ 225 <= s[i] /\ s[i] <= 239 /\ s[i] # 237 /\ IsTail(s[i + 1])
              \/ s[i] = 237 /\ 128 <= s[i + 1] /\ s[i + 1] <= 159
<1>5. ASSUME NEW i \in Int, 1 <= i, i <= n
      PROVE  r[i] = 3 <=>
               \/ r[i - 1] = 0 /\ 225 <= s[i] /\ s[i] <= 239 /\ s[i] # 237
               \/ i >= 2 /\ r[i - 2] = 0 /\ Three(i - 1)
  <2>1. CASE i = 1
    BY <1>2, <1>3, <2>1
  <2>2. CASE i >= 2
    <3>1. i - 1 \in Int /\ 1 <= i - 1 /\ i - 1 <= n /\ (i - 1) - 1 = i - 2 /\ (i - 1) + 1 = i
      BY <1>5, <2>2
    <3>2. /\ r[i - 1] = 6 <=> r[i - 2] = 0 /\ s[i - 1] = 240
          /\ r[i - 1] = 7 <=> r[i - 2] = 0 /\ 241 <= s[i - 1] /\ s[i - 1] <= 243
          /\ r[i - 1] = 8 <=> r[i - 2] = 0 /\ s[i - 1] = 244
      BY <1>3, <3>1
    <3>. QED BY <1>3, <1>5, <2>2, <3>1, <3>2
  <2>. QED BY <1>5, <2>1, <2>2
<1>6. ASSUME NEW i \in Int, 1 <= i, i <= n
      PROVE  r[i] = 2 <=>
               \/ r[i - 1] = 0 /\ 194 <= s[i] /\ s[i] <= 223
               \/ i >= 2 /\ r[i - 2] = 0 /\ Two(i - 1)
               \/ i >= 3 /\ r[i - 3] = 0 /\ Three(i - 2) /\ IsTail(s[i])
  <2>1. CASE i = 1
    BY <1>2, <1>3, <2>1
  <2>2. CASE i >= 2
    <3>1. i - 1 \in Int /\ 1 <= i - 1 /\ i - 1 <= n /\ (i - 1) - 1 = i - 2 /\ (i - 1) + 1 = i
          /\ (i - 1) - 2 = i - 3 /\ (i - 1 >= 2 <=> i >= 3)
      BY <1>6, <2>2
    <3>2. /\ r[i - 1] = 4 <=> r[i - 2] = 0 /\ s[i - 1] = 224
          /\ r[i - 1] = 5 <=> r[i - 2] = 0 /\ s[i - 1] = 237
      BY <1>3, <3>1
    <3>3. r[i - 1] = 3 <=>
               \/ r[i - 2] = 0 /\ 225 <= s[i - 1] /\ s[i - 1] <= 239 /\ s[i - 1] # 237
               \/ i >= 3 /\ r[i - 3] = 0 /\ Three(i - 2)
      <4>. HIDE DEF Three
      <4>. QED BY <1>5, <3>1
    <3>. HIDE DEF Three
    <3>4. r[i] = 2 <=> \/ r[i - 1] = 0 /\ 194 <= s[i] /\ s[i] <= 223
                       \/ r[i - 1] = 3 /\ IsTail(s[i])
                       \/ r[i - 1] = 4 /\ 160 <= s[i] /\ s[i] <= 191
                       \/ r[i - 1] = 5 /\ 128 <= s[i] /\ s[i] <= 159
      BY <1>3, <1>6
    <3>. QED BY <1>6, <2>2, <3>1, <3>2, <3>3, <3>4
  <2>. QED BY <1>6, <2>1, <2>2
<1>7. r[n] = 0 <=>
        \/ r[n - 1] = 0 /\ s[n] < 128
        \/ n >= 2 /\ r[n - 2] = 0 /\ 194 <= s[n - 1] /\ s[n - 1] <= 223 /\ IsTail(s[n])
        \/ n >= 3 /\ r[n - 3] = 0 /\ Two(n - 2) /\ IsTail(s[n])
        \/ n >= 4 /\ r[n - 4] = 0 /\ Three(n - 3) /\ IsTail(s[n - 1]) /\ IsTail(s[n])
  <2>. HIDE DEF Two, Three
  <2>1. CASE n = 1
    BY <1>2, <1>3, <2>1
  <2>2. CASE n >= 2
    <3>1. n - 1 \in Int /\ 1 <= n - 1 /\ n - 1 <= n /\ (n - 1) - 1 = n - 2 /\ (n - 1) - 2 = n - 3
          /\ (n - 1) - 3 = n - 4 /\ (n - 1 >= 2 <=> n >= 3) /\ (n - 1 >= 3 <=> n >= 4)
      BY <1>0, <2>2
    <3>2. r[n - 1] = 2 <=>
               \/ r[n - 2] = 0 /\ 194 <= s[n - 1] /\ s[n - 1] <= 223
               \/ n >= 3 /\ r[n - 3] = 0 /\ Two(n - 2)
               \/ n >= 4 /\ r[n - 4] = 0 /\ Three(n - 3) /\ IsTail(s[n - 1])
      BY <1>6, <3>1
    <3>3. r[n] = 0 <=> \/ r[n - 1] = 0 /\ s[n] < 128
                       \/ r[n - 1] = 2 /\ IsTail(s[n])
      BY <1>0, <1>3
    <3>. QED BY <2>2, <3>2, <3>3
  <2>. QED BY <1>0, <2>1, <2>2
\* The same of characters
<1>. DEFINE EndsIn(k) == k <= n /\ r[n - k] = 0 /\ IsCharacter(SubSeq(s, n - k + 1, n))
<1>8. EndsIn(1) <=> r[n - 1] = 0 /\ s[n] < 128
  BY <1>0, PieceIsCharacter
<1>9. EndsIn(2) <=>
        n >= 2 /\ r[n - 2] = 0 /\ 194 <= s[n - 1] /\ s[n - 1] <= 223 /\ IsTail(s[n])
  <2>1. CASE n >= 2
    <3>1. EndsIn(2) <=> r[n - 2] = 0 /\ TwoBytes(s[n - 1], s[n])
      BY <1>0, <2>1, PieceIsCharacter
    <3>2. s[n - 1] \in Int /\ s[n] \in Int
      BY <1>0, <1>1, <2>1
    <3>. HIDE DEF EndsIn
    <3>. QED BY <2>1, <3>1, <3>2, TwoByteCharacter
  <2>. QED BY <1>0, <2>1
<1>10. EndsIn(3) <=> n >= 3 /\ r[n - 3] = 0 /\ Two(n - 2) /\ IsTail(s[n])
  <2>1. CASE n >= 3
    <3>1. EndsIn(3) <=> r[n - 3] = 0 /\ ThreeBytes(s[n - 2], s[n - 1], s[n])
      BY <1>0, <2>1, PieceIsCharacter
    <3>2. s[n - 2] \in Int /\ s[n - 1] \in Int /\ s[n] \in Int
      BY <1>0, <1>1, <2>1
    <3>3. (n - 2) + 1 = n - 1
      BY <1>0
    <3>4. ThreeBytes(s[n - 2], s[n - 1], s[n]) <=> Two(n - 2) /\ IsTail(s[n])
      BY <3>2, <3>3, ThreeByteCharacter
    <3>. HIDE DEF EndsIn, Two
    <3>. QED BY <2>1, <3>1, <3>4
  <2>. QED BY <1>0, <2>1
<1>11. EndsIn(4) <=>
         n >= 4 /\ r[n - 4] = 0 /\ Three(n - 3) /\ IsTail(s[n - 1]) /\ IsTail(s[n])
  <2>1. CASE n >= 4
    <3>1. EndsIn(4) <=> r[n - 4] = 0 /\ FourBytes(s[n - 3], s[n - 2], s[n - 1], s[n])
      BY <1>0, <2>1, PieceIsCharacter
    <3>2. s[n - 3] \in Int /\ s[n - 2] \in Int /\ s[n - 1] \in Int /\ s[n] \in Int
      BY <1>0, <1>1, <2>1
    <3>3. (n - 3) + 1 = n - 2
      BY <1>0
    <3>4. FourBytes(s[n - 3], s[n - 2], s[n - 1], s[n]) <=>
            Three(n - 3) /\ IsTail(s[n - 1]) /\ IsTail(s[n])
      <4>1. FourBytes(s[n - 3], s[n - 2], s[n - 1], s[n]) <=>
              /\ \/ s[n - 3] = 240 /\ 144 <= s[n - 2] /\ s[n - 2] <= 191
                 \/ s[n - 3] = 244 /\ 128 <= s[n - 2] /\ s[n - 2] <= 143
                 \/ 241 <= s[n - 3] /\ s[n - 3] <= 243 /\ IsTail(s[n - 2])
              /\ IsTail(s[n - 1])
              /\ IsTail(s[n])
        <5>. DEFINE a == s[n - 3]
                    b == s[n - 2]
                    c == s[n - 1]
                    d == s[n]
        <5>1. a \in Int /\ b \in Int /\ c \in Int /\ d \in Int
          BY <3>2
        <5>. HIDE DEF a, b, c, d
        <5>2. FourBytes(a, b, c, d) <=>
                /\ \/ a = 240 /\ 144 <= b /\ b <= 191
                   \/ a = 244 /\ 128 <= b /\ b <= 143
                   \/ 241 <= a /\ a <= 243 /\ IsTail(b)
                /\ IsTail(c)
                /\ IsTail(d)
          BY <5>1, FourByteCharacter
        <5>. QED BY <5>2 DEF a, b, c, d
      <4>. QED BY <3>3, <4>1
    <3>. HIDE DEF EndsIn, Three
    <3>. QED BY <2>1, <3>1, <3>4
  <2>. QED BY <1>0, <2>1
<1>. HIDE DEF EndsIn, Two, Three
<1>12. r[n] = 0 <=> EndsIn(1) \/ EndsIn(2) \/ EndsIn(3) \/ EndsIn(4)
  BY <1>7, <1>8, <1>9, <1>10, <1>11
<1>13. r[n] = 0 <=> \E k \in 1 .. 4 : EndsIn(k)
  <2>1. \A k : k \in 1 .. 4 <=> k = 1 \/ k = 2 \/ k = 3 \/ k = 4
    OBVIOUS
  <2>. QED BY <1>12, <2>1
<1>. QED BY <1>13 DEF EndsIn

\* utf8.c accepts what is well-formed UTF-8 by code points, and nothing else: the
\* table has no wrong entry.
THEOREM AutomatonCorrect ==
  ASSUME NEW s \in Seq(Byte)
  PROVE  is_utf8_len_state(s, UTF8_ACCEPT) = UTF8_ACCEPT <=> WellFormed(s)
<1>. DEFINE Step(g, n) ==
              \/ n = 0
              \/ \E k \in 1 .. 4 : k <= n /\ g[n - k] /\ IsCharacter(SubSeq(s, n - k + 1, n))
            Fits(g) == g = [n \in 0 .. Len(s) |-> Step(g, n)]
<1>0. Len(s) \in Nat /\ 0 \in States
  BY LenProperties DEF States
<1>1. PICK r : IsRun(r, s, 0)
  BY <1>0, RunExists
<1>2. is_utf8_len_state(s, UTF8_ACCEPT) = r[Len(s)]
  BY <1>0, <1>1, RunValue DEF UTF8_ACCEPT
<1>3. r[0] = 0
  BY <1>1 DEF IsRun
<1>4. \A n \in 1 .. Len(s) :
        r[n] = 0 <=>
          \E k \in 1 .. 4 : k <= n /\ r[n - k] = 0 /\ IsCharacter(SubSeq(s, n - k + 1, n))
  BY <1>1, AcceptsCharacters
\* There is one such function: whether the automaton accepts so far.
<1>5. \E g : Fits(g)
  <2>. DEFINE g == [n \in 0 .. Len(s) |-> r[n] = 0]
  <2>1. \A n \in 0 .. Len(s) : \A k \in 1 .. 4 : k <= n => n - k \in 0 .. Len(s)
    BY <1>0
  <2>2. \A n \in 0 .. Len(s) : g[n] = (r[n] = 0)
    OBVIOUS
  <2>3. ASSUME NEW n \in 0 .. Len(s)
        PROVE  (r[n] = 0) <=> Step(g, n)
    <3>1. CASE n = 0
      BY <1>3, <3>1
    <3>2. CASE n # 0
      <4>1. n \in 1 .. Len(s)
        BY <1>0, <3>2
      <4>2. \A k \in 1 .. 4 : k <= n => (g[n - k] <=> r[n - k] = 0)
        BY <2>1, <2>2
      <4>. HIDE DEF g
      <4>. QED BY <1>4, <3>2, <4>1, <4>2
    <3>. QED BY <3>1, <3>2
  <2>. DEFINE h == [n \in 0 .. Len(s) |-> Step(g, n)]
  <2>4. \A n \in 0 .. Len(s) : g[n] = h[n]
    <3>1. \A n \in 0 .. Len(s) : h[n] = Step(g, n)
      <4>. HIDE DEF g, Step
      <4>. QED OBVIOUS
    <3>2. ASSUME NEW n \in 0 .. Len(s)
          PROVE  (r[n] = 0) = Step(g, n)
      BY <2>3, Zenon
    <3>. HIDE DEF g, h, Step
    <3>. QED BY <2>2, <3>1, <3>2
  <2>5. g = h
    <3>1. g = [n \in 0 .. Len(s) |-> g[n]] /\ h = [n \in 0 .. Len(s) |-> h[n]]
      OBVIOUS
    <3>. HIDE DEF g, h
    <3>. QED BY <2>4, <3>1
  <2>6. Fits(g)
    <3>. HIDE DEF g, Step
    <3>. QED BY <2>5
  <2>. HIDE DEF g, Fits
  <2>. QED BY <2>6
<1>. DEFINE Upto == CHOOSE g : Fits(g)
<1>6. Fits(Upto)
  <2>. HIDE DEF Fits
  <2>. QED BY <1>5
<1>7. WellFormed(s) <=> Upto[Len(s)]
  BY DEF WellFormed
\* And no other.
<1>. HIDE DEF Upto
<1>8. \A n \in 0 .. Len(s) : Upto[n] = Step(Upto, n)
  <2>. HIDE DEF Step
  <2>. QED BY <1>6
<1>. DEFINE Holds(n) == \A m \in 0 .. n : Upto[m] <=> r[m] = 0
            N == {n \in Nat : n <= Len(s) => Holds(n)}
<1>9. 0 \in N
  <2>1. 0 \in 0 .. Len(s)
    BY <1>0
  <2>2. Upto[0] <=> r[0] = 0
    BY <1>3, <1>8, <2>1
  <2>3. \A m \in 0 .. 0 : m = 0
    OBVIOUS
  <2>. QED BY <2>2, <2>3
<1>10. ASSUME NEW n \in Nat, n \in N
       PROVE  n + 1 \in N
  <2>. SUFFICES ASSUME n + 1 <= Len(s)
                PROVE  Holds(n + 1)
    <3>. HIDE DEF Holds
    <3>. QED OBVIOUS
  <2>1. Holds(n) /\ n + 1 \in 1 .. Len(s) /\ n + 1 \in 0 .. Len(s) /\ n + 1 # 0
    BY <1>0, <1>10
  <2>2. \A k \in 1 .. 4 : k <= n + 1 => (n + 1) - k \in 0 .. n
    OBVIOUS
  <2>3. \A k \in 1 .. 4 : k <= n + 1 => (Upto[(n + 1) - k] <=> r[(n + 1) - k] = 0)
    BY <2>1, <2>2
  <2>4. Upto[n + 1] <=> r[n + 1] = 0
    BY <1>4, <1>8, <2>1, <2>3
  <2>5. \A m \in 0 .. n + 1 : m \in 0 .. n \/ m = n + 1
    OBVIOUS
  <2>. QED BY <2>1, <2>4, <2>5
<1>11. \A n \in Nat : n \in N
  <2>. HIDE DEF N
  <2>. QED BY <1>9, <1>10, NatSetInduction
<1>12. Upto[Len(s)] <=> r[Len(s)] = 0
  <2>1. Len(s) \in 0 .. Len(s) /\ Len(s) <= Len(s)
    BY <1>0
  <2>. QED BY <1>0, <1>11, <2>1
<1>. QED BY <1>2, <1>7, <1>12 DEF UTF8_ACCEPT

----------------------------------------------------------------------------
(* FlattenSeq *)

\* g[i] is what the first i elements of q make.
IsFlat(g, q) ==
  /\ g \in [0 .. Len(q) -> Seq(Byte)]
  /\ g[0] = <<>>
  /\ \A i \in 1 .. Len(q) : g[i] = g[i - 1] \o q[i]

\* There is such a function.
LEMMA FlatExists ==
  ASSUME NEW q \in Seq(Seq(Byte))
  PROVE  \E g : IsFlat(g, q)
<1>. DEFINE Part(g, k) == g[0] = <<>> /\ \A i \in 1 .. k : g[i] = g[i - 1] \o q[i]
            Holds(k) == \E g \in [0 .. k -> Seq(Byte)] : Part(g, k)
            N == {k \in Nat : k <= Len(q) => Holds(k)}
<1>0. Len(q) \in Nat
  BY LenProperties
<1>1. 0 \in N
  <2>0. <<>> \in Seq(Byte)
    OBVIOUS
  <2>1. [i \in 0 .. 0 |-> <<>>] \in [0 .. 0 -> Seq(Byte)] /\ Part([i \in 0 .. 0 |-> <<>>], 0)
    BY <2>0
  <2>. HIDE DEF Part
  <2>. QED BY <2>1
<1>2. ASSUME NEW k \in Nat, k \in N
      PROVE  k + 1 \in N
  <2>. SUFFICES ASSUME k + 1 <= Len(q) PROVE Holds(k + 1)
    <3>. HIDE DEF Holds
    <3>. QED OBVIOUS
  <2>0. Holds(k)
    <3>1. k <= Len(q)
      BY <1>0
    <3>. HIDE DEF Holds
    <3>. QED BY <1>2, <3>1
  <2>1. PICK h \in [0 .. k -> Seq(Byte)] : Part(h, k)
    <3>. HIDE DEF Part
    <3>. QED BY <2>0
  <2>2. q[k + 1] \in Seq(Byte)
    <3>1. k + 1 \in 1 .. Len(q)
      BY <1>0
    <3>. QED BY <3>1, ElementOfSeq
  <2>. DEFINE x == h[k] \o q[k + 1]
              g == [i \in 0 .. k + 1 |-> IF i = k + 1 THEN x ELSE h[i]]
  <2>3. x \in Seq(Byte)
    BY <2>2, ConcatProperties
  <2>. HIDE DEF x
  <2>4. g \in [0 .. k + 1 -> Seq(Byte)]
    BY <2>3
  <2>5. Part(g, k + 1)
    <3>1. g[0] = <<>> /\ g[k + 1] = x
      BY <2>1
    <3>2. \A i \in 0 .. k : g[i] = h[i]
      OBVIOUS
    <3>3. \A i \in 1 .. k : h[i] = h[i - 1] \o q[i]
      BY <2>1
    <3>. HIDE DEF g
    <3>4. ASSUME NEW i \in 1 .. k
          PROVE  g[i] = g[i - 1] \o q[i]
      <4>1. i \in 0 .. k /\ i - 1 \in 0 .. k
        OBVIOUS
      <4>2. g[i] = h[i] /\ g[i - 1] = h[i - 1]
        BY <3>2, <4>1
      <4>. QED BY <3>3, <4>2
    <3>5. g[k + 1] = g[k] \o q[k + 1] /\ (k + 1) - 1 = k
      <4>1. k \in 0 .. k /\ (k + 1) - 1 = k
        OBVIOUS
      <4>2. g[k] = h[k]
        BY <3>2, <4>1
      <4>. QED BY <3>1, <4>1, <4>2 DEF x
    <3>6. \A i \in 1 .. k + 1 : i \in 1 .. k \/ i = k + 1
      OBVIOUS
    <3>. QED BY <3>1, <3>4, <3>5, <3>6
  <2>. HIDE DEF g, Part
  <2>. QED BY <2>4, <2>5
<1>3. \A k \in Nat : k \in N
  <2>. HIDE DEF N
  <2>. QED BY <1>1, <1>2, NatSetInduction
<1>4. Holds(Len(q))
  <2>. HIDE DEF Holds
  <2>. QED BY <1>0, <1>3
<1>. QED BY <1>4 DEF IsFlat

\* FlattenSeq is where it ends.
LEMMA FlatValue ==
  ASSUME NEW q \in Seq(Seq(Byte)), NEW g, IsFlat(g, q)
  PROVE  FlattenSeq(q) = g[Len(q)]
<1>. DEFINE n == Len(q)
            Rest(f) == [i \in 1 .. n |-> IF i = 1 THEN q[i] ELSE f[i - 1] \o q[i]]
            flatten == CHOOSE f : f = Rest(f)
<1>0. n \in Nat /\ \A i \in 1 .. n : q[i] \in Seq(Byte)
  BY LenProperties, ElementOfSeq
<1>1. CASE n = 0
  <2>1. q = <<>>
    BY <1>1, EmptySeq
  <2>. QED BY <1>1, <2>1 DEF FlattenSeq, IsFlat
<1>2. CASE n > 0
  <2>1. FlattenSeq(q) = flatten[n]
    BY <1>0, <1>2 DEF FlattenSeq
  <2>2. \A i \in 1 .. n : g[i] = IF i = 1 THEN q[i] ELSE g[i - 1] \o q[i]
    <3>. SUFFICES ASSUME NEW i \in 1 .. n
                  PROVE  g[i] = IF i = 1 THEN q[i] ELSE g[i - 1] \o q[i]
      OBVIOUS
    <3>1. g[i] = g[i - 1] \o q[i] /\ q[i] \in Seq(Byte)
      BY <1>0 DEF IsFlat
    <3>2. CASE i = 1
      <4>1. i - 1 = 0 /\ g[0] = <<>>
        BY <3>2 DEF IsFlat
      <4>2. <<>> \o q[i] = q[i]
        BY <3>1, ConcatEmptySeq
      <4>. QED BY <3>1, <3>2, <4>1, <4>2
    <3>. QED BY <3>1, <3>2
  <2>3. \E f : f = Rest(f)
    <3>. DEFINE f == [i \in 1 .. n |-> g[i]]
    <3>1. \A i \in 1 .. n : f[i] = g[i]
      OBVIOUS
    <3>2. \A i \in 1 .. n : i # 1 => i - 1 \in 1 .. n
      BY <1>0
    <3>3. \A i \in 1 .. n : f[i] = IF i = 1 THEN q[i] ELSE f[i - 1] \o q[i]
      <4>. HIDE DEF f
      <4>. QED BY <2>2, <3>1, <3>2
    <3>4. f = Rest(f)
      <4>1. f = [i \in 1 .. n |-> f[i]]
        OBVIOUS
      <4>. HIDE DEF f
      <4>. QED BY <3>3, <4>1
    <3>. HIDE DEF f, Rest
    <3>. QED BY <3>4
  <2>4. flatten = Rest(flatten)
    <3>. HIDE DEF Rest
    <3>. QED BY <2>3
  <2>. HIDE DEF flatten
  <2>5. \A i \in 1 .. n : flatten[i] = IF i = 1 THEN q[i] ELSE flatten[i - 1] \o q[i]
    <3>1. \A i \in 1 .. n : Rest(flatten)[i] = IF i = 1 THEN q[i] ELSE flatten[i - 1] \o q[i]
      OBVIOUS
    <3>. HIDE DEF Rest
    <3>. QED BY <2>4, <3>1
  <2>. DEFINE N == {i \in Nat : 1 <= i /\ i <= n => flatten[i] = g[i]}
  <2>6. 0 \in N
    OBVIOUS
  <2>7. ASSUME NEW i \in Nat, i \in N
        PROVE  i + 1 \in N
    <3>. SUFFICES ASSUME i + 1 <= n PROVE flatten[i + 1] = g[i + 1]
      OBVIOUS
    <3>1. i + 1 \in 1 .. n /\ (i + 1) - 1 = i
      BY <1>0
    <3>2. CASE i = 0
      <4>1. i + 1 = 1
        BY <3>2
      <4>. QED BY <2>2, <2>5, <3>1, <4>1
    <3>3. CASE i # 0
      <4>1. flatten[i] = g[i] /\ i + 1 # 1
        BY <1>0, <2>7, <3>3
      <4>. QED BY <2>2, <2>5, <3>1, <4>1
    <3>. QED BY <3>2, <3>3
  <2>8. \A i \in Nat : i \in N
    <3>. HIDE DEF N
    <3>. QED BY <2>6, <2>7, NatSetInduction
  <2>9. flatten[n] = g[n]
    <3>1. n \in N /\ 1 <= n /\ n <= n
      BY <1>0, <1>2, <2>8
    <3>. QED BY <3>1
  <2>. QED BY <2>1, <2>9
<1>. QED BY <1>0, <1>1, <1>2

\* Flattening bytes makes bytes,
LEMMA FlattenType ==
  ASSUME NEW q \in Seq(Seq(Byte))
  PROVE  FlattenSeq(q) \in Seq(Byte)
<1>1. PICK g : IsFlat(g, q)
  BY FlatExists
<1>2. FlattenSeq(q) = g[Len(q)] /\ Len(q) \in 0 .. Len(q)
  BY <1>1, FlatValue, LenProperties
<1>. QED BY <1>1, <1>2 DEF IsFlat

\* of nothing nothing,
LEMMA FlattenEmpty == FlattenSeq(<<>>) = <<>>
BY DEF FlattenSeq

\* and with one more element appends it.
LEMMA FlattenAppend ==
  ASSUME NEW q \in Seq(Seq(Byte)), NEW x \in Seq(Byte)
  PROVE  FlattenSeq(Append(q, x)) = FlattenSeq(q) \o x
<1>. DEFINE p == Append(q, x)
            n == Len(q)
<1>1. p \in Seq(Seq(Byte)) /\ Len(p) = n + 1 /\ n \in Nat
      /\ p[n + 1] = x /\ \A i \in 1 .. n : p[i] = q[i]
  BY AppendProperties, LenProperties
<1>2. PICK g : IsFlat(g, q)
  BY FlatExists
<1>3. FlattenSeq(q) = g[n]
  BY <1>2, FlatValue
<1>4. g \in [0 .. n -> Seq(Byte)] /\ g[0] = <<>> /\ \A i \in 1 .. n : g[i] = g[i - 1] \o q[i]
  BY <1>2 DEF IsFlat
<1>. DEFINE y == g[n] \o x
            h == [i \in 0 .. n + 1 |-> IF i = n + 1 THEN y ELSE g[i]]
<1>5. y \in Seq(Byte)
  BY <1>1, <1>4, ConcatProperties
<1>. HIDE DEF p, n, y
<1>6. h \in [0 .. n + 1 -> Seq(Byte)] /\ h[n + 1] = y /\ \A i \in 0 .. n : h[i] = g[i]
  BY <1>1, <1>4, <1>5
<1>7. IsFlat(h, p)
  <2>. HIDE DEF h
  <2>1. h[0] = <<>>
    BY <1>1, <1>4, <1>6
  <2>2. ASSUME NEW i \in 1 .. n + 1
        PROVE  h[i] = h[i - 1] \o p[i]
    <3>1. CASE i = n + 1
      <4>0. i - 1 = n /\ n \in 0 .. n
        BY <1>1, <3>1
      <4>1. h[i - 1] = g[n] /\ h[i] = y /\ p[i] = x
        BY <1>1, <1>6, <3>1, <4>0
      <4>. QED BY <4>1 DEF y
    <3>2. CASE i # n + 1
      <4>0. n \in Nat
        BY <1>1
      <4>1. i \in 1 .. n /\ i \in 0 .. n /\ i - 1 \in 0 .. n
        BY <3>2, <4>0
      <4>2. h[i] = g[i] /\ h[i - 1] = g[i - 1] /\ p[i] = q[i]
        BY <1>1, <1>6, <4>1
      <4>. QED BY <1>4, <4>1, <4>2
    <3>. QED BY <3>1, <3>2
  <2>. QED BY <1>1, <1>6, <2>1, <2>2 DEF IsFlat
<1>8. FlattenSeq(p) = h[n + 1]
  <2>. HIDE DEF h
  <2>. QED BY <1>1, <1>7, FlatValue
<1>. QED BY <1>3, <1>6, <1>8 DEF p, y

----------------------------------------------------------------------------
(* The reference, when a frame is appended *)

\* A sequence and one more element.
LEMMA Appended ==
  ASSUME NEW S, NEW s \in Seq(S), NEW x \in S
  PROVE  /\ Append(s, x) \in Seq(S)
         /\ Len(s) \in Nat
         /\ Len(Append(s, x)) = Len(s) + 1
         /\ DOMAIN s = 1 .. Len(s)
         /\ DOMAIN Append(s, x) = 1 .. Len(s) + 1
         /\ Append(s, x)[Len(s) + 1] = x
         /\ \A i \in 1 .. Len(s) : Append(s, x)[i] = s[i] /\ s[i] \in S
BY AppendProperties, LenProperties, ElementOfSeq

\* The maximum of a set that has one.
LEMMA MaxIs ==
  ASSUME NEW S, S \subseteq Int, NEW x \in S, \A y \in S : y <= x
  PROVE  Max(S) = x
<1>1. \A y \in S : x >= y
  OBVIOUS
<1>2. ASSUME NEW z \in S, \A y \in S : z >= y
      PROVE  z = x
  BY <1>2
<1>. QED BY <1>1, <1>2 DEF Max

\* Numbers up to n have a maximum,
LEMMA MaxOf ==
  ASSUME NEW n \in Nat, NEW S \in SUBSET (0 .. n), S # {}
  PROVE  Max(S) \in S /\ \A y \in S : y <= Max(S)
<1>. DEFINE Holds(k) == \A T \in SUBSET (0 .. k) : T # {} => \E x \in T : \A y \in T : y <= x
            N == {k \in Nat : Holds(k)}
<1>1. 0 \in N
  <2>. SUFFICES ASSUME NEW T \in SUBSET (0 .. 0), T # {}
                PROVE  \E x \in T : \A y \in T : y <= x
    OBVIOUS
  <2>1. PICK x \in T : TRUE
    OBVIOUS
  <2>2. \A y \in T : y = 0
    OBVIOUS
  <2>. QED BY <2>1, <2>2
<1>2. ASSUME NEW k \in Nat, k \in N
      PROVE  k + 1 \in N
  <2>. SUFFICES ASSUME NEW T \in SUBSET (0 .. k + 1), T # {}
                PROVE  \E x \in T : \A y \in T : y <= x
    OBVIOUS
  <2>1. CASE k + 1 \in T
    <3>1. \A y \in T : y <= k + 1
      OBVIOUS
    <3>. QED BY <2>1, <3>1
  <2>2. CASE k + 1 \notin T
    <3>1. T \in SUBSET (0 .. k)
      BY <2>2
    <3>. QED BY <1>2, <3>1
  <2>. QED BY <2>1, <2>2
<1>3. \A k \in Nat : k \in N
  <2>. HIDE DEF N
  <2>. QED BY <1>1, <1>2, NatSetInduction
<1>4. PICK x \in S : \A y \in S : y <= x
  <2>1. Holds(n)
    <3>. HIDE DEF Holds
    <3>. QED BY <1>3
  <2>. QED BY <2>1
<1>5. Max(S) = x
  <2>1. S \subseteq Int
    OBVIOUS
  <2>. QED BY <1>4, <2>1, MaxIs
<1>. QED BY <1>4, <1>5

\* and natural numbers a minimum.
LEMMA MinOf ==
  ASSUME NEW S \in SUBSET Nat, S # {}
  PROVE  Min(S) \in S /\ \A y \in S : Min(S) <= y
<1>. DEFINE R == {ss \in Nat \X Nat : ss[1] < ss[2]}
<1>1. IsWellFoundedOn(R, Nat)
  BY NatLessThanWellFounded DEF OpToRel
<1>. HIDE DEF R
<1>2. PICK x \in S : \A y \in S : <<y, x>> \notin R
  BY <1>1, WFMin
<1>3. ASSUME NEW y \in S
      PROVE  x <= y
  <2>1. x \in Nat /\ y \in Nat /\ <<y, x>> \notin R
    BY <1>2
  <2>2. ~ (y < x)
    BY <2>1 DEF R
  <2>. QED BY <2>1, <2>2
<1>. QED BY <1>3 DEF Min

\* The minimum of a set that has one.
LEMMA MinIs ==
  ASSUME NEW S, S \subseteq Int, NEW x \in S, \A y \in S : x <= y
  PROVE  Min(S) = x
<1>1. ASSUME NEW z \in S, \A y \in S : z <= y
      PROVE  z = x
  BY <1>1
<1>. QED BY <1>1 DEF Min

\* The positions of the frames that end messages.
LEMMA EndsAppend ==
  ASSUME NEW s \in Seq(Frame), NEW f \in Frame
  PROVE  /\ Ends(s) \subseteq 1 .. Len(s)
         /\ IsData(f) /\ f.fin => Ends(Append(s, f)) = Ends(s) \cup {Len(s) + 1}
         /\ ~ (IsData(f) /\ f.fin) => Ends(Append(s, f)) = Ends(s)
<1>. DEFINE t == Append(s, f)
            n == Len(s)
<1>1. /\ n \in Nat /\ DOMAIN s = 1 .. n /\ DOMAIN t = 1 .. n + 1 /\ t[n + 1] = f
      /\ \A i \in 1 .. n : t[i] = s[i]
  BY Appended
<1>. HIDE DEF n, t
<1>2. \A i : i \in Ends(s) <=> i \in 1 .. n /\ IsData(s[i]) /\ s[i].fin
  BY <1>1 DEF Ends, DataFrames
<1>3. \A i : i \in Ends(t) <=> i \in 1 .. n + 1 /\ IsData(t[i]) /\ t[i].fin
  BY <1>1 DEF Ends, DataFrames
<1>4. \A i : i \in 1 .. n + 1 <=> i \in 1 .. n \/ i = n + 1
  BY <1>1
<1>5. Ends(s) \subseteq 1 .. n
  BY <1>2
<1>6. \A i \in 1 .. n : i \in Ends(t) <=> i \in Ends(s)
  BY <1>1, <1>2, <1>3, <1>4
<1>7. n + 1 \in Ends(t) <=> IsData(f) /\ f.fin
  BY <1>1, <1>3, <1>4
<1>8. Ends(t) \subseteq 1 .. n + 1
  BY <1>3
<1>. QED BY <1>4, <1>5, <1>6, <1>7, <1>8 DEF n, t

\* Where the message of frame i begins: after every end before i.
LEMMA BeginOf ==
  ASSUME NEW s \in Seq(Frame), NEW i \in 1 .. Len(s) + 1
  PROVE  Begin(s, i) \in 1 .. i
<1>. DEFINE S == {0} \cup {j \in Ends(s) : j < i}
<1>1. Len(s) \in Nat /\ DOMAIN s = 1 .. Len(s)
  BY LenProperties
<1>2. S \in SUBSET (0 .. i - 1) /\ S # {} /\ i - 1 \in Nat
  BY <1>1 DEF Ends, DataFrames
<1>3. Max(S) \in 0 .. i - 1
  <2>. HIDE DEF S
  <2>. QED BY <1>2, MaxOf
<1>4. Begin(s, i) = 1 + Max(S)
  BY DEF Begin
<1>. HIDE DEF S
<1>. QED BY <1>3, <1>4

\* A frame does not change where earlier messages begin,
LEMMA BeginKept ==
  ASSUME NEW s \in Seq(Frame), NEW f \in Frame, NEW i \in 1 .. Len(s) + 1
  PROVE  Begin(Append(s, f), i) = Begin(s, i)
<1>1. Len(s) \in Nat
  BY LenProperties
<1>2. {j \in Ends(Append(s, f)) : j < i} = {j \in Ends(s) : j < i}
  <2>1. ~ (Len(s) + 1 < i)
    BY <1>1
  <2>2. Ends(Append(s, f)) = Ends(s) \/ Ends(Append(s, f)) = Ends(s) \cup {Len(s) + 1}
    BY EndsAppend
  <2>. QED BY <2>1, <2>2
<1>. QED BY <1>2 DEF Begin

\* but the next one begins behind it, if it ends one.
LEMMA BeginNext ==
  ASSUME NEW s \in Seq(Frame), NEW f \in Frame
  PROVE  Begin(Append(s, f), Len(s) + 2) =
           IF IsData(f) /\ f.fin THEN Len(s) + 2 ELSE Begin(s, Len(s) + 1)
<1>. DEFINE n == Len(s)
            t == Append(s, f)
<1>1. n \in Nat /\ Ends(s) \subseteq 1 .. n
  BY LenProperties, EndsAppend
<1>2. CASE IsData(f) /\ f.fin
  <2>1. Ends(t) = Ends(s) \cup {n + 1}
    BY <1>2, EndsAppend
  <2>. HIDE DEF n, t
  <2>. DEFINE S == {0} \cup {j \in Ends(t) : j < n + 2}
  <2>2. S \subseteq Int /\ n + 1 \in S /\ \A y \in S : y <= n + 1
    BY <1>1, <2>1
  <2>3. Begin(t, n + 2) = 1 + Max(S)
    BY DEF Begin
  <2>. HIDE DEF S
  <2>4. Max(S) = n + 1
    BY <2>2, MaxIs
  <2>5. Begin(t, n + 2) = n + 2
    BY <1>1, <2>3, <2>4
  <2>. QED BY <1>2, <2>5 DEF n, t
<1>3. CASE ~ (IsData(f) /\ f.fin)
  <2>1. Ends(t) = Ends(s)
    BY <1>3, EndsAppend
  <2>. HIDE DEF n, t
  <2>2. {j \in Ends(t) : j < n + 2} = {j \in Ends(s) : j < n + 1}
    BY <1>1, <2>1
  <2>3. Begin(t, n + 2) = Begin(s, n + 1)
    BY <2>2 DEF Begin
  <2>. QED BY <1>3, <2>3 DEF n, t
<1>. QED BY <1>2, <1>3

\* What a frame adds to a message.
DataOf(f) == IF IsData(f) THEN f.payload ELSE <<>>
Pieces(s, i, j) == [k \in 1 .. j - i + 1 |-> DataOf(s[i + k - 1])]

\* What a frame adds is bytes.
LEMMA DataOfType ==
  ASSUME NEW f \in Frame
  PROVE  DataOf(f) \in Seq(Byte)
<1>1. f.payload \in Seq(Byte) /\ <<>> \in Seq(Byte)
  BY DEF Frame
<1>. QED BY <1>1 DEF DataOf

\* Joined flattens the pieces.
LEMMA JoinedIs ==
  ASSUME NEW s, NEW i, NEW j
  PROVE  Joined(s, i, j) = FlattenSeq(Pieces(s, i, j))
BY DEF Joined, Pieces, DataOf

\* The pieces are sequences of bytes,
LEMMA PiecesType ==
  ASSUME NEW s \in Seq(Frame), NEW i \in Int, i >= 1, NEW j \in Int, j <= Len(s), i <= j + 1
  PROVE  /\ Pieces(s, i, j) \in Seq(Seq(Byte))
         /\ Len(Pieces(s, i, j)) = j - i + 1
         /\ \A k \in 1 .. j - i + 1 : Pieces(s, i, j)[k] = DataOf(s[i + k - 1])
<1>. DEFINE m == j - i + 1
<1>1. m \in Nat /\ Len(s) \in Nat
  BY LenProperties
<1>2. ASSUME NEW k \in 1 .. m
      PROVE  DataOf(s[i + k - 1]) \in Seq(Byte)
  <2>1. i + k - 1 \in 1 .. Len(s)
    BY <1>1
  <2>. QED BY <2>1, ElementOfSeq, DataOfType
<1>. HIDE DEF m
<1>. DEFINE p == [k \in 1 .. m |-> DataOf(s[i + k - 1])]
<1>3. p \in [1 .. m -> Seq(Byte)]
  BY <1>2
<1>4. \A k \in 1 .. m : p[k] = DataOf(s[i + k - 1])
  OBVIOUS
<1>5. p = Pieces(s, i, j)
  BY DEF Pieces, m
<1>. HIDE DEF p
<1>6. p \in Seq(Seq(Byte)) /\ Len(p) = m
  BY <1>1, <1>3
<1>. QED BY <1>4, <1>5, <1>6 DEF m

\* and so is what is joined.
LEMMA JoinedType ==
  ASSUME NEW s \in Seq(Frame), NEW i \in Int, i >= 1, NEW j \in Int, j <= Len(s), i <= j + 1
  PROVE  Joined(s, i, j) \in Seq(Byte)
BY PiecesType, JoinedIs, FlattenType

\* Between no frames there is no data.
LEMMA JoinedNothing ==
  ASSUME NEW s, NEW i \in Int
  PROVE  Joined(s, i + 1, i) = <<>>
<1>1. i - (i + 1) + 1 = 0
  OBVIOUS
<1>2. Pieces(s, i + 1, i) = <<>>
  <2>1. 1 .. i - (i + 1) + 1 = {}
    BY <1>1
  <2>. QED BY <2>1 DEF Pieces
<1>. QED BY <1>2, JoinedIs, FlattenEmpty

\* A frame does not change the data before it,
LEMMA JoinedKept ==
  ASSUME NEW s \in Seq(Frame), NEW f \in Frame,
         NEW i \in Int, i >= 1, NEW j \in Int, j <= Len(s), i <= j + 1
  PROVE  Joined(Append(s, f), i, j) = Joined(s, i, j)
<1>. DEFINE t == Append(s, f)
<1>1. t \in Seq(Frame) /\ Len(t) = Len(s) + 1 /\ Len(s) \in Nat /\ \A k \in 1 .. Len(s) : t[k] = s[k]
  BY Appended
<1>. HIDE DEF t
<1>2. \A k \in 1 .. j - i + 1 : t[i + k - 1] = s[i + k - 1]
  <2>1. \A k \in 1 .. j - i + 1 : i + k - 1 \in 1 .. Len(s)
    BY <1>1
  <2>. QED BY <1>1, <2>1
<1>3. Pieces(t, i, j) = Pieces(s, i, j)
  BY <1>2 DEF Pieces
<1>. QED BY <1>3, JoinedIs DEF t

\* and its own comes after that.
LEMMA JoinedAppend ==
  ASSUME NEW s \in Seq(Frame), NEW f \in Frame, NEW i \in 1 .. Len(s) + 1
  PROVE  Joined(Append(s, f), i, Len(s) + 1) = Joined(s, i, Len(s)) \o DataOf(f)
<1>. DEFINE t == Append(s, f)
            n == Len(s)
            p == Pieces(s, i, n)
            q == Pieces(t, i, n + 1)
<1>1. t \in Seq(Frame) /\ Len(t) = n + 1 /\ n \in Nat /\ t[n + 1] = f
      /\ \A k \in 1 .. n : t[k] = s[k]
  BY Appended
<1>2. i \in Int /\ i >= 1 /\ n \in Int /\ n <= n /\ i <= n + 1 /\ n + 1 \in Int /\ i <= (n + 1) + 1
  BY <1>1
<1>3. /\ p \in Seq(Seq(Byte)) /\ Len(p) = n - i + 1
      /\ \A k \in 1 .. n - i + 1 : p[k] = DataOf(s[i + k - 1])
  BY <1>2, PiecesType
<1>4. /\ q \in Seq(Seq(Byte)) /\ Len(q) = (n + 1) - i + 1
      /\ \A k \in 1 .. (n + 1) - i + 1 : q[k] = DataOf(t[i + k - 1])
  <2>. HIDE DEF n, t
  <2>1. n + 1 <= Len(t)
    BY <1>1
  <2>. QED BY <1>1, <1>2, <2>1, PiecesType
<1>5. DataOf(f) \in Seq(Byte)
  BY DataOfType
<1>. DEFINE a == Append(p, DataOf(f))
<1>6. /\ a \in Seq(Seq(Byte)) /\ Len(a) = Len(p) + 1 /\ a[Len(p) + 1] = DataOf(f)
      /\ \A k \in 1 .. Len(p) : a[k] = p[k]
  <2>. DEFINE d == DataOf(f)
  <2>1. p \in Seq(Seq(Byte)) /\ d \in Seq(Byte)
    BY <1>3, <1>5
  <2>. HIDE DEF p, d
  <2>2. /\ Append(p, d) \in Seq(Seq(Byte)) /\ Len(Append(p, d)) = Len(p) + 1
        /\ Append(p, d)[Len(p) + 1] = d
        /\ \A k \in 1 .. Len(p) : Append(p, d)[k] = p[k]
    BY <2>1, AppendProperties
  <2>. QED BY <2>2 DEF d
<1>. HIDE DEF n, t, p, q, a
<1>7. \A k \in 1 .. Len(q) : q[k] = a[k]
  <2>. SUFFICES ASSUME NEW k \in 1 .. Len(q) PROVE q[k] = a[k]
    OBVIOUS
  <2>1. CASE k = n - i + 2
    <3>1. i + k - 1 = n + 1 /\ k = Len(p) + 1
      BY <1>1, <1>3, <2>1
    <3>. QED BY <1>1, <1>4, <1>6, <3>1
  <2>2. CASE k # n - i + 2
    <3>1. k \in 1 .. n - i + 1 /\ i + k - 1 \in 1 .. n /\ k \in 1 .. Len(p)
      BY <1>1, <1>3, <1>4, <2>2
    <3>2. q[k] = DataOf(t[i + k - 1]) /\ t[i + k - 1] = s[i + k - 1]
      BY <1>1, <1>4, <3>1
    <3>. QED BY <1>3, <1>6, <3>1, <3>2
  <2>. QED BY <2>1, <2>2
<1>8. q = a
  <2>1. Len(q) = Len(a)
    BY <1>1, <1>2, <1>3, <1>4, <1>6
  <2>. QED BY <1>4, <1>6, <1>7, <2>1, SeqEqual
<1>9. FlattenSeq(q) = FlattenSeq(p) \o DataOf(f)
  BY <1>3, <1>5, <1>8, FlattenAppend DEF a
<1>. QED BY <1>9, JoinedIs DEF n, t, p, q

\* A data frame does not have the type NONE.
LEMMA DataTypes ==
  ASSUME NEW f \in Frame, IsData(f)
  PROVE  f.op \in {CONT, TXT, BIN} /\ f.op # NONE
BY DEF IsData, CONT, TXT, BIN, NONE

\* Between no frames there is no type,
LEMMA TypeOfNothing ==
  ASSUME NEW s \in Seq(Frame), NEW i \in Int
  PROVE  TypeOf(s, i + 1, i) = NONE
<1>1. \A k \in DataFrames(s) : ~ (i + 1 <= k /\ k <= i)
  BY LenProperties DEF DataFrames
<1>2. {k \in DataFrames(s) : i + 1 <= k /\ k <= i} = {}
  BY <1>1
<1>. QED BY <1>2 DEF TypeOf

\* a frame does not change the type before it,
LEMMA TypeOfKept ==
  ASSUME NEW s \in Seq(Frame), NEW f \in Frame,
         NEW i \in Int, i >= 1, NEW j \in Int, j <= Len(s)
  PROVE  TypeOf(Append(s, f), i, j) = TypeOf(s, i, j)
<1>. DEFINE t == Append(s, f)
            D == {k \in DataFrames(s) : i <= k /\ k <= j}
            E == {k \in DataFrames(t) : i <= k /\ k <= j}
<1>1. /\ Len(s) \in Nat /\ DOMAIN s = 1 .. Len(s) /\ DOMAIN t = 1 .. Len(s) + 1
      /\ \A k \in 1 .. Len(s) : t[k] = s[k]
  BY Appended
<1>. HIDE DEF t
<1>2. D = E
  <2>1. \A k \in 1 .. Len(s) + 1 : k <= j => k \in 1 .. Len(s)
    BY <1>1
  <2>2. \A k : k \in D <=> k \in 1 .. Len(s) /\ IsData(s[k]) /\ i <= k /\ k <= j
    BY <1>1 DEF DataFrames
  <2>3. \A k : k \in E <=> k \in 1 .. Len(s) + 1 /\ IsData(t[k]) /\ i <= k /\ k <= j
    BY <1>1 DEF DataFrames
  <2>4. \A k \in 1 .. Len(s) : k \in 1 .. Len(s) + 1
    BY <1>1
  <2>. HIDE DEF D, E
  <2>. QED BY <1>1, <2>1, <2>2, <2>3, <2>4
<1>3. D # {} => t[Min(D)] = s[Min(D)]
  <2>1. D \in SUBSET Nat /\ D \subseteq 1 .. Len(s)
    BY <1>1 DEF DataFrames
  <2>. HIDE DEF D
  <2>. QED BY <1>1, <2>1, MinOf
<1>4. /\ TypeOf(s, i, j) = IF D = {} THEN NONE ELSE s[Min(D)].op
      /\ TypeOf(t, i, j) = IF E = {} THEN NONE ELSE t[Min(E)].op
  BY DEF TypeOf
<1>. HIDE DEF D, E
<1>5. TypeOf(t, i, j) = TypeOf(s, i, j)
  BY <1>2, <1>3, <1>4
<1>. QED BY <1>5 DEF t

\* and gives its own if it is the first data frame.
LEMMA TypeOfAppend ==
  ASSUME NEW s \in Seq(Frame), NEW f \in Frame, NEW i \in 1 .. Len(s) + 1
  PROVE  TypeOf(Append(s, f), i, Len(s) + 1) =
           IF TypeOf(s, i, Len(s)) # NONE THEN TypeOf(s, i, Len(s))
           ELSE IF IsData(f) THEN f.op ELSE NONE
<1>. DEFINE t == Append(s, f)
            n == Len(s)
            D == {k \in DataFrames(s) : i <= k /\ k <= n}
            E == {k \in DataFrames(t) : i <= k /\ k <= n + 1}
<1>1. /\ n \in Nat /\ DOMAIN s = 1 .. n /\ DOMAIN t = 1 .. n + 1 /\ t[n + 1] = f
      /\ \A k \in 1 .. n : t[k] = s[k] /\ s[k] \in Frame
  BY Appended
<1>. HIDE DEF t, n
<1>2. \A k : k \in D <=> k \in 1 .. n /\ IsData(s[k]) /\ i <= k /\ k <= n
  BY <1>1 DEF DataFrames
<1>3. \A k : k \in E <=> k \in 1 .. n + 1 /\ IsData(t[k]) /\ i <= k /\ k <= n + 1
  BY <1>1 DEF DataFrames
<1>4. /\ TypeOf(s, i, n) = IF D = {} THEN NONE ELSE s[Min(D)].op
      /\ TypeOf(t, i, n + 1) = IF E = {} THEN NONE ELSE t[Min(E)].op
  BY DEF TypeOf
<1>. HIDE DEF D, E
<1>5. \A k : k \in E <=> k \in D \/ (k = n + 1 /\ IsData(f))
  <2>1. \A k : k \in 1 .. n + 1 <=> k \in 1 .. n \/ k = n + 1
    BY <1>1
  <2>2. i <= n + 1 /\ n + 1 <= n + 1 /\ \A k \in 1 .. n : k <= n /\ k <= n + 1
    BY <1>1 DEF n
  <2>3. ASSUME NEW k \in 1 .. n
        PROVE  k \in E <=> k \in D
    BY <1>1, <1>2, <1>3, <2>1, <2>2
  <2>4. n + 1 \in E <=> IsData(f)
    BY <1>1, <1>3, <2>1, <2>2
  <2>5. \A k : (k \in D => k \in 1 .. n) /\ (k \in E => k \in 1 .. n + 1)
    BY <1>2, <1>3
  <2>. QED BY <2>1, <2>3, <2>4, <2>5
<1>6. D \in SUBSET Nat /\ D \subseteq 1 .. n
  BY <1>1, <1>2
<1>7. CASE D # {}
  <2>1. Min(D) \in D /\ \A k \in D : Min(D) <= k
    BY <1>6, <1>7, MinOf
  <2>2. s[Min(D)] \in Frame /\ IsData(s[Min(D)]) /\ t[Min(D)] = s[Min(D)]
    BY <1>1, <1>2, <1>6, <2>1
  <2>3. Min(E) = Min(D)
    <3>. DEFINE x == Min(D)
    <3>0. x \in D /\ x \in 1 .. n /\ \A k \in D : x <= k
      BY <1>6, <2>1
    <3>. HIDE DEF x
    <3>1. E \subseteq Int /\ x \in E /\ \A k \in E : x <= k
      <4>1. x \in E
        BY <1>5, <3>0
      <4>2. ASSUME NEW k \in E
            PROVE  k \in Int /\ x <= k
        <5>1. k \in D \/ k = n + 1
          BY <1>5
        <5>2. CASE k \in D
          <6>1. k \in Int
            BY <1>6, <5>2
          <6>. QED BY <3>0, <5>2, <6>1
        <5>3. CASE k = n + 1
          BY <1>1, <3>0, <5>3
        <5>. QED BY <5>1, <5>2, <5>3
      <4>. QED BY <4>1, <4>2
    <3>2. Min(E) = x
      BY <3>1, MinIs
    <3>. QED BY <3>2 DEF x
  <2>4. TypeOf(s, i, n) = s[Min(D)].op /\ s[Min(D)].op # NONE
    BY <1>4, <1>7, <2>2, DataTypes
  <2>5. TypeOf(t, i, n + 1) = s[Min(D)].op
    BY <1>4, <1>5, <2>1, <2>2, <2>3
  <2>. QED BY <2>4, <2>5 DEF n, t
<1>8. CASE D = {} /\ IsData(f)
  <2>1. E = {n + 1}
    BY <1>5, <1>8
  <2>2. Min(E) = n + 1
    <3>1. E \subseteq Int /\ n + 1 \in E /\ \A k \in E : n + 1 <= k
      BY <1>1, <2>1
    <3>. QED BY <3>1, MinIs
  <2>3. TypeOf(t, i, n + 1) = f.op
    BY <1>1, <1>4, <2>1, <2>2
  <2>. QED BY <1>4, <1>8, <2>3 DEF n, t
<1>9. CASE D = {} /\ ~ IsData(f)
  <2>1. E = {}
    BY <1>5, <1>9
  <2>. QED BY <1>4, <1>9, <2>1 DEF n, t
<1>. QED BY <1>7, <1>8, <1>9

\* The message that has not ended when s has been read.
Text(s) == Joined(s, Begin(s, Len(s) + 1), Len(s))
Kind(s) == TypeOf(s, Begin(s, Len(s) + 1), Len(s))

\* Its text is bytes.
LEMMA TextType ==
  ASSUME NEW s \in Seq(Frame)
  PROVE  Text(s) \in Seq(Byte)
<1>. DEFINE b == Begin(s, Len(s) + 1)
<1>1. Len(s) \in Nat /\ b \in 1 .. Len(s) + 1
  <2>1. Len(s) \in Nat
    BY LenProperties
  <2>2. Len(s) + 1 \in 1 .. Len(s) + 1
    BY <2>1
  <2>. QED BY <2>1, <2>2, BeginOf
<1>. HIDE DEF b
<1>2. Joined(s, b, Len(s)) \in Seq(Byte)
  <2>1. b \in Int /\ b >= 1 /\ Len(s) \in Int /\ Len(s) <= Len(s) /\ b <= Len(s) + 1
    BY <1>1
  <2>. QED BY <2>1, JoinedType
<1>. QED BY <1>2 DEF Text, b

\* Before the first frame there is none.
LEMMA NoFrames == Text(<<>>) = <<>> /\ Kind(<<>>) = NONE /\ Ends(<<>>) = {}
<1>0. <<>> \in Seq(Frame) /\ Len(<<>>) = 0
  OBVIOUS
<1>1. Ends(<<>>) = {}
  BY DEF Ends, DataFrames
<1>2. Begin(<<>>, 1) = 1
  <2>1. 1 \in 1 .. Len(<<>>) + 1
    BY <1>0
  <2>2. Begin(<<>>, 1) \in 1 .. 1
    BY <1>0, <2>1, BeginOf
  <2>. QED BY <2>2
<1>3. Joined(<<>>, 0 + 1, 0) = <<>>
  BY JoinedNothing
<1>4. TypeOf(<<>>, 0 + 1, 0) = NONE
  <2>1. \A i \in Int : TypeOf(<<>>, i + 1, i) = NONE
    BY <1>0, TypeOfNothing
  <2>. QED BY <2>1
<1>5. 0 + 1 = 1
  OBVIOUS
<1>. QED BY <1>0, <1>1, <1>2, <1>3, <1>4, <1>5 DEF Text, Kind

\* What a frame makes of it.
LEMMA AfterFrame ==
  ASSUME NEW s \in Seq(Frame), NEW f \in Frame
  PROVE  /\ Text(Append(s, f)) =
              IF IsData(f) /\ f.fin THEN <<>> ELSE Text(s) \o DataOf(f)
         /\ Kind(Append(s, f)) =
              IF IsData(f) /\ f.fin THEN NONE
              ELSE IF Kind(s) # NONE THEN Kind(s)
              ELSE IF IsData(f) THEN f.op ELSE NONE
<1>. DEFINE t == Append(s, f)
            n == Len(s)
<1>1. n \in Nat /\ Len(t) = n + 1 /\ t \in Seq(Frame)
  BY Appended
<1>2. Len(t) + 1 = n + 2
  BY <1>1
<1>3. Begin(t, n + 2) = IF IsData(f) /\ f.fin THEN n + 2 ELSE Begin(s, n + 1)
  BY BeginNext
<1>4. CASE IsData(f) /\ f.fin
  <2>1. (n + 1) + 1 = n + 2 /\ n + 1 \in Int
    BY <1>1
  <2>. HIDE DEF n, t
  <2>2. Joined(t, (n + 1) + 1, n + 1) = <<>> /\ TypeOf(t, (n + 1) + 1, n + 1) = NONE
    BY <1>1, <2>1, JoinedNothing, TypeOfNothing
  <2>3. Text(t) = <<>> /\ Kind(t) = NONE
    BY <1>1, <1>2, <1>3, <1>4, <2>1, <2>2 DEF Text, Kind
  <2>. QED BY <1>4, <2>3 DEF t
<1>5. CASE ~ (IsData(f) /\ f.fin)
  <2>. DEFINE b == Begin(s, n + 1)
  <2>1. b \in 1 .. n + 1
    <3>1. n + 1 \in 1 .. n + 1
      BY <1>1
    <3>. QED BY <3>1, BeginOf
  <2>2. Begin(t, Len(t) + 1) = b
    BY <1>2, <1>3, <1>5
  <2>. HIDE DEF b
  <2>3. Joined(t, b, n + 1) = Joined(s, b, n) \o DataOf(f)
    BY <2>1, JoinedAppend
  <2>4. TypeOf(t, b, n + 1) =
          IF TypeOf(s, b, n) # NONE THEN TypeOf(s, b, n)
          ELSE IF IsData(f) THEN f.op ELSE NONE
    BY <2>1, TypeOfAppend
  <2>5. Text(s) = Joined(s, b, n) /\ Kind(s) = TypeOf(s, b, n)
    BY DEF Text, Kind, b
  <2>6. Text(t) = Joined(t, b, n + 1) /\ Kind(t) = TypeOf(t, b, n + 1)
    <3>. HIDE DEF t, n
    <3>. QED BY <1>1, <2>2 DEF Text, Kind
  <2>. HIDE DEF t, n
  <2>7. Text(t) = Text(s) \o DataOf(f)
    BY <2>3, <2>5, <2>6
  <2>8. Kind(t) = IF Kind(s) # NONE THEN Kind(s) ELSE IF IsData(f) THEN f.op ELSE NONE
    BY <2>4, <2>5, <2>6
  <2>. QED BY <1>5, <2>7, <2>8 DEF t
<1>. QED BY <1>4, <1>5

\* The message a frame ends,
LEMMA EndedByLast ==
  ASSUME NEW s \in Seq(Frame), NEW f \in Frame, IsData(f), f.fin
  PROVE  EndedBy(Append(s, f), Len(s) + 1) =
           [op |-> IF Kind(s) # NONE THEN Kind(s) ELSE f.op, payload |-> Text(s) \o f.payload]
<1>. DEFINE t == Append(s, f)
            n == Len(s)
            b == Begin(s, n + 1)
<1>1. n \in Nat /\ n + 1 \in 1 .. n + 1
  BY LenProperties
<1>2. b \in 1 .. n + 1 /\ Begin(t, n + 1) = b
  BY <1>1, BeginOf, BeginKept
<1>3. Text(s) = Joined(s, b, n) /\ Kind(s) = TypeOf(s, b, n)
  BY DEF Text, Kind
<1>. HIDE DEF b
<1>4. Joined(t, b, n + 1) = Joined(s, b, n) \o DataOf(f)
  BY <1>2, JoinedAppend
<1>5. TypeOf(t, b, n + 1) =
        IF TypeOf(s, b, n) # NONE THEN TypeOf(s, b, n)
        ELSE IF IsData(f) THEN f.op ELSE NONE
  BY <1>2, TypeOfAppend
<1>. DEFINE x == IF Kind(s) # NONE THEN Kind(s) ELSE f.op
            y == Text(s) \o f.payload
<1>6. TypeOf(t, b, n + 1) = x /\ Joined(t, b, n + 1) = y
  <2>. HIDE DEF t, n
  <2>. QED BY <1>3, <1>4, <1>5 DEF DataOf
<1>7. EndedBy(t, n + 1) = [op |-> TypeOf(t, b, n + 1), payload |-> Joined(t, b, n + 1)]
  <2>. HIDE DEF t, n
  <2>. QED BY <1>2 DEF EndedBy
<1>. HIDE DEF x, y, t, n
<1>8. EndedBy(t, n + 1) = [op |-> x, payload |-> y]
  BY <1>6, <1>7
<1>. QED BY <1>8 DEF x, y, t, n

\* and the messages earlier ones ended.
LEMMA EndedByKept ==
  ASSUME NEW s \in Seq(Frame), NEW f \in Frame, NEW e \in 1 .. Len(s)
  PROVE  EndedBy(Append(s, f), e) = EndedBy(s, e)
<1>. DEFINE t == Append(s, f)
            b == Begin(s, e)
<1>1. Len(s) \in Nat /\ e \in 1 .. Len(s) + 1 /\ e \in Int /\ e <= Len(s)
  BY LenProperties
<1>2. b \in 1 .. e /\ Begin(t, e) = b
  BY <1>1, BeginOf, BeginKept
<1>. HIDE DEF b
<1>3. b \in Int /\ b >= 1 /\ b <= e + 1
  BY <1>1, <1>2
<1>4. Joined(t, b, e) = Joined(s, b, e) /\ TypeOf(t, b, e) = TypeOf(s, b, e)
  BY <1>1, <1>3, JoinedKept, TypeOfKept
<1>. HIDE DEF t
<1>5. EndedBy(t, e) = EndedBy(s, e)
  BY <1>2, <1>4 DEF EndedBy, b
<1>. QED BY <1>5 DEF t

----------------------------------------------------------------------------
(* Ranks *)

\* The ranks in a set of positions.
LEMMA RankOf ==
  ASSUME NEW n \in Nat, NEW S \in SUBSET (1 .. n)
  PROVE  /\ IsFiniteSet(S)
         /\ Cardinality(S) \in Nat
         /\ \A i \in S : Rank(S, i) \in 1 .. Cardinality(S)
<1>1. IsFiniteSet(S) /\ Cardinality(S) \in Nat
  <2>1. IsFiniteSet(1 .. n)
    BY FS_Interval
  <2>. QED BY <2>1, FS_Subset, FS_CardinalityType
<1>2. ASSUME NEW i \in S
      PROVE  Rank(S, i) \in 1 .. Cardinality(S)
  <2>. DEFINE T == {j \in S : j <= i}
  <2>1. T \in SUBSET S /\ i \in T
    OBVIOUS
  <2>. HIDE DEF T
  <2>2. IsFiniteSet(T) /\ Cardinality(T) <= Cardinality(S) /\ Cardinality(T) \in Nat
    BY <1>1, <2>1, FS_Subset, FS_CardinalityType
  <2>3. Cardinality(T) # 0
    BY <2>1, <2>2, FS_EmptySet
  <2>4. Rank(S, i) = Cardinality(T)
    BY DEF Rank, T
  <2>. QED BY <1>1, <2>2, <2>3, <2>4
<1>. QED BY <1>1, <1>2

\* The next position has the next rank and leaves the others.
LEMMA RankNext ==
  ASSUME NEW n \in Nat, NEW S \in SUBSET (1 .. n)
  PROVE  /\ Cardinality(S \cup {n + 1}) = Cardinality(S) + 1
         /\ Rank(S \cup {n + 1}, n + 1) = Cardinality(S) + 1
         /\ \A i \in S : Rank(S \cup {n + 1}, i) = Rank(S, i)
<1>. DEFINE T == S \cup {n + 1}
<1>1. n + 1 \notin S
  OBVIOUS
<1>2. Cardinality(T) = Cardinality(S) + 1
  BY <1>1, RankOf, FS_AddElement
<1>3. {j \in T : j <= n + 1} = T
  <2>1. \A j \in T : j <= n + 1
    OBVIOUS
  <2>. HIDE DEF T
  <2>. QED BY <2>1
<1>4. \A i \in S : {j \in T : j <= i} = {j \in S : j <= i}
  OBVIOUS
<1>. QED BY <1>2, <1>3, <1>4 DEF Rank

----------------------------------------------------------------------------
(* Texts that have not ended *)

\* The bytes of a continuation.
LEMMA ContinuationType ==
  ASSUME NEW t \in Continuations
  PROVE  t \in Seq(Byte)
<1>1. PICK n \in 0 .. 3 : t \in [1 .. n -> {128, 144, 160}]
  BY DEF Continuations
<1>2. t \in [1 .. n -> Byte]
  BY <1>1 DEF Byte
<1>. QED BY <1>1, <1>2

\* Short sequences of bytes.
LEMMA OneByte ==
  ASSUME NEW a \in Byte
  PROVE  <<a>> \in Seq(Byte) /\ Len(<<a>>) = 1 /\ <<a>>[1] = a
OBVIOUS

\* Two bytes one after the other,
LEMMA OneAndOne ==
  ASSUME NEW a \in Byte, NEW b \in Byte
  PROVE  <<a, b>> \in Seq(Byte) /\ <<a>> \o <<b>> = <<a, b>>
<1>. DEFINE s == <<a>>
            t == Append(s, b)
            u == <<a, b>>
<1>0. s \in Seq(Byte)
  BY OneByte
<1>1. Len(s) = 1 /\ s[1] = a
  BY OneByte
<1>2. u \in Seq(Byte) /\ Len(u) = 2 /\ u[1] = a /\ u[2] = b
  OBVIOUS
<1>. HIDE DEF s, u
<1>3. t \in Seq(Byte) /\ Len(t) = 2 /\ t[1] = a /\ t[2] = b
  <2>1. t \in Seq(Byte) /\ Len(t) = Len(s) + 1 /\ t[Len(s) + 1] = b
        /\ \A i \in 1 .. Len(s) : t[i] = s[i]
    BY <1>0, AppendProperties
  <2>2. Len(s) + 1 = 2 /\ 1 \in 1 .. Len(s)
    BY <1>1
  <2>. HIDE DEF t
  <2>. QED BY <1>1, <2>1, <2>2
<1>4. t = s \o <<b>>
  BY <1>0, AppendIsConcat
<1>. HIDE DEF t
<1>5. t = u
  <2>1. Len(t) = Len(u) /\ \A i \in 1 .. Len(t) : t[i] = u[i]
    BY <1>2, <1>3
  <2>. QED BY <1>2, <1>3, <2>1, SeqEqual
<1>. QED BY <1>2, <1>4, <1>5 DEF s, u

\* and a third.
LEMMA TwoAndOne ==
  ASSUME NEW a \in Byte, NEW b \in Byte, NEW c \in Byte
  PROVE  <<a, b>> \o <<c>> = <<a, b, c>>
<1>. DEFINE s == <<a, b>>
            t == Append(s, c)
            u == <<a, b, c>>
<1>0. s \in Seq(Byte)
  OBVIOUS
<1>1. Len(s) = 2 /\ s[1] = a /\ s[2] = b
  OBVIOUS
<1>2. u \in Seq(Byte) /\ Len(u) = 3 /\ u[1] = a /\ u[2] = b /\ u[3] = c
  OBVIOUS
<1>. HIDE DEF s, u
<1>3. t \in Seq(Byte) /\ Len(t) = 3 /\ t[1] = a /\ t[2] = b /\ t[3] = c
  <2>1. t \in Seq(Byte) /\ Len(t) = Len(s) + 1 /\ t[Len(s) + 1] = c
        /\ \A i \in 1 .. Len(s) : t[i] = s[i]
    BY <1>0, AppendProperties
  <2>2. Len(s) + 1 = 3 /\ 1 \in 1 .. Len(s) /\ 2 \in 1 .. Len(s)
    BY <1>1
  <2>. HIDE DEF t
  <2>. QED BY <1>1, <2>1, <2>2
<1>4. t = s \o <<c>>
  BY <1>0, AppendIsConcat
<1>. HIDE DEF t
<1>5. t = u
  <2>1. Len(t) = Len(u) /\ \A i \in 1 .. Len(t) : t[i] = u[i]
    BY <1>2, <1>3
  <2>. QED BY <1>2, <1>3, <2>1, SeqEqual
<1>. QED BY <1>4, <1>5 DEF s, u

\* In every state but UTF8_REJECT there are bytes that lead to UTF8_ACCEPT.
LEMMA Completes ==
  ASSUME NEW q \in States, q # UTF8_REJECT
  PROVE  \E t \in Continuations : is_utf8_len_state(t, q) = UTF8_ACCEPT
<1>0. 128 \in Byte /\ 144 \in Byte /\ 160 \in Byte /\ 0 \in States /\ 2 \in States /\ 3 \in States
  BY DEF Byte, States
<1>1. ASSUME NEW a \in {128, 144, 160}
      PROVE  <<a>> \in Continuations
  <2>1. <<a>> \in [1 .. 1 -> {128, 144, 160}] /\ 1 \in 0 .. 3
    OBVIOUS
  <2>. QED BY <2>1 DEF Continuations
<1>2. ASSUME NEW a \in {128, 144, 160}, NEW b \in {128, 144, 160}
      PROVE  <<a, b>> \in Continuations
  <2>1. <<a, b>> \in [1 .. 2 -> {128, 144, 160}] /\ 2 \in 0 .. 3
    OBVIOUS
  <2>. QED BY <2>1 DEF Continuations
<1>3. ASSUME NEW a \in {128, 144, 160}, NEW b \in {128, 144, 160}, NEW c \in {128, 144, 160}
      PROVE  <<a, b, c>> \in Continuations
  <2>1. <<a, b, c>> \in [1 .. 3 -> {128, 144, 160}] /\ 3 \in 0 .. 3
    OBVIOUS
  <2>. QED BY <2>1 DEF Continuations
<1>4. ASSUME NEW p \in States, NEW a \in Byte, NEW b \in Byte
      PROVE  is_utf8_len_state(<<a, b>>, p) = decode(decode(p, a), b)
  <2>1. <<a>> \in Seq(Byte) /\ <<b>> \in Seq(Byte) /\ <<a>> \o <<b>> = <<a, b>>
    BY OneByte, OneAndOne
  <2>2. decode(p, a) \in States
    BY DecodeType
  <2>3. /\ is_utf8_len_state(<<a>>, p) = decode(p, a)
        /\ is_utf8_len_state(<<b>>, decode(p, a)) = decode(decode(p, a), b)
    BY <2>2, RunOne
  <2>4. is_utf8_len_state(<<a>> \o <<b>>, p) = is_utf8_len_state(<<b>>, is_utf8_len_state(<<a>>, p))
    BY <2>1, RunConcat
  <2>. QED BY <2>1, <2>3, <2>4
<1>5. ASSUME NEW p \in States, NEW a \in Byte, NEW b \in Byte, NEW c \in Byte
      PROVE  is_utf8_len_state(<<a, b, c>>, p) = decode(decode(decode(p, a), b), c)
  <2>1. <<a, b>> \in Seq(Byte) /\ <<c>> \in Seq(Byte) /\ <<a, b>> \o <<c>> = <<a, b, c>>
    BY OneByte, OneAndOne, TwoAndOne
  <2>2. decode(decode(p, a), b) \in States
    BY DecodeType
  <2>3. /\ is_utf8_len_state(<<a, b>>, p) = decode(decode(p, a), b)
        /\ is_utf8_len_state(<<c>>, decode(decode(p, a), b)) = decode(decode(decode(p, a), b), c)
    BY <1>4, <2>2, RunOne
  <2>4. is_utf8_len_state(<<a, b>> \o <<c>>, p)
          = is_utf8_len_state(<<c>>, is_utf8_len_state(<<a, b>>, p))
    BY <2>1, RunConcat
  <2>. QED BY <2>1, <2>3, <2>4
<1>6. /\ decode(2, 128) = 0 /\ decode(3, 128) = 2 /\ decode(4, 160) = 2 /\ decode(5, 128) = 2
      /\ decode(6, 144) = 3 /\ decode(7, 128) = 3 /\ decode(8, 128) = 3
  BY <1>0, DecodeTable
<1>7. /\ 3 \in States /\ 4 \in States /\ 5 \in States /\ 6 \in States /\ 7 \in States /\ 8 \in States
  BY DEF States
<1>8. CASE q = 0
  <2>1. <<>> \in Continuations
    <3>1. <<>> \in [1 .. 0 -> {128, 144, 160}] /\ 0 \in 0 .. 3
      OBVIOUS
    <3>. QED BY <3>1 DEF Continuations
  <2>. QED BY <1>0, <1>8, <2>1, RunEmpty DEF UTF8_ACCEPT
<1>9. CASE q = 2
  <2>1. is_utf8_len_state(<<128>>, 2) = 0
    BY <1>0, <1>6, RunOne
  <2>. QED BY <1>1, <1>9, <2>1 DEF UTF8_ACCEPT
<1>10. CASE q = 3
  <2>1. is_utf8_len_state(<<128, 128>>, 3) = 0
    BY <1>0, <1>4, <1>6
  <2>. QED BY <1>2, <1>10, <2>1 DEF UTF8_ACCEPT
<1>11. CASE q = 4
  <2>1. is_utf8_len_state(<<160, 128>>, 4) = 0
    BY <1>0, <1>4, <1>6, <1>7
  <2>. QED BY <1>2, <1>11, <2>1 DEF UTF8_ACCEPT
<1>12. CASE q = 5
  <2>1. is_utf8_len_state(<<128, 128>>, 5) = 0
    BY <1>0, <1>4, <1>6, <1>7
  <2>. QED BY <1>2, <1>12, <2>1 DEF UTF8_ACCEPT
<1>13. CASE q = 6
  <2>1. is_utf8_len_state(<<144, 128, 128>>, 6) = 0
    BY <1>0, <1>5, <1>6, <1>7
  <2>. QED BY <1>3, <1>13, <2>1 DEF UTF8_ACCEPT
<1>14. CASE q = 7
  <2>1. is_utf8_len_state(<<128, 128, 128>>, 7) = 0
    BY <1>0, <1>5, <1>6, <1>7
  <2>. QED BY <1>3, <1>14, <2>1 DEF UTF8_ACCEPT
<1>15. CASE q = 8
  <2>1. is_utf8_len_state(<<128, 128, 128>>, 8) = 0
    BY <1>0, <1>5, <1>6, <1>7
  <2>. QED BY <1>3, <1>15, <2>1 DEF UTF8_ACCEPT
<1>16. q = 0 \/ q = 2 \/ q = 3 \/ q = 4 \/ q = 5 \/ q = 6 \/ q = 7 \/ q = 8
  BY DEF States, UTF8_REJECT
<1>. QED BY <1>8, <1>9, <1>10, <1>11, <1>12, <1>13, <1>14, <1>15, <1>16

\* A text that is not rejected can be made well-formed,
LEMMA Completable ==
  ASSUME NEW s \in Seq(Byte), is_utf8_len_state(s, UTF8_ACCEPT) # UTF8_REJECT
  PROVE  \E t \in Continuations : WellFormed(s \o t)
<1>0. UTF8_ACCEPT \in States
  BY DEF UTF8_ACCEPT, States
<1>. DEFINE q == is_utf8_len_state(s, UTF8_ACCEPT)
<1>1. q \in States
  BY <1>0, RunType
<1>. HIDE DEF q
<1>2. PICK t \in Continuations : is_utf8_len_state(t, q) = UTF8_ACCEPT
  BY <1>1, Completes DEF q
<1>3. t \in Seq(Byte)
  BY ContinuationType
<1>4. is_utf8_len_state(s \o t, UTF8_ACCEPT) = UTF8_ACCEPT
  BY <1>0, <1>2, <1>3, RunConcat DEF q
<1>5. s \o t \in Seq(Byte)
  BY <1>3, ConcatProperties
<1>. QED BY <1>4, <1>5, AutomatonCorrect

\* and one that is rejected cannot.
LEMMA NotCompletable ==
  ASSUME NEW s \in Seq(Byte), is_utf8_len_state(s, UTF8_ACCEPT) = UTF8_REJECT,
         NEW t \in Seq(Byte)
  PROVE  ~ WellFormed(s \o t)
<1>0. UTF8_ACCEPT \in States
  BY DEF UTF8_ACCEPT, States
<1>1. is_utf8_len_state(s \o t, UTF8_ACCEPT) = UTF8_REJECT
  BY <1>0, RunConcat, RunRejected
<1>2. s \o t \in Seq(Byte)
  BY ConcatProperties
<1>3. UTF8_REJECT # UTF8_ACCEPT
  BY DEF UTF8_ACCEPT, UTF8_REJECT
<1>. QED BY <1>1, <1>2, <1>3, AutomatonCorrect

----------------------------------------------------------------------------
(* The inductive invariant *)

Received == [op : {TXT, BIN}, payload : Seq(Byte)]
Answers == [op : {PONG, CLSE}, payload : Seq(Byte)]

Types ==
  /\ repertoire \in Frames
  /\ validate \in BOOLEAN
  /\ state \in {OPEN, CLOSING, CLOSED}
  /\ caller \in {"idle", "sent", "timeout", "done"}
  /\ at \in {"header", "body", "reply", "ended", "crashed"}
  /\ seen \in {OPEN, CLOSING, CLOSED}
  /\ late \in Nat
  /\ frame_type \in {NONE, TXT, BIN}
  /\ msg \in Seq(Byte)
  /\ Len(msg) <= MAX_FRAME_LENGTH
  /\ utf8_state \in States
  /\ utf8_state # UTF8_REJECT
  /\ onmessage \in Seq(Received)
  /\ sent \in Seq(Answers)
  /\ accepted \in Seq(repertoire)
  /\ refused \in Seq(repertoire)
  /\ Len(refused) <= 1
  /\ at = "reply" => accepted # <<>>

\* Between frames the client thread holds the message that has not ended.
ReadsOpenMessage ==
  /\ msg = Text(accepted)
  /\ frame_type = Kind(accepted)
  /\ frame_type = NONE => msg = <<>>
  /\ utf8_state = IF validate /\ frame_type = TXT
                    THEN is_utf8_len_state(msg, UTF8_ACCEPT) ELSE UTF8_ACCEPT

\* What the code refuses.
Violates(f) == BadHeader(f) \/ TooLong(f) \/ BadText(f) \/ BadReason(f)

DeliveredWellFormed ==
  validate => \A i \in DOMAIN onmessage :
                onmessage[i].op = TXT => WellFormed(onmessage[i].payload)

\* A frame is refused only for that, and is the last.
RefusedForCause ==
  refused # <<>> =>
    /\ at \in {"ended", "crashed"}
    /\ \A f \in repertoire : refused = <<f>> => Violates(f)

\* A CLOSE frame that complains of a text is the last thing the thread sends, and
\* unless it repeats one of the client, the text is to blame.
InvalidTextLast ==
  CloseWith(INVUTF8) \in ToSet(sent) =>
    /\ at = "ended"
    /\ \A f \in repertoire : refused = <<f>> =>
         /\ validate
         /\ IsData(f)
         /\ TypeAfter(f) = TXT
         /\ ~ BadHeader(f)
         /\ TooLong(f) \/ BadText(f)

\* After the one late call the thread reads no frame but CLOSE while the state is
\* CLOSING.
LateOnce ==
  /\ late <= 1
  /\ late = 1 =>
       /\ state # OPEN
       /\ at = "body" => seen = CLOSING \/ state = CLOSED
       /\ at = "reply" => state = CLOSED

IInv ==
  /\ Types
  /\ ReadsOpenMessage
  /\ MessagesDelivered
  /\ PingsAnswered
  /\ DeliveredWellFormed
  /\ RefusedForCause
  /\ InvalidTextLast
  /\ LateOnce

\* What the client sends are frames.
LEMMA FramesAre ==
  ASSUME Types
  PROVE  (\A f \in repertoire : f \in Frame) /\ accepted \in Seq(Frame)
<1>1. repertoire \subseteq Frame
  BY FramesAssumption DEF Types
<1>2. accepted \in Seq(repertoire)
  BY DEF Types
<1>. QED BY <1>1, <1>2, SeqMonotonic

\* The type of the message a data frame that is not refused belongs to.
LEMMA GoodData ==
  ASSUME IInv, NEW f \in Frame, IsData(f), ~ BadHeader(f)
  PROVE  /\ TypeAfter(f) = IF frame_type # NONE THEN frame_type ELSE f.op
         /\ TypeAfter(f) \in {TXT, BIN}
         /\ TypeAfter(f) # NONE
         /\ f.op = CONT => frame_type \in {TXT, BIN}
         /\ f.op # CONT => frame_type = NONE /\ msg = <<>> /\ utf8_state = UTF8_ACCEPT
<1>1. f.op \in {CONT, TXT, BIN} /\ frame_type \in {NONE, TXT, BIN}
  BY DEF IsData, IInv, Types
<1>2. frame_type = NONE => f.op # CONT
  BY DEF BadHeader
<1>3. frame_type # NONE => f.op = CONT
  BY <1>1 DEF BadHeader, is_control_frame, CONT, TXT, BIN, CLSE, PING, PONG
<1>4. NONE \notin {TXT, BIN}
  BY DEF NONE, TXT, BIN
<1>5. frame_type = NONE => msg = <<>> /\ utf8_state = UTF8_ACCEPT
  <2>1. NONE # TXT
    BY DEF NONE, TXT
  <2>. QED BY <2>1 DEF IInv, ReadsOpenMessage
<1>. QED BY <1>1, <1>2, <1>3, <1>4, <1>5 DEF TypeAfter

\* With VALIDATE_UTF8 the state after a frame is that after the whole text.
LEMMA StateOfText ==
  ASSUME IInv, validate, NEW f \in Frame, IsData(f), ~ BadHeader(f), TypeAfter(f) = TXT
  PROVE  Utf8After(f) = is_utf8_len_state(msg \o f.payload, UTF8_ACCEPT)
<1>1. f.payload \in Seq(Byte) /\ msg \in Seq(Byte) /\ UTF8_ACCEPT \in States
  BY DEF Frame, IInv, Types, UTF8_ACCEPT, States
<1>2. CASE f.op = CONT
  <2>1. frame_type = TXT
    BY <1>2 DEF TypeAfter
  <2>2. utf8_state = is_utf8_len_state(msg, UTF8_ACCEPT)
    BY <2>1 DEF IInv, ReadsOpenMessage
  <2>. QED BY <1>1, <2>2, RunConcat DEF Utf8After
<1>3. CASE f.op # CONT
  <2>1. msg = <<>> /\ utf8_state = UTF8_ACCEPT
    BY <1>3, GoodData
  <2>2. <<>> \o f.payload = f.payload
    BY <1>1, ConcatEmptySeq
  <2>. QED BY <2>1, <2>2 DEF Utf8After
<1>. QED BY <1>2, <1>3

\* A text that is refused is not well-formed.
LEMMA RefusedText ==
  ASSUME IInv, NEW f \in Frame, ~ BadHeader(f), BadText(f)
  PROVE  /\ ~ WellFormed(msg \o f.payload)
         /\ ~ f.fin => \A t \in Seq(Byte) : ~ WellFormed((msg \o f.payload) \o t)
<1>1. validate /\ IsData(f) /\ TypeAfter(f) = TXT
  BY DEF BadText
<1>. DEFINE u == msg \o f.payload
<1>2. u \in Seq(Byte)
  <2>1. f.payload \in Seq(Byte) /\ msg \in Seq(Byte)
    BY DEF Frame, IInv, Types
  <2>. QED BY <2>1, ConcatProperties
<1>3. Utf8After(f) = is_utf8_len_state(u, UTF8_ACCEPT)
  BY <1>1, StateOfText
<1>. HIDE DEF u
<1>4. UTF8_REJECT # UTF8_ACCEPT
  BY DEF UTF8_ACCEPT, UTF8_REJECT
<1>5. Utf8After(f) # UTF8_ACCEPT
  BY <1>4 DEF BadText
<1>6. ~ f.fin => Utf8After(f) = UTF8_REJECT
  BY DEF BadText
<1>7. ~ WellFormed(u)
  BY <1>2, <1>3, <1>5, AutomatonCorrect
<1>8. ~ f.fin => \A t \in Seq(Byte) : ~ WellFormed(u \o t)
  BY <1>2, <1>3, <1>6, NotCompletable
<1>. QED BY <1>7, <1>8 DEF u

\* The reason of a CLOSE frame that is refused is not well-formed.
LEMMA RefusedReason ==
  ASSUME NEW f \in Frame, BadReason(f)
  PROVE  ~ WellFormed(SubSeq(f.payload, 3, Len(f.payload)))
<1>1. f.payload \in Seq(Byte)
  BY DEF Frame
<1>2. SubSeq(f.payload, 3, Len(f.payload)) \in Seq(Byte)
  <2>1. Len(f.payload) \in Nat
    BY <1>1, LenProperties
  <2>2. \A i \in 3 .. Len(f.payload) : f.payload[i] \in Byte
    BY <1>1, <2>1, ElementOfSeq
  <2>. QED BY <2>1, <2>2, SubSeqProperties
<1>. QED BY <1>2, AutomatonCorrect DEF BadReason

----------------------------------------------------------------------------
(* What the steps keep *)

\* What a frame is refused for depends on what the client thread has read.
LEMMA CauseKept ==
  ASSUME UNCHANGED <<validate, seen, wfd>>, NEW f
  PROVE  /\ TypeAfter(f)' = TypeAfter(f)
         /\ BadHeader(f)' <=> BadHeader(f)
         /\ TooLong(f)' <=> TooLong(f)
         /\ BadText(f)' <=> BadText(f)
         /\ BadReason(f)' <=> BadReason(f)
<1>1. validate' = validate /\ seen' = seen /\ frame_type' = frame_type /\ msg' = msg
      /\ utf8_state' = utf8_state
  BY DEF wfd
<1>2. TypeAfter(f)' = TypeAfter(f) /\ Utf8After(f)' = Utf8After(f)
  BY <1>1 DEF TypeAfter, Utf8After
<1>3. BadHeader(f)' <=> BadHeader(f)
  BY <1>1 DEF BadHeader
<1>4. TooLong(f)' <=> TooLong(f)
  BY <1>1 DEF TooLong
<1>5. BadText(f)' <=> BadText(f)
  BY <1>1, <1>2 DEF BadText
<1>6. BadReason(f)' <=> BadReason(f)
  BY <1>1 DEF BadReason
<1>. QED BY <1>2, <1>3, <1>4, <1>5, <1>6

\* The message that has not ended is kept with the frames it is of.
LEMMA ReadingKept ==
  ASSUME IInv, UNCHANGED <<validate, wfd, accepted>>
  PROVE  ReadsOpenMessage'
BY DEF IInv, ReadsOpenMessage, wfd

\* No message ends unless a data frame with fin is accepted.
LEMMA DeliveredKept ==
  ASSUME IInv, UNCHANGED onmessage,
         \/ UNCHANGED accepted
         \/ \E f \in Frame : ~ (IsData(f) /\ f.fin) /\ accepted' = Append(accepted, f)
  PROVE  MessagesDelivered'
<1>1. CASE UNCHANGED accepted
  BY <1>1 DEF IInv, MessagesDelivered
<1>2. ASSUME NEW f \in Frame, ~ (IsData(f) /\ f.fin), accepted' = Append(accepted, f)
      PROVE  MessagesDelivered'
  <2>1. accepted \in Seq(Frame)
    BY FramesAre DEF IInv
  <2>2. Ends(Append(accepted, f)) = Ends(accepted) /\ Ends(accepted) \subseteq 1 .. Len(accepted)
    BY <1>2, <2>1, EndsAppend
  <2>3. \A e \in Ends(accepted) : EndedBy(Append(accepted, f), e) = EndedBy(accepted, e)
    BY <2>1, <2>2, EndedByKept
  <2>4. /\ Len(onmessage) = Cardinality(Ends(accepted))
        /\ \A i \in Ends(accepted) : onmessage[Rank(Ends(accepted), i)] = EndedBy(accepted, i)
    BY DEF IInv, MessagesDelivered
  <2>. QED BY <1>2, <2>2, <2>3, <2>4 DEF MessagesDelivered
<1>. QED BY <1>1, <1>2

\* The positions of the frames with one opcode.
LEMMA WithAppend ==
  ASSUME NEW S, NEW s \in Seq(S), NEW x \in S, NEW op
  PROVE  /\ Len(s) \in Nat
         /\ With(s, op) \in SUBSET (1 .. Len(s))
         /\ x.op = op => With(Append(s, x), op) = With(s, op) \cup {Len(s) + 1}
         /\ x.op # op => With(Append(s, x), op) = With(s, op)
<1>. DEFINE t == Append(s, x)
            n == Len(s)
<1>1. /\ n \in Nat /\ DOMAIN s = 1 .. n /\ DOMAIN t = 1 .. n + 1 /\ t[n + 1] = x
      /\ \A i \in 1 .. n : t[i] = s[i]
  BY Appended
<1>. HIDE DEF n, t
<1>2. \A i : i \in With(s, op) <=> i \in 1 .. n /\ s[i].op = op
  BY <1>1 DEF With
<1>3. \A i : i \in With(t, op) <=> i \in 1 .. n + 1 /\ t[i].op = op
  BY <1>1 DEF With
<1>4. \A i : i \in 1 .. n + 1 <=> i \in 1 .. n \/ i = n + 1
  BY <1>1
<1>5. \A i \in 1 .. n : i \in With(t, op) <=> i \in With(s, op)
  BY <1>1, <1>2, <1>3, <1>4
<1>6. n + 1 \in With(t, op) <=> x.op = op
  BY <1>1, <1>3, <1>4
<1>7. With(s, op) \in SUBSET (1 .. n) /\ With(t, op) \in SUBSET (1 .. n + 1)
  BY <1>2, <1>3
<1>. QED BY <1>1, <1>4, <1>5, <1>6, <1>7 DEF n, t

\* PINGs stay answered unless a PING is accepted or a PONG sent.
LEMMA PingsKept ==
  ASSUME IInv, at = "ended" => at' = "ended",
         \/ UNCHANGED accepted
         \/ \E f \in Frame : f.op # PING /\ accepted' = Append(accepted, f),
         \/ UNCHANGED sent
         \/ \E x \in Answers : x.op # PONG /\ sent' = Append(sent, x)
  PROVE  PingsAnswered'
<1>. DEFINE P == With(accepted, PING)
            Q == With(sent, PONG)
            p == accepted'
            q == sent'
<1>0. accepted \in Seq(Frame) /\ sent \in Seq(Answers)
  BY FramesAre DEF IInv, Types
<1>1. With(p, PING) = P /\ \A i \in P : p[i] = accepted[i]
  <2>1. CASE UNCHANGED accepted
    BY <2>1
  <2>2. ASSUME NEW f \in Frame, f.op # PING, accepted' = Append(accepted, f)
        PROVE  With(p, PING) = P /\ \A i \in P : p[i] = accepted[i]
    <3>1. With(Append(accepted, f), PING) = P /\ P \in SUBSET (1 .. Len(accepted))
      BY <1>0, <2>2, WithAppend
    <3>2. \A i \in 1 .. Len(accepted) : Append(accepted, f)[i] = accepted[i]
      BY <1>0, Appended
    <3>. HIDE DEF P
    <3>. QED BY <2>2, <3>1, <3>2
  <2>. QED BY <2>1, <2>2
<1>2. With(q, PONG) = Q /\ \A j \in Q : q[j] = sent[j]
  <2>1. CASE UNCHANGED sent
    BY <2>1
  <2>2. ASSUME NEW x \in Answers, x.op # PONG, sent' = Append(sent, x)
        PROVE  With(q, PONG) = Q /\ \A j \in Q : q[j] = sent[j]
    <3>1. With(Append(sent, x), PONG) = Q /\ Q \in SUBSET (1 .. Len(sent))
      BY <1>0, <2>2, WithAppend
    <3>2. \A i \in 1 .. Len(sent) : Append(sent, x)[i] = sent[i]
      BY <1>0, Appended
    <3>. HIDE DEF Q
    <3>. QED BY <2>2, <3>1, <3>2
  <2>. QED BY <2>1, <2>2
<1>3. /\ Cardinality(Q) = Cardinality(P) \/ (at = "ended" /\ Cardinality(Q) = Cardinality(P) - 1)
      /\ \A i \in P, j \in Q : Rank(P, i) = Rank(Q, j) => sent[j].payload = accepted[i].payload
  BY DEF IInv, PingsAnswered
<1>. HIDE DEF P, Q
<1>4. \A i \in P, j \in Q : Rank(P, i) = Rank(Q, j) => q[j].payload = p[i].payload
  BY <1>1, <1>2, <1>3
<1>. QED BY <1>1, <1>2, <1>3, <1>4 DEF PingsAnswered

\* A sequence of answers and one more.
LEMMA SetAppend ==
  ASSUME NEW S, NEW s \in Seq(S), NEW x \in S
  PROVE  ToSet(Append(s, x)) = ToSet(s) \cup {x}
<1>. DEFINE t == Append(s, x)
            n == Len(s)
<1>1. /\ n \in Nat /\ DOMAIN s = 1 .. n /\ DOMAIN t = 1 .. n + 1 /\ t[n + 1] = x
      /\ \A i \in 1 .. n : t[i] = s[i]
  BY Appended
<1>. HIDE DEF n, t
<1>2. \A i : i \in 1 .. n + 1 <=> i \in 1 .. n \/ i = n + 1
  BY <1>1
<1>3. \A y : y \in ToSet(s) <=> \E i \in 1 .. n : y = s[i]
  BY <1>1 DEF ToSet
<1>4. \A y : y \in ToSet(t) <=> \E i \in 1 .. n + 1 : y = t[i]
  BY <1>1 DEF ToSet
<1>5. \A y : y \in ToSet(t) <=> y \in ToSet(s) \/ y = x
  BY <1>1, <1>2, <1>3, <1>4
<1>6. ToSet(t) = ToSet(s) \cup {x}
  BY <1>5
<1>. QED BY <1>6 DEF t

\* The CLOSE frames of the server, and the one that complains of a text.
LEMMA CloseFrames ==
  /\ CloseWith(NORMAL) \in Answers /\ CloseWith(PROTERR) \in Answers /\ CloseWith(INVUTF8) \in Answers
  /\ CloseWith(NORMAL).op = CLSE /\ CloseWith(PROTERR).op = CLSE /\ CloseWith(INVUTF8).op = CLSE
  /\ CloseWith(NORMAL) # CloseWith(INVUTF8)
  /\ CLSE # PONG /\ CLSE # PING /\ PING # PONG /\ ~ (CLSE \in {TXT, BIN, CONT})
<1>1. /\ 1000 \div 256 = 3 /\ 1000 % 256 = 232
      /\ 1002 \div 256 = 3 /\ 1002 % 256 = 234
      /\ 1007 \div 256 = 3 /\ 1007 % 256 = 239
  OBVIOUS
<1>2. /\ CloseWith(NORMAL) = [op |-> CLSE, payload |-> <<3, 232>>]
      /\ CloseWith(PROTERR) = [op |-> CLSE, payload |-> <<3, 234>>]
      /\ CloseWith(INVUTF8) = [op |-> CLSE, payload |-> <<3, 239>>]
  BY <1>1 DEF CloseWith, Reply, NORMAL, PROTERR, INVUTF8
<1>3. <<3, 232>> \in Seq(Byte) /\ <<3, 234>> \in Seq(Byte) /\ <<3, 239>> \in Seq(Byte)
  <2>1. 3 \in Byte /\ 232 \in Byte /\ 234 \in Byte /\ 239 \in Byte
    BY DEF Byte
  <2>. QED BY <2>1, OneAndOne
<1>4. <<3, 232>> # <<3, 239>>
  <2>1. <<3, 232>>[2] = 232 /\ <<3, 239>>[2] = 239
    OBVIOUS
  <2>. QED BY <2>1
<1>5. CLSE # PONG /\ CLSE # PING /\ PING # PONG /\ ~ (CLSE \in {TXT, BIN, CONT})
  BY DEF CLSE, PONG, PING, TXT, BIN, CONT
<1>6. CloseWith(NORMAL) # CloseWith(INVUTF8)
  <2>1. CloseWith(NORMAL).payload # CloseWith(INVUTF8).payload
    BY <1>2, <1>4
  <2>. QED BY <2>1
<1>. QED BY <1>2, <1>3, <1>5, <1>6 DEF Answers

\* While the client thread reads, no frame has been refused, and no CLOSE frame
\* that complains of a text has been sent.
LEMMA Reading ==
  ASSUME IInv, at \notin {"ended", "crashed"}
  PROVE  refused = <<>> /\ CloseWith(INVUTF8) \notin ToSet(sent)
BY DEF IInv, RefusedForCause, InvalidTextLast

\* What else is sent is no such complaint.
LEMMA QuietKept ==
  ASSUME IInv, CloseWith(INVUTF8) \notin ToSet(sent),
         \/ UNCHANGED sent
         \/ \E x \in Answers : x # CloseWith(INVUTF8) /\ sent' = Append(sent, x)
  PROVE  InvalidTextLast'
<1>1. CloseWith(INVUTF8)' = CloseWith(INVUTF8)
  BY DEF CloseWith, Reply
<1>2. CloseWith(INVUTF8) \notin ToSet(sent')
  <2>1. ASSUME NEW x \in Answers, x # CloseWith(INVUTF8), sent' = Append(sent, x)
        PROVE  CloseWith(INVUTF8) \notin ToSet(sent')
    <3>1. ToSet(sent') = ToSet(sent) \cup {x}
      BY <2>1, SetAppend DEF IInv, Types
    <3>. QED BY <2>1, <3>1
  <2>. QED BY <2>1
<1>. QED BY <1>1, <1>2 DEF InvalidTextLast

\* A send that does not fail appends a frame.
LEMMA SendsAnswer ==
  ASSUME IInv, NEW x \in Answers, Sends(x)
  PROVE  /\ sent' \in Seq(Answers) /\ late' \in Nat
         /\ \/ UNCHANGED <<sent, late>>
            \/ sent' = Append(sent, x) /\ sent' # sent /\ Outputs /\ state # CLOSED
<1>1. sent \in Seq(Answers) /\ late \in Nat
  BY DEF IInv, Types
<1>2. Append(sent, x) \in Seq(Answers) /\ Append(sent, x) # sent
  <2>1. /\ Append(sent, x) \in Seq(Answers)
        /\ Len(Append(sent, x)) = Len(sent) + 1 /\ Len(sent) \in Nat
    BY <1>1, Appended
  <2>. QED BY <2>1
<1>3. CASE UNCHANGED <<sent, late>>
  BY <1>1, <1>3
<1>4. CASE state # CLOSED /\ sent' = Append(sent, x) /\ Outputs
  <2>1. late' \in Nat
    BY <1>1, <1>4 DEF Outputs
  <2>. QED BY <1>2, <1>4, <2>1
<1>. QED BY <1>3, <1>4 DEF Sends

\* The client thread is late only with the frame it was reading.
LEMMA LateKept ==
  ASSUME IInv, at = "body", UNCHANGED state, at' \in {"header", "ended", "crashed"},
         \/ UNCHANGED late
         \/ Outputs /\ \E f \in repertoire : ~ BadHeader(f) /\ f.op # CLSE
  PROVE  LateOnce'
<1>1. /\ late \in Nat /\ late <= 1
      /\ late = 1 => state # OPEN /\ (seen = CLOSING \/ state = CLOSED)
  BY DEF IInv, Types, LateOnce
<1>2. CASE UNCHANGED late
  BY <1>1, <1>2 DEF LateOnce
<1>3. CASE Outputs /\ \E f \in repertoire : ~ BadHeader(f) /\ f.op # CLSE
  <2>1. seen # CLOSING
    BY <1>3 DEF BadHeader
  <2>2. late' = IF state = CLOSING THEN late + 1 ELSE late
    BY <1>3 DEF Outputs
  <2>3. CLOSING # CLOSED /\ CLOSING # OPEN
    BY DEF OPEN, CLOSING, CLOSED
  <2>. QED BY <1>1, <2>1, <2>2, <2>3 DEF LateOnce
<1>. QED BY <1>2, <1>3

\* A frame that is accepted is the next, and has none of the faults.
LEMMA AcceptedFrame ==
  ASSUME IInv, NEW f \in repertoire, Accepts(f)
  PROVE  /\ f \in Frame /\ accepted \in Seq(Frame) /\ accepted' = Append(accepted, f)
         /\ accepted' \in Seq(repertoire)
         /\ at = "body" /\ refused = <<>> /\ CloseWith(INVUTF8) \notin ToSet(sent)
         /\ ~ BadHeader(f) /\ ~ TooLong(f) /\ ~ BadText(f) /\ ~ BadReason(f)
<1>1. f \in Frame /\ accepted \in Seq(Frame)
  BY FramesAre DEF IInv
<1>2. accepted' = Append(accepted, f)
  BY DEF Accepts
<1>3. accepted' \in Seq(repertoire)
  <2>1. accepted \in Seq(repertoire)
    BY DEF IInv, Types
  <2>. QED BY <1>2, <2>1, AppendProperties
<1>4. at = "body"
  BY DEF Accepts, Reads
<1>5. refused = <<>> /\ CloseWith(INVUTF8) \notin ToSet(sent)
  BY <1>4, Reading
<1>6. ~ BadHeader(f) /\ ~ TooLong(f) /\ ~ BadText(f) /\ ~ BadReason(f)
  BY DEF Accepts
<1>. QED BY <1>1, <1>2, <1>3, <1>4, <1>5, <1>6

\* The message grows by the frame, unless that ends it.
LEMMA Grows ==
  ASSUME IInv, NEW f \in Frame, IsData(f), ~ BadHeader(f)
  PROVE  /\ Text(Append(accepted, f)) = IF f.fin THEN <<>> ELSE msg \o f.payload
         /\ Kind(Append(accepted, f)) = IF f.fin THEN NONE ELSE TypeAfter(f)
         /\ msg \o f.payload \in Seq(Byte)
         /\ Len(msg \o f.payload) = Len(msg) + Len(f.payload)
<1>1. accepted \in Seq(Frame)
  BY FramesAre DEF IInv
<1>2. msg = Text(accepted) /\ frame_type = Kind(accepted)
  BY DEF IInv, ReadsOpenMessage
<1>3. TypeAfter(f) = IF frame_type # NONE THEN frame_type ELSE f.op
  BY GoodData
<1>4. f.payload \in Seq(Byte) /\ msg \in Seq(Byte)
  BY DEF Frame, IInv, Types
<1>5. msg \o f.payload \in Seq(Byte) /\ Len(msg \o f.payload) = Len(msg) + Len(f.payload)
  BY <1>4, ConcatProperties
<1>6. Text(Append(accepted, f)) = IF f.fin THEN <<>> ELSE msg \o f.payload
  <2>1. Text(Append(accepted, f)) = IF f.fin THEN <<>> ELSE Text(accepted) \o DataOf(f)
    BY <1>1, AfterFrame
  <2>. QED BY <1>2, <2>1 DEF DataOf
<1>7. Kind(Append(accepted, f)) = IF f.fin THEN NONE ELSE TypeAfter(f)
  <2>1. Kind(Append(accepted, f)) =
          IF f.fin THEN NONE ELSE IF Kind(accepted) # NONE THEN Kind(accepted) ELSE f.op
    BY <1>1, AfterFrame
  <2>. QED BY <1>2, <1>3, <2>1
<1>. QED BY <1>5, <1>6, <1>7

\* A control frame leaves it.
LEMMA Stays ==
  ASSUME IInv, NEW f \in Frame, ~ IsData(f)
  PROVE  Text(Append(accepted, f)) = msg /\ Kind(Append(accepted, f)) = frame_type
<1>1. accepted \in Seq(Frame)
  BY FramesAre DEF IInv
<1>2. msg = Text(accepted) /\ frame_type = Kind(accepted) /\ msg \in Seq(Byte)
  BY DEF IInv, Types, ReadsOpenMessage
<1>3. /\ Text(Append(accepted, f)) = Text(accepted) \o DataOf(f)
      /\ Kind(Append(accepted, f)) = IF Kind(accepted) # NONE THEN Kind(accepted) ELSE NONE
  BY <1>1, AfterFrame
<1>4. DataOf(f) = <<>> /\ msg \o <<>> = msg
  BY <1>2, ConcatEmptySeq DEF DataOf
<1>. QED BY <1>2, <1>3, <1>4

----------------------------------------------------------------------------
(* The initial states *)

\* Nothing has been read, delivered or sent.
LEMMA InitInv == Init => IInv
<1>. SUFFICES ASSUME Init PROVE IInv
  OBVIOUS
<1>1. Text(<<>>) = <<>> /\ Kind(<<>>) = NONE /\ Ends(<<>>) = {}
  BY NoFrames
<1>2. Cardinality({}) = 0
  BY FS_EmptySet
<1>3. Types
  <2>1. UTF8_ACCEPT \in States /\ UTF8_ACCEPT # UTF8_REJECT
    BY DEF UTF8_ACCEPT, UTF8_REJECT, States
  <2>2. Len(<<>>) = 0 /\ 0 <= MAX_FRAME_LENGTH
    BY LimitsAssumption
  <2>. QED BY <2>1, <2>2 DEF Init, Types
<1>4. ReadsOpenMessage
  <2>1. NONE # TXT
    BY DEF NONE, TXT
  <2>. QED BY <1>1, <2>1 DEF Init, ReadsOpenMessage
<1>5. MessagesDelivered
  <2>1. Len(<<>>) = 0
    OBVIOUS
  <2>. QED BY <1>1, <1>2, <2>1 DEF Init, MessagesDelivered
<1>6. PingsAnswered
  <2>1. With(<<>>, PING) = {} /\ With(<<>>, PONG) = {}
    BY DEF With
  <2>. QED BY <1>2, <2>1 DEF Init, PingsAnswered
<1>7. DeliveredWellFormed
  BY DEF Init, DeliveredWellFormed
<1>8. RefusedForCause
  BY DEF Init, RefusedForCause
<1>9. InvalidTextLast
  BY DEF Init, InvalidTextLast, ToSet
<1>10. LateOnce
  BY DEF Init, LateOnce
<1>. QED BY <1>3, <1>4, <1>5, <1>6, <1>7, <1>8, <1>9, <1>10 DEF IInv

----------------------------------------------------------------------------
(* The steps *)

\* A frame is refused.
LEMMA RefuseStep ==
  ASSUME IInv, NEW f \in repertoire, RefuseFrame(f)
  PROVE  IInv'
<1>1. Refuse(f)
  BY DEF RefuseFrame, RefuseHeader, RefuseTooLong, RefuseText, RefuseReason
<1>2. /\ at = "body" /\ at' \in {"ended", "crashed"} /\ refused' = <<f>>
      /\ UNCHANGED <<build, caller, state, seen, wfd, onmessage, accepted>>
  <2>1. at' \in {"ended", "crashed"}
    BY DEF RefuseFrame, RefuseHeader, RefuseTooLong, RefuseText, RefuseReason,
           EndsQuietly, EndsWith, Crashes
  <2>. QED BY <1>1, <2>1 DEF Refuse, Reads
<1>3. UNCHANGED <<repertoire, validate, frame_type, msg, utf8_state>>
  BY <1>2 DEF build, wfd
<1>4. refused = <<>> /\ CloseWith(INVUTF8) \notin ToSet(sent)
  BY <1>2, Reading
<1>5. Violates(f)
  BY DEF RefuseFrame, RefuseHeader, RefuseTooLong, RefuseText, RefuseReason, Violates
<1>6. \/ UNCHANGED <<sent, late>>
      \/ /\ validate /\ IsData(f) /\ TypeAfter(f) = TXT /\ ~ BadHeader(f)
         /\ TooLong(f) \/ BadText(f)
         /\ at' = "ended"
         /\ Sends(CloseWith(INVUTF8))
  <2>1. CASE RefuseHeader(f) \/ RefuseReason(f)
    BY <2>1 DEF RefuseHeader, RefuseReason, EndsQuietly
  <2>2. CASE RefuseTooLong(f)
    BY <2>2 DEF RefuseTooLong, EndsQuietly, EndsWith, Crashes, TooLong
  <2>3. CASE RefuseText(f)
    BY <2>3 DEF RefuseText, EndsWith, BadText
  <2>. QED BY <2>1, <2>2, <2>3 DEF RefuseFrame
<1>. DEFINE Complains == /\ validate /\ IsData(f) /\ TypeAfter(f) = TXT /\ ~ BadHeader(f)
                         /\ TooLong(f) \/ BadText(f)
<1>7. CloseWith(INVUTF8) \in Answers /\ CloseWith(INVUTF8).op = CLSE /\ CLSE # PONG
  BY CloseFrames
<1>8. \/ UNCHANGED <<sent, late>>
      \/ /\ Complains /\ at' = "ended"
         /\ sent' = Append(sent, CloseWith(INVUTF8)) /\ Outputs
  BY <1>6, <1>7, SendsAnswer
<1>9. sent' \in Seq(Answers) /\ late' \in Nat
  <2>1. sent \in Seq(Answers) /\ late \in Nat
    BY DEF IInv, Types
  <2>. QED BY <1>6, <1>7, <2>1, SendsAnswer
<1>10. \A g : refused' = <<g>> <=> g = f
  <2>1. \A g, h : <<g>> = <<h>> <=> g = h
    OBVIOUS
  <2>. QED BY <1>2, <2>1
<1>11. /\ TypeAfter(f)' = TypeAfter(f)
       /\ BadHeader(f)' <=> BadHeader(f)
       /\ TooLong(f)' <=> TooLong(f)
       /\ BadText(f)' <=> BadText(f)
       /\ BadReason(f)' <=> BadReason(f)
  BY <1>2, <1>3, CauseKept
<1>12. Types'
  <2>1. refused' \in Seq(repertoire) /\ Len(refused') <= 1
    BY <1>2
  <2>. QED BY <1>2, <1>3, <1>9, <2>1 DEF IInv, Types
<1>13. ReadsOpenMessage'
  BY <1>2, <1>3, ReadingKept
<1>14. MessagesDelivered'
  BY <1>2, DeliveredKept
<1>15. PingsAnswered'
  BY <1>2, <1>7, <1>8, PingsKept
<1>16. DeliveredWellFormed'
  BY <1>2, <1>3 DEF IInv, DeliveredWellFormed
<1>17. RefusedForCause'
  <2>1. \A g \in repertoire' : refused' = <<g>> => Violates(g)'
    BY <1>5, <1>10, <1>11 DEF Violates
  <2>. QED BY <1>2, <2>1 DEF RefusedForCause
<1>18. InvalidTextLast'
  <2>1. CASE UNCHANGED sent
    BY <1>4, <2>1, QuietKept
  <2>2. CASE Complains /\ at' = "ended"
    BY <1>2, <1>3, <1>10, <1>11, <2>2 DEF InvalidTextLast
  <2>. QED BY <1>8, <2>1, <2>2
<1>19. LateOnce'
  <2>1. Complains => f.op # CLSE
    BY CloseFrames DEF IsData
  <2>. QED BY <1>2, <1>8, <2>1, LateKept
<1>. QED BY <1>12, <1>13, <1>14, <1>15, <1>16, <1>17, <1>18, <1>19 DEF IInv

\* A data frame does not end its message.
LEMMA FragmentStep ==
  ASSUME IInv, NEW f \in repertoire, Fragment(f)
  PROVE  IInv'
<1>1. IsData(f) /\ ~ f.fin /\ Accepts(f)
  BY DEF Fragment
<1>2. /\ f \in Frame /\ accepted \in Seq(Frame) /\ accepted' = Append(accepted, f)
      /\ accepted' \in Seq(repertoire)
      /\ at = "body" /\ refused = <<>> /\ CloseWith(INVUTF8) \notin ToSet(sent)
      /\ ~ BadHeader(f) /\ ~ TooLong(f) /\ ~ BadText(f) /\ ~ BadReason(f)
  BY <1>1, AcceptedFrame
<1>3. /\ UNCHANGED <<repertoire, validate, caller, state, seen, refused, late, onmessage, sent>>
      /\ at' = "header"
  BY DEF Fragment, Loops, build
<1>4. /\ frame_type' = TypeAfter(f)
      /\ msg' = msg \o f.payload
      /\ utf8_state' = IF validate /\ TypeAfter(f) = TXT THEN Utf8After(f) ELSE utf8_state
  BY DEF Fragment
<1>5. /\ Text(accepted') = msg' /\ Kind(accepted') = frame_type'
      /\ msg' \in Seq(Byte) /\ Len(msg') <= MAX_FRAME_LENGTH
  <2>1. ~ (Len(msg) + Len(f.payload) > MAX_FRAME_LENGTH)
    BY <1>1, <1>2 DEF TooLong
  <2>2. Len(msg) \in Nat /\ Len(f.payload) \in Nat /\ MAX_FRAME_LENGTH \in Nat
    BY <1>2, LimitsAssumption, LenProperties DEF IInv, Types, Frame
  <2>. QED BY <1>1, <1>2, <1>4, <2>1, <2>2, Grows
<1>6. frame_type' \in {TXT, BIN} /\ frame_type' # NONE
  BY <1>1, <1>2, <1>4, GoodData
<1>7. utf8_state' = IF validate /\ frame_type' = TXT
                      THEN is_utf8_len_state(msg', UTF8_ACCEPT) ELSE UTF8_ACCEPT
  <2>1. CASE validate /\ TypeAfter(f) = TXT
    BY <1>1, <1>2, <1>4, <2>1, StateOfText
  <2>2. CASE ~ (validate /\ TypeAfter(f) = TXT)
    <3>1. utf8_state' = utf8_state
      BY <1>4, <2>2
    <3>2. ~ (validate /\ frame_type = TXT)
      <4>1. frame_type = TXT => TypeAfter(f) = TXT
        <5>1. NONE # TXT
          BY DEF NONE, TXT
        <5>. QED BY <1>1, <1>2, <5>1, GoodData
      <4>. QED BY <2>2, <4>1
    <3>. QED BY <1>4, <2>2, <3>1, <3>2 DEF IInv, ReadsOpenMessage
  <2>. QED BY <2>1, <2>2
<1>8. utf8_state' \in States /\ utf8_state' # UTF8_REJECT
  <2>1. UTF8_ACCEPT \in States /\ UTF8_ACCEPT # UTF8_REJECT
    BY DEF UTF8_ACCEPT, UTF8_REJECT, States
  <2>2. is_utf8_len_state(msg', UTF8_ACCEPT) \in States
    BY <1>5, <2>1, RunType
  <2>3. CASE validate /\ TypeAfter(f) = TXT
    <3>1. Utf8After(f) # UTF8_REJECT
      BY <1>1, <1>2, <2>3 DEF BadText
    <3>. QED BY <1>4, <1>7, <2>2, <2>3, <3>1
  <2>4. CASE ~ (validate /\ TypeAfter(f) = TXT)
    BY <1>4, <1>7, <2>1, <2>4
  <2>. QED BY <2>3, <2>4
<1>9. Types'
  <2>1. utf8_state' \in States /\ utf8_state' # UTF8_REJECT
    BY <1>8
  <2>2. frame_type' \in {NONE, TXT, BIN} /\ msg' \in Seq(Byte) /\ Len(msg') <= MAX_FRAME_LENGTH
    BY <1>5, <1>6
  <2>. QED BY <1>2, <1>3, <2>1, <2>2 DEF IInv, Types
<1>10. ReadsOpenMessage'
  BY <1>3, <1>5, <1>6, <1>7 DEF ReadsOpenMessage
<1>11. MessagesDelivered'
  BY <1>1, <1>2, <1>3, DeliveredKept
<1>12. PingsAnswered'
  <2>1. f.op # PING
    BY <1>1 DEF IsData, TXT, BIN, CONT, PING
  <2>. QED BY <1>2, <1>3, <2>1, PingsKept
<1>13. DeliveredWellFormed'
  BY <1>3 DEF IInv, DeliveredWellFormed
<1>14. RefusedForCause'
  BY <1>2, <1>3 DEF RefusedForCause
<1>15. InvalidTextLast'
  BY <1>2, <1>3, QuietKept
<1>16. LateOnce'
  BY <1>2, <1>3, LateKept
<1>. QED BY <1>9, <1>10, <1>11, <1>12, <1>13, <1>14, <1>15, <1>16 DEF IInv

\* A data frame ends its message.
LEMMA MessageStep ==
  ASSUME IInv, NEW f \in repertoire, Message(f)
  PROVE  IInv'
<1>. DEFINE type == TypeAfter(f)
            text == msg \o f.payload
            m == [op |-> type, payload |-> text]
<1>1. IsData(f) /\ f.fin /\ Accepts(f)
  BY DEF Message
<1>2. /\ f \in Frame /\ accepted \in Seq(Frame) /\ accepted' = Append(accepted, f)
      /\ accepted' \in Seq(repertoire)
      /\ at = "body" /\ refused = <<>> /\ CloseWith(INVUTF8) \notin ToSet(sent)
      /\ ~ BadHeader(f) /\ ~ TooLong(f) /\ ~ BadText(f) /\ ~ BadReason(f)
  BY <1>1, AcceptedFrame
<1>3. /\ UNCHANGED <<repertoire, validate, caller, state, seen, refused, sent>>
      /\ at' = "header"
  BY DEF Message, Loops, build
<1>4. /\ frame_type' = NONE /\ msg' = <<>> /\ utf8_state' = UTF8_ACCEPT /\ Outputs
      /\ onmessage' = Append(onmessage, m)
  BY DEF Message
<1>5. /\ Text(accepted') = <<>> /\ Kind(accepted') = NONE
      /\ text \in Seq(Byte)
  BY <1>1, <1>2, Grows
<1>6. type \in {TXT, BIN}
  BY <1>1, <1>2, GoodData
<1>7. m \in Received /\ m.op = type /\ m.payload = text
  <2>. HIDE DEF type, text
  <2>. QED BY <1>5, <1>6 DEF Received
<1>. HIDE DEF m
<1>8. onmessage \in Seq(Received)
  BY DEF IInv, Types
<1>9. /\ onmessage' \in Seq(Received) /\ Len(onmessage) \in Nat /\ Len(onmessage') = Len(onmessage) + 1
      /\ DOMAIN onmessage' = 1 .. Len(onmessage) + 1
      /\ DOMAIN onmessage = 1 .. Len(onmessage)
      /\ onmessage'[Len(onmessage) + 1] = m
      /\ \A i \in 1 .. Len(onmessage) : onmessage'[i] = onmessage[i]
  BY <1>4, <1>7, <1>8, Appended
<1>10. Types'
  <2>1. UTF8_ACCEPT \in States /\ UTF8_ACCEPT # UTF8_REJECT
    BY DEF UTF8_ACCEPT, UTF8_REJECT, States
  <2>2. Len(<<>>) = 0 /\ 0 <= MAX_FRAME_LENGTH /\ <<>> \in Seq(Byte)
    BY LimitsAssumption
  <2>3. late' \in Nat
    BY <1>4 DEF Outputs, IInv, Types
  <2>4. msg' \in Seq(Byte) /\ Len(msg') <= MAX_FRAME_LENGTH /\ frame_type' \in {NONE, TXT, BIN}
    BY <1>4, <2>2
  <2>. QED BY <1>2, <1>3, <1>4, <1>9, <2>1, <2>3, <2>4 DEF IInv, Types
<1>11. ReadsOpenMessage'
  <2>1. NONE # TXT
    BY DEF NONE, TXT
  <2>. QED BY <1>4, <1>5, <2>1 DEF ReadsOpenMessage
<1>12. MessagesDelivered'
  <2>. DEFINE E == Ends(accepted)
              n == Len(accepted)
              c == Cardinality(E)
  <2>1. E \in SUBSET (1 .. n) /\ Ends(accepted') = E \cup {n + 1}
    BY <1>1, <1>2, EndsAppend
  <2>2. c = Len(onmessage) /\ \A i \in E : onmessage[Rank(E, i)] = EndedBy(accepted, i)
    BY DEF IInv, MessagesDelivered
  <2>3. n \in Nat
    BY <1>2, LenProperties
  <2>4. \A i \in E : EndedBy(accepted', i) = EndedBy(accepted, i)
    BY <1>2, <2>1, EndedByKept
  <2>5. EndedBy(accepted', n + 1) = m
    <3>1. EndedBy(accepted', n + 1) =
            [op |-> IF Kind(accepted) # NONE THEN Kind(accepted) ELSE f.op,
             payload |-> Text(accepted) \o f.payload]
      BY <1>1, <1>2, EndedByLast
    <3>2. Kind(accepted) = frame_type /\ Text(accepted) = msg
      BY DEF IInv, ReadsOpenMessage
    <3>3. type = IF frame_type # NONE THEN frame_type ELSE f.op
      BY <1>1, <1>2, GoodData
    <3>. QED BY <3>1, <3>2, <3>3 DEF m
  <2>. HIDE DEF E, n
  <2>6. /\ Cardinality(E \cup {n + 1}) = c + 1
        /\ Rank(E \cup {n + 1}, n + 1) = c + 1
        /\ \A i \in E : Rank(E \cup {n + 1}, i) = Rank(E, i)
    BY <2>1, <2>3, RankNext
  <2>7. \A i \in E : Rank(E, i) \in 1 .. c
    BY <2>1, <2>3, RankOf
  <2>. HIDE DEF c
  <2>8. Len(onmessage') = Cardinality(Ends(accepted'))
    BY <1>9, <2>1, <2>2, <2>6
  <2>9. ASSUME NEW i \in E
        PROVE  onmessage'[Rank(Ends(accepted'), i)] = EndedBy(accepted', i)
    <3>1. Rank(Ends(accepted'), i) = Rank(E, i) /\ Rank(E, i) \in 1 .. Len(onmessage)
      BY <2>1, <2>2, <2>6, <2>7
    <3>2. onmessage'[Rank(E, i)] = onmessage[Rank(E, i)]
      BY <1>9, <3>1
    <3>. QED BY <2>2, <2>4, <3>1, <3>2
  <2>10. onmessage'[Rank(Ends(accepted'), n + 1)] = EndedBy(accepted', n + 1)
    BY <1>9, <2>1, <2>2, <2>5, <2>6
  <2>11. \A i \in Ends(accepted') : onmessage'[Rank(Ends(accepted'), i)] = EndedBy(accepted', i)
    <3>1. \A i \in Ends(accepted') : i \in E \/ i = n + 1
      BY <2>1
    <3>. QED BY <2>9, <2>10, <3>1
  <2>. QED BY <2>8, <2>11 DEF MessagesDelivered
<1>13. PingsAnswered'
  <2>1. f.op # PING
    BY <1>1 DEF IsData, TXT, BIN, CONT, PING
  <2>. QED BY <1>2, <1>3, <2>1, PingsKept
<1>14. DeliveredWellFormed'
  <2>1. validate /\ type = TXT => WellFormed(text)
    <3>1. SUFFICES ASSUME validate, type = TXT PROVE WellFormed(text)
      OBVIOUS
    <3>2. Utf8After(f) = is_utf8_len_state(text, UTF8_ACCEPT)
      BY <1>1, <1>2, <3>1, StateOfText
    <3>3. Utf8After(f) = UTF8_ACCEPT
      BY <1>1, <1>2, <3>1 DEF BadText
    <3>. QED BY <1>5, <3>2, <3>3, AutomatonCorrect
  <2>. HIDE DEF type, text
  <2>2. SUFFICES ASSUME validate, NEW i \in 1 .. Len(onmessage) + 1, onmessage'[i].op = TXT
                 PROVE  WellFormed(onmessage'[i].payload)
    BY <1>3, <1>9 DEF DeliveredWellFormed
  <2>3. CASE i = Len(onmessage) + 1
    BY <1>7, <1>9, <2>1, <2>2, <2>3
  <2>4. CASE i \in 1 .. Len(onmessage)
    BY <1>9, <2>2, <2>4 DEF IInv, DeliveredWellFormed
  <2>. QED BY <1>9, <2>3, <2>4
<1>15. RefusedForCause'
  BY <1>2, <1>3 DEF RefusedForCause
<1>16. InvalidTextLast'
  BY <1>2, <1>3, QuietKept
<1>17. LateOnce'
  <2>1. f.op # CLSE
    BY <1>1 DEF IsData, TXT, BIN, CONT, CLSE
  <2>. QED BY <1>2, <1>3, <1>4, <2>1, LateKept
<1>. QED BY <1>10, <1>11, <1>12, <1>13, <1>14, <1>15, <1>16, <1>17 DEF IInv

\* A control frame leaves the message that has not ended, and ends none.
LEMMA ControlKept ==
  ASSUME IInv, NEW f \in Frame, ~ IsData(f), accepted' = Append(accepted, f),
         UNCHANGED <<validate, wfd, onmessage>>
  PROVE  ReadsOpenMessage' /\ MessagesDelivered'
<1>1. Text(accepted') = msg /\ Kind(accepted') = frame_type
  BY Stays
<1>2. ReadsOpenMessage'
  BY <1>1 DEF IInv, ReadsOpenMessage, wfd
<1>3. MessagesDelivered'
  BY DeliveredKept
<1>. QED BY <1>2, <1>3

\* A PONG frame is skipped.
LEMMA PongStep ==
  ASSUME IInv, NEW f \in repertoire, Pong(f)
  PROVE  IInv'
<1>1. f.op = PONG /\ Accepts(f) /\ ~ IsData(f) /\ f.op # PING
  BY DEF Pong, IsData, TXT, BIN, CONT, PONG, PING
<1>2. /\ f \in Frame /\ accepted' = Append(accepted, f) /\ accepted' \in Seq(repertoire)
      /\ at = "body" /\ refused = <<>> /\ CloseWith(INVUTF8) \notin ToSet(sent)
  BY <1>1, AcceptedFrame
<1>3. /\ UNCHANGED <<repertoire, validate, caller, state, seen, refused, late, wfd, onmessage, sent>>
      /\ UNCHANGED <<frame_type, msg, utf8_state>>
      /\ at' = "header"
  BY DEF Pong, Loops, build, wfd
<1>4. Types'
  BY <1>2, <1>3 DEF IInv, Types
<1>5. ReadsOpenMessage' /\ MessagesDelivered'
  BY <1>1, <1>2, <1>3, ControlKept
<1>6. PingsAnswered'
  BY <1>1, <1>2, <1>3, PingsKept
<1>7. DeliveredWellFormed'
  BY <1>3 DEF IInv, DeliveredWellFormed
<1>8. RefusedForCause'
  BY <1>2, <1>3 DEF RefusedForCause
<1>9. InvalidTextLast'
  BY <1>2, <1>3, QuietKept
<1>10. LateOnce'
  BY <1>2, <1>3, LateKept
<1>. QED BY <1>4, <1>5, <1>6, <1>7, <1>8, <1>9, <1>10 DEF IInv

\* A PING frame is answered, or the connection ends.
LEMMA PingStep ==
  ASSUME IInv, NEW f \in repertoire, Ping(f)
  PROVE  IInv'
<1>. DEFINE x == Reply(PONG, f.payload)
<1>1. f.op = PING /\ Accepts(f) /\ ~ IsData(f) /\ f.op # CLSE
  BY DEF Ping, IsData, TXT, BIN, CONT, CLSE, PING
<1>2. /\ f \in Frame /\ accepted \in Seq(Frame) /\ accepted' = Append(accepted, f)
      /\ accepted' \in Seq(repertoire)
      /\ at = "body" /\ refused = <<>> /\ CloseWith(INVUTF8) \notin ToSet(sent)
      /\ ~ BadHeader(f)
  BY <1>1, AcceptedFrame
<1>3. /\ UNCHANGED <<repertoire, validate, caller, state, seen, refused, wfd, onmessage>>
      /\ UNCHANGED <<frame_type, msg, utf8_state>>
      /\ at' = (IF sent' = sent THEN "ended" ELSE "header")
      /\ Sends(x)
  BY DEF Ping, Loops, build, wfd
<1>4. x \in Answers /\ x.op = PONG /\ x.payload = f.payload /\ x # CloseWith(INVUTF8)
  <2>1. f.payload \in Seq(Byte)
    BY <1>2 DEF Frame
  <2>2. x \in Answers /\ x.op = PONG /\ x.payload = f.payload
    BY <2>1 DEF Answers, Reply
  <2>. QED BY <2>2, CloseFrames
<1>. HIDE DEF x
<1>5. /\ sent' \in Seq(Answers) /\ late' \in Nat
      /\ \/ UNCHANGED <<sent, late>>
         \/ sent' = Append(sent, x) /\ sent' # sent /\ Outputs
  BY <1>3, <1>4, SendsAnswer
<1>6. at' \in {"header", "ended"}
  BY <1>3
<1>7. Types'
  BY <1>2, <1>3, <1>5, <1>6 DEF IInv, Types
<1>8. ReadsOpenMessage' /\ MessagesDelivered'
  BY <1>1, <1>2, <1>3, ControlKept
<1>9. PingsAnswered'
  <2>. DEFINE P == With(accepted, PING)
              Q == With(sent, PONG)
              n == Len(accepted)
              m == Len(sent)
  <2>1. sent \in Seq(Answers)
    BY DEF IInv, Types
  <2>2. n \in Nat /\ P \in SUBSET (1 .. n) /\ With(accepted', PING) = P \cup {n + 1}
    <3>1. f \in Frame /\ accepted \in Seq(Frame) /\ f.op = PING
      BY <1>1, <1>2
    <3>2. n \in Nat /\ P \in SUBSET (1 .. n)
      BY <3>1, WithAppend
    <3>3. With(Append(accepted, f), PING) = P \cup {n + 1}
      BY SMTT(60), <3>1, WithAppend
    <3>. QED BY <1>2, <3>2, <3>3
  <2>3. m \in Nat /\ Q \in SUBSET (1 .. m) /\ With(Append(sent, x), PONG) = Q \cup {m + 1}
    <3>1. x \in Answers /\ x.op = PONG
      BY <1>4
    <3>2. m \in Nat /\ Q \in SUBSET (1 .. m)
      BY <2>1, <3>1, WithAppend
    <3>3. With(Append(sent, x), PONG) = Q \cup {m + 1}
      BY SMTT(60), <2>1, <3>1, WithAppend
    <3>. QED BY <3>2, <3>3
  <2>4. /\ Cardinality(Q) = Cardinality(P)
        /\ \A i \in P, j \in Q : Rank(P, i) = Rank(Q, j) => sent[j].payload = accepted[i].payload
    BY <1>2 DEF IInv, PingsAnswered
  <2>5. accepted'[n + 1] = f /\ \A i \in 1 .. n : accepted'[i] = accepted[i]
    BY <1>2, Appended
  <2>6. Append(sent, x)[m + 1] = x /\ \A j \in 1 .. m : Append(sent, x)[j] = sent[j]
    BY <1>4, <2>1, Appended
  <2>. HIDE DEF P, Q, n, m
  <2>. DEFINE c == Cardinality(P)
              P1 == P \cup {n + 1}
              Q1 == Q \cup {m + 1}
  <2>7. /\ Cardinality(P1) = c + 1 /\ Rank(P1, n + 1) = c + 1
        /\ \A i \in P : Rank(P1, i) = Rank(P, i)
    BY <2>2, RankNext
  <2>8. /\ Cardinality(Q1) = c + 1 /\ Rank(Q1, m + 1) = c + 1
        /\ \A j \in Q : Rank(Q1, j) = Rank(Q, j)
    BY <2>3, <2>4, RankNext
  <2>9. c \in Nat /\ (\A i \in P : Rank(P, i) \in 1 .. c) /\ (\A j \in Q : Rank(Q, j) \in 1 .. c)
    BY <2>2, <2>3, <2>4, RankOf
  <2>10. \A i \in P1 : i \in P \/ i = n + 1
    OBVIOUS
  <2>11. \A j \in Q1 : j \in Q \/ j = m + 1
    OBVIOUS
  <2>. HIDE DEF c, P1, Q1
  <2>12. CASE UNCHANGED <<sent, late>>
    <3>1. at' = "ended" /\ With(sent', PONG) = Q /\ With(accepted', PING) = P1
      BY <1>3, <2>2, <2>12 DEF P1, Q
    <3>2. Cardinality(Q) = Cardinality(P1) - 1
      BY <2>4, <2>7, <2>9 DEF c
    <3>3. ASSUME NEW i \in P1, NEW j \in Q, Rank(P1, i) = Rank(Q, j)
          PROVE  sent[j].payload = accepted'[i].payload
      <4>1. i \in P
        <5>1. c + 1 \notin 1 .. c
          BY <2>9
        <5>. QED BY <2>7, <2>9, <2>10, <3>3, <5>1
      <4>2. Rank(P, i) = Rank(Q, j)
        BY <2>7, <3>3, <4>1
      <4>. QED BY <2>2, <2>4, <2>5, <4>1, <4>2
    <3>. QED BY <2>12, <3>1, <3>2, <3>3 DEF PingsAnswered
  <2>13. CASE sent' = Append(sent, x)
    <3>1. With(sent', PONG) = Q1 /\ With(accepted', PING) = P1
      BY <2>2, <2>3, <2>13 DEF P1, Q1
    <3>2. Cardinality(Q1) = Cardinality(P1)
      BY <2>7, <2>8
    <3>3. ASSUME NEW i \in P1, NEW j \in Q1, Rank(P1, i) = Rank(Q1, j)
          PROVE  sent'[j].payload = accepted'[i].payload
      <4>1. c + 1 \notin 1 .. c
        BY <2>9
      <4>2. CASE i \in P /\ j \in Q
        BY <2>2, <2>3, <2>4, <2>5, <2>6, <2>7, <2>8, <2>13, <3>3, <4>2
      <4>3. CASE i = n + 1 /\ j = m + 1
        BY <1>4, <2>5, <2>6, <2>13, <4>3
      <4>4. ~ (i \in P /\ j = m + 1) /\ ~ (i = n + 1 /\ j \in Q)
        BY <2>7, <2>8, <2>9, <3>3, <4>1
      <4>. QED BY <2>10, <2>11, <4>2, <4>3, <4>4
    <3>. QED BY <3>1, <3>2, <3>3 DEF PingsAnswered
  <2>. QED BY <1>5, <2>12, <2>13
<1>10. DeliveredWellFormed'
  BY <1>3 DEF IInv, DeliveredWellFormed
<1>11. RefusedForCause'
  BY <1>2, <1>3 DEF RefusedForCause
<1>12. InvalidTextLast'
  BY <1>2, <1>4, <1>5, QuietKept
<1>13. LateOnce'
  BY <1>1, <1>2, <1>3, <1>5, <1>6, LateKept
<1>. QED BY <1>7, <1>8, <1>9, <1>10, <1>11, <1>12, <1>13 DEF IInv

\* A CLOSE frame is returned to the loop, which answers it unless it waits for it.
LEMMA CloseStep ==
  ASSUME IInv, NEW f \in repertoire, Close(f)
  PROVE  IInv'
<1>1. f.op = CLSE /\ Accepts(f) /\ ~ IsData(f) /\ f.op # PING
  BY DEF Close, IsData, TXT, BIN, CONT, CLSE, PING
<1>2. /\ f \in Frame /\ accepted \in Seq(Frame) /\ accepted' = Append(accepted, f)
      /\ accepted' \in Seq(repertoire)
      /\ at = "body" /\ refused = <<>> /\ CloseWith(INVUTF8) \notin ToSet(sent)
  BY <1>1, AcceptedFrame
<1>3. /\ UNCHANGED <<repertoire, validate, caller, state, seen, refused, late, wfd, onmessage, sent>>
      /\ UNCHANGED <<frame_type, msg, utf8_state>>
      /\ at' = (IF state = CLOSING THEN "ended" ELSE "reply")
  BY DEF Close, Loops, build, wfd
<1>4. accepted' # <<>> /\ at' \in {"ended", "reply"}
  <2>1. Len(Append(accepted, f)) = Len(accepted) + 1 /\ Len(accepted) \in Nat
    BY <1>2, Appended
  <2>2. Len(<<>>) = 0
    OBVIOUS
  <2>3. accepted' # <<>>
    BY <1>2, <2>1, <2>2
  <2>. QED BY <1>3, <2>3
<1>5. Types'
  BY <1>2, <1>3, <1>4 DEF IInv, Types
<1>6. ReadsOpenMessage' /\ MessagesDelivered'
  BY <1>1, <1>2, <1>3, ControlKept
<1>7. PingsAnswered'
  BY <1>1, <1>2, <1>3, PingsKept
<1>8. DeliveredWellFormed'
  BY <1>3 DEF IInv, DeliveredWellFormed
<1>9. RefusedForCause'
  BY <1>2, <1>3 DEF RefusedForCause
<1>10. InvalidTextLast'
  BY <1>2, <1>3, QuietKept
<1>11. LateOnce'
  <2>1. at' = "reply" => state # CLOSING
    BY <1>3
  <2>2. /\ late <= 1
        /\ late = 1 => state # OPEN /\ (at = "body" => seen = CLOSING \/ state = CLOSED)
    BY DEF IInv, LateOnce
  <2>3. state \in {OPEN, CLOSING, CLOSED}
    BY DEF IInv, Types
  <2>4. at' # "body"
    BY <1>4
  <2>. QED BY <1>3, <2>1, <2>2, <2>3, <2>4 DEF LateOnce
<1>. QED BY <1>5, <1>6, <1>7, <1>8, <1>9, <1>10, <1>11 DEF IInv

\* What do_close sends is bytes.
LEMMA CloseAnswers ==
  ASSUME NEW p \in Seq(Byte)
  PROVE  do_close(p) \in Answers /\ do_close(p).op = CLSE
<1>1. Reply(CLSE, p) \in Answers /\ Reply(CLSE, p).op = CLSE
  BY DEF Answers, Reply
<1>. DEFINE bad == /\ Len(p) \in {1, 2}
                   /\ (IF Len(p) = 1 THEN p[1] ELSE p[1] * 256 + p[2])
                        \notin (1000 .. 1003) \cup (1007 .. 1011) \cup (3000 .. 4999)
<1>2. do_close(p) = IF bad THEN CloseWith(PROTERR) ELSE Reply(CLSE, p)
  BY DEF do_close
<1>. HIDE DEF bad
<1>. QED BY <1>1, <1>2, CloseFrames

\* The CLOSE frame is answered, and nothing is read after that.
LEMMA ReplyStep ==
  ASSUME IInv, ReplyToClose
  PROVE  IInv'
<1>. DEFINE x == do_close(Last(accepted).payload)
<1>1. /\ at = "reply" /\ at' = "ended" /\ state' = CLOSING /\ Sends(x)
      /\ UNCHANGED <<repertoire, validate, caller, seen, refused, wfd, onmessage, accepted>>
      /\ UNCHANGED <<frame_type, msg, utf8_state>>
  BY DEF ReplyToClose, build, wfd
<1>2. refused = <<>> /\ CloseWith(INVUTF8) \notin ToSet(sent)
  BY <1>1, Reading
<1>3. x \in Answers /\ x.op = CLSE /\ CLSE # PONG
  <2>1. accepted \in Seq(Frame) /\ accepted # <<>>
    BY <1>1, FramesAre DEF IInv, Types
  <2>2. Len(accepted) \in 1 .. Len(accepted)
    BY <2>1, LenProperties, EmptySeq
  <2>3. Last(accepted) \in Frame
    BY <2>1, <2>2, ElementOfSeq DEF Last
  <2>4. Last(accepted).payload \in Seq(Byte)
    BY <2>3 DEF Frame
  <2>. QED BY <2>4, CloseAnswers, CloseFrames
<1>. HIDE DEF x
<1>4. /\ sent' \in Seq(Answers) /\ late' \in Nat
      /\ \/ UNCHANGED <<sent, late>>
         \/ sent' = Append(sent, x) /\ Outputs /\ state # CLOSED
  BY <1>1, <1>3, SendsAnswer
<1>5. Types'
  BY <1>1, <1>4 DEF IInv, Types
<1>6. ReadsOpenMessage'
  BY <1>1, ReadingKept
<1>7. MessagesDelivered'
  BY <1>1, DeliveredKept
<1>8. PingsAnswered'
  BY <1>1, <1>3, <1>4, PingsKept
<1>9. DeliveredWellFormed'
  BY <1>1 DEF IInv, DeliveredWellFormed
<1>10. RefusedForCause'
  BY <1>1, <1>2 DEF RefusedForCause
<1>11. InvalidTextLast'
  <2>1. \A g : refused' # <<g>>
    <3>1. \A g : <<g>> # <<>>
      OBVIOUS
    <3>. QED BY <1>1, <1>2, <3>1
  <2>. QED BY <1>1, <2>1 DEF InvalidTextLast
<1>12. LateOnce'
  <2>1. /\ late \in Nat /\ late <= 1
        /\ late = 1 => state = CLOSED
    BY <1>1 DEF IInv, Types, LateOnce
  <2>2. late' <= 1
    BY <1>4, <2>1 DEF Outputs
  <2>3. CLOSING # OPEN
    BY DEF CLOSING, OPEN
  <2>. QED BY <1>1, <2>2, <2>3 DEF LateOnce
<1>. QED BY <1>5, <1>6, <1>7, <1>8, <1>9, <1>10, <1>11, <1>12 DEF IInv

\* The first byte of a frame only moves the client thread.
LEMMA HeaderStep ==
  ASSUME IInv, ReadHeader
  PROVE  IInv'
<1>1. /\ UNCHANGED <<repertoire, validate, state, caller, late, wfd, onmessage, sent, accepted, refused>>
      /\ UNCHANGED <<frame_type, msg, utf8_state>>
      /\ at = "header" /\ at' = "body" /\ seen' = state
  BY DEF ReadHeader, build, wfd
<1>2. refused = <<>> /\ CloseWith(INVUTF8) \notin ToSet(sent)
  BY <1>1, Reading
<1>3. Types'
  BY <1>1 DEF IInv, Types
<1>4. ReadsOpenMessage'
  BY <1>1, ReadingKept
<1>5. MessagesDelivered'
  BY <1>1, DeliveredKept
<1>6. PingsAnswered'
  BY <1>1, PingsKept
<1>7. DeliveredWellFormed'
  BY <1>1 DEF IInv, DeliveredWellFormed
<1>8. RefusedForCause'
  BY <1>1, <1>2 DEF RefusedForCause
<1>9. InvalidTextLast'
  BY <1>1, <1>2, QuietKept
<1>10. LateOnce'
  <2>1. late <= 1 /\ (late = 1 => state # OPEN)
    BY DEF IInv, LateOnce
  <2>2. state \in {OPEN, CLOSING, CLOSED}
    BY DEF IInv, Types
  <2>. QED BY <1>1, <2>1, <2>2 DEF LateOnce
<1>. QED BY <1>3, <1>4, <1>5, <1>6, <1>7, <1>8, <1>9, <1>10 DEF IInv

\* The connection ends: nothing is read after that, and if anything is sent it is
\* the complaint about a text that was cut off.
LEMMA DisconnectStep ==
  ASSUME IInv, Disconnect
  PROVE  IInv'
<1>. DEFINE x == CloseWith(INVUTF8)
<1>1. /\ UNCHANGED <<repertoire, validate, state, caller, seen, wfd, onmessage, accepted, refused>>
      /\ UNCHANGED <<frame_type, msg, utf8_state>>
      /\ at \in {"header", "body"} /\ at' \in {"ended", "crashed"}
  BY DEF Disconnect, EndsQuietly, EndsWith, Crashes, build, wfd
<1>2. refused = <<>> /\ x \notin ToSet(sent)
  BY <1>1, Reading
<1>3. x \in Answers /\ x.op = CLSE /\ CLSE # PONG
  BY CloseFrames
<1>4. \/ UNCHANGED <<sent, late>>
      \/ CutsText /\ at' = "ended" /\ Sends(x)
  BY DEF Disconnect, EndsQuietly, EndsWith, Crashes
<1>. HIDE DEF x
<1>5. \/ UNCHANGED <<sent, late>>
      \/ CutsText /\ at' = "ended" /\ sent' = Append(sent, x) /\ Outputs
  BY <1>3, <1>4, SendsAnswer
<1>6. Types'
  <2>1. sent' \in Seq(Answers) /\ late' \in Nat
    BY <1>3, <1>4, SendsAnswer DEF IInv, Types
  <2>. QED BY <1>1, <2>1 DEF IInv, Types
<1>7. ReadsOpenMessage'
  BY <1>1, ReadingKept
<1>8. MessagesDelivered'
  BY <1>1, DeliveredKept
<1>9. PingsAnswered'
  BY <1>1, <1>3, <1>5, PingsKept
<1>10. DeliveredWellFormed'
  BY <1>1 DEF IInv, DeliveredWellFormed
<1>11. RefusedForCause'
  BY <1>1, <1>2 DEF RefusedForCause
<1>12. InvalidTextLast'
  <2>1. CASE UNCHANGED sent
    BY <1>2, <2>1, QuietKept DEF x
  <2>2. CASE at' = "ended"
    <3>1. \A g : refused' # <<g>>
      <4>1. \A g : <<g>> # <<>>
        OBVIOUS
      <4>. QED BY <1>1, <1>2, <4>1
    <3>. QED BY <2>2, <3>1 DEF InvalidTextLast
  <2>. QED BY <1>5, <2>1, <2>2
<1>13. LateOnce'
  <2>1. CASE UNCHANGED late
    BY <1>1, <2>1 DEF IInv, LateOnce
  <2>2. CASE CutsText /\ Outputs
    <3>1. PICK f \in repertoire : Reads(f) /\ ~ BadHeader(f) /\ IsData(f)
      BY <2>2 DEF CutsText
    <3>2. f.op # CLSE /\ at = "body"
      BY <3>1, CloseFrames DEF IsData, Reads
    <3>. QED BY <1>1, <2>2, <3>1, <3>2, LateKept
  <2>. QED BY <1>5, <2>1, <2>2
<1>. QED BY <1>6, <1>7, <1>8, <1>9, <1>10, <1>11, <1>12, <1>13 DEF IInv

\* What another thread does to the connection: it may send its CLOSE frame and
\* move the state on.
LEMMA CallerStep ==
  ASSUME IInv, SendCloseFrame \/ StartCloseTimeout \/ TimeoutFires
  PROVE  IInv'
<1>1. /\ UNCHANGED <<repertoire, validate, at, seen, late, wfd, onmessage, accepted, refused>>
      /\ UNCHANGED <<frame_type, msg, utf8_state>>
  BY DEF SendCloseFrame, StartCloseTimeout, TimeoutFires, build, loop, wfd
<1>2. /\ \/ state' = state
         \/ state' \in {CLOSING, CLOSED} /\ state' # OPEN
      /\ state = CLOSED => state' = CLOSED
      /\ caller' \in {"idle", "sent", "timeout", "done"}
  <2>1. state \in {OPEN, CLOSING, CLOSED} /\ OPEN # CLOSING /\ OPEN # CLOSED /\ CLOSING # CLOSED
    BY DEF IInv, Types, OPEN, CLOSING, CLOSED
  <2>2. CASE SendCloseFrame
    BY <2>2 DEF SendCloseFrame
  <2>3. CASE StartCloseTimeout
    BY <2>1, <2>3 DEF StartCloseTimeout
  <2>4. CASE TimeoutFires
    BY <2>1, <2>4 DEF TimeoutFires
  <2>. QED BY <2>2, <2>3, <2>4
<1>3. UNCHANGED sent \/ sent' = Append(sent, CloseWith(NORMAL))
  BY DEF SendCloseFrame, StartCloseTimeout, TimeoutFires
<1>4. /\ CloseWith(NORMAL) \in Answers /\ CloseWith(NORMAL).op = CLSE /\ CLSE # PONG
      /\ CloseWith(NORMAL) # CloseWith(INVUTF8)
  BY CloseFrames
<1>5. sent \in Seq(Answers) /\ sent' \in Seq(Answers)
  <2>1. sent \in Seq(Answers)
    BY DEF IInv, Types
  <2>2. Append(sent, CloseWith(NORMAL)) \in Seq(Answers)
    BY <1>4, <2>1, Appended
  <2>. QED BY <1>3, <2>1, <2>2
<1>6. \A f : /\ TypeAfter(f)' = TypeAfter(f)
             /\ BadHeader(f)' <=> BadHeader(f)
             /\ TooLong(f)' <=> TooLong(f)
             /\ BadText(f)' <=> BadText(f)
             /\ BadReason(f)' <=> BadReason(f)
  BY <1>1, CauseKept
<1>7. Types'
  <2>1. state' \in {OPEN, CLOSING, CLOSED}
    BY <1>2 DEF IInv, Types
  <2>. QED BY <1>1, <1>2, <1>5, <2>1 DEF IInv, Types
<1>8. ReadsOpenMessage'
  BY <1>1, ReadingKept
<1>9. MessagesDelivered'
  BY <1>1, DeliveredKept
<1>10. PingsAnswered'
  BY <1>1, <1>3, <1>4, PingsKept
<1>11. DeliveredWellFormed'
  BY <1>1 DEF IInv, DeliveredWellFormed
<1>12. RefusedForCause'
  BY <1>1, <1>6 DEF IInv, RefusedForCause, Violates
<1>13. InvalidTextLast'
  <2>1. CASE CloseWith(INVUTF8) \notin ToSet(sent)
    BY <1>3, <1>4, <2>1, QuietKept
  <2>2. CASE CloseWith(INVUTF8) \in ToSet(sent)
    BY <1>1, <1>6, <2>2 DEF IInv, InvalidTextLast
  <2>. QED BY <2>1, <2>2
<1>14. LateOnce'
  BY <1>1, <1>2 DEF IInv, LateOnce
<1>. QED BY <1>7, <1>8, <1>9, <1>10, <1>11, <1>12, <1>13, <1>14 DEF IInv

\* Nothing happens.
LEMMA StutterStep ==
  ASSUME IInv, UNCHANGED vars
  PROVE  IInv'
<1>1. UNCHANGED <<repertoire, validate, state, caller, at, seen, late, frame_type, msg, utf8_state,
                  onmessage, sent, accepted, refused>>
  BY DEF vars, build, loop, wfd
<1>2. UNCHANGED <<validate, seen, wfd>>
  BY <1>1 DEF wfd
<1>3. \A f : /\ TypeAfter(f)' = TypeAfter(f)
             /\ BadHeader(f)' <=> BadHeader(f)
             /\ TooLong(f)' <=> TooLong(f)
             /\ BadText(f)' <=> BadText(f)
             /\ BadReason(f)' <=> BadReason(f)
  BY <1>2, CauseKept
<1>4. Types' /\ ReadsOpenMessage' /\ MessagesDelivered' /\ DeliveredWellFormed'
  BY <1>1, <1>2, ReadingKept, DeliveredKept DEF IInv, Types, DeliveredWellFormed
<1>5. PingsAnswered'
  BY <1>1, PingsKept
<1>6. RefusedForCause'
  BY <1>1, <1>3 DEF IInv, RefusedForCause, Violates
<1>7. InvalidTextLast'
  BY <1>1, <1>3 DEF IInv, InvalidTextLast
<1>8. LateOnce'
  BY <1>1 DEF IInv, LateOnce
<1>. QED BY <1>4, <1>5, <1>6, <1>7, <1>8 DEF IInv

\* Every step keeps the invariant.
LEMMA NextInv == IInv /\ [Next]_vars => IInv'
<1>. SUFFICES ASSUME IInv, [Next]_vars PROVE IInv'
  OBVIOUS
<1>1. ASSUME NEW f \in repertoire, NextFrame(f) PROVE IInv'
  <2>1. CASE RefuseFrame(f)
    BY <2>1, RefuseStep
  <2>2. CASE Fragment(f)
    BY <2>2, FragmentStep
  <2>3. CASE Message(f)
    BY <2>3, MessageStep
  <2>4. CASE Pong(f)
    BY <2>4, PongStep
  <2>5. CASE Ping(f)
    BY <2>5, PingStep
  <2>6. CASE Close(f)
    BY <2>6, CloseStep
  <2>. QED BY <1>1, <2>1, <2>2, <2>3, <2>4, <2>5, <2>6 DEF NextFrame
<1>2. CASE ReadHeader
  BY <1>2, HeaderStep
<1>6. CASE Disconnect
  BY <1>6, DisconnectStep
<1>3. CASE ReplyToClose
  BY <1>3, ReplyStep
<1>4. CASE SendCloseFrame \/ StartCloseTimeout \/ TimeoutFires
  BY <1>4, CallerStep
<1>5. CASE UNCHANGED vars
  BY <1>5, StutterStep
<1>. QED BY <1>1, <1>2, <1>3, <1>4, <1>5, <1>6 DEF Next

\* The invariant holds in every state.
LEMMA Inductive == Spec => []IInv
BY InitInv, NextInv, PTL DEF Spec

----------------------------------------------------------------------------
(* What holds of every connection *)

\* What has been read and sent of a refused frame.
LEMMA RefusedFrame ==
  ASSUME IInv, refused # <<>>
  PROVE  /\ refused[1] \in Frame /\ refused[1] \in repertoire /\ Violates(refused[1])
         /\ CloseWith(INVUTF8) \in ToSet(sent) =>
              /\ ~ BadHeader(refused[1])
              /\ TooLong(refused[1]) \/ BadText(refused[1])
<1>1. refused \in Seq(repertoire) /\ Len(refused) <= 1
  BY DEF IInv, Types
<1>2. Len(refused) = 1
  <2>1. Len(refused) \in Nat /\ Len(refused) # 0
    BY <1>1, LenProperties, EmptySeq
  <2>2. \A n \in Nat : n # 0 /\ n <= 1 => n = 1
    OBVIOUS
  <2>. QED BY <1>1, <2>1, <2>2
<1>. DEFINE f == refused[1]
<1>3. f \in repertoire
  BY <1>1, <1>2, ElementOfSeq
<1>4. refused = <<f>>
  <2>1. refused \in Seq(repertoire) /\ <<f>> \in Seq(repertoire)
    BY <1>1, <1>3
  <2>2. Len(<<f>>) = 1 /\ <<f>>[1] = f
    OBVIOUS
  <2>. DEFINE g == <<f>>
  <2>3. Len(g) = 1 /\ g[1] = refused[1] /\ g \in Seq(repertoire)
    BY <2>1, <2>2
  <2>. HIDE DEF g
  <2>4. refused = g
    <3>1. \A i \in 1 .. Len(refused) : refused[i] = g[i]
      BY <1>2, <2>3
    <3>. QED BY <1>2, <2>1, <2>3, <3>1, SeqEqual
  <2>. QED BY <2>4 DEF g
<1>5. f \in Frame
  BY <1>3, FramesAre DEF IInv
<1>. HIDE DEF f
<1>6. Violates(f)
  BY <1>3, <1>4 DEF IInv, RefusedForCause
<1>7. CloseWith(INVUTF8) \in ToSet(sent) => ~ BadHeader(f) /\ (TooLong(f) \/ BadText(f))
  BY <1>3, <1>4 DEF IInv, InvalidTextLast
<1>. QED BY <1>3, <1>5, <1>6, <1>7 DEF f

\* The message that has not ended is what the client thread holds.
LEMMA OpenIsHeld ==
  ASSUME IInv
  PROVE  /\ OpenText = msg /\ OpenType = frame_type /\ (Open <=> frame_type # NONE)
         /\ msg \in Seq(Byte)
BY DEF IInv, Types, ReadsOpenMessage, OpenText, OpenType, Open, Text, Kind

\* The state of a connection is of its types: a message is within its limit and the
\* automaton is never kept in the state that rejects (test_ws/src/ws.c, next_frame).
THEOREM TypeCorrect == Spec => []TypeOK
<1>1. IInv => TypeOK
  <2>. SUFFICES ASSUME IInv PROVE TypeOK
    OBVIOUS
  <2>1. \A i \in DOMAIN onmessage : onmessage[i].op \in {TXT, BIN}
    <3>1. onmessage \in Seq(Received)
      BY DEF IInv, Types
    <3>2. \A i \in DOMAIN onmessage : onmessage[i] \in Received
      BY <3>1, LenProperties, ElementOfSeq
    <3>. QED BY <3>2 DEF Received
  <2>2. \A i \in DOMAIN sent : sent[i].op \in {PONG, CLSE}
    <3>1. sent \in Seq(Answers)
      BY DEF IInv, Types
    <3>2. \A i \in DOMAIN sent : sent[i] \in Answers
      BY <3>1, LenProperties, ElementOfSeq
    <3>. QED BY <3>2 DEF Answers
  <2>3. utf8_state \in 0 .. 8 \ {UTF8_REJECT}
    BY DEF IInv, Types, States
  <2>. QED BY <2>1, <2>2, <2>3 DEF IInv, Types, TypeOK
<1>. QED BY <1>1, Inductive, PTL

\* onmessage is called for each message, whole, in order and with its type, however
\* it is cut into fragments and whatever control frames come between.
THEOREM Delivers == Spec => []MessagesDelivered
<1>1. IInv => MessagesDelivered
  BY DEF IInv
<1>. QED BY <1>1, Inductive, PTL

\* Every PING is answered with its payload, in order, but for the last one if its
\* answer could not be sent (do_pong in next_frame).
THEOREM Answered == Spec => []PingsAnswered
<1>1. IInv => PingsAnswered
  BY DEF IInv
<1>. QED BY <1>1, Inductive, PTL

\* With VALIDATE_UTF8 what is delivered as text is well-formed, what has been read of
\* a text can become so, and what is refused as text cannot.
THEOREM OnlyText == Spec => []TextsWellFormed
<1>1. IInv => TextsWellFormed
  <2>. SUFFICES ASSUME IInv, validate PROVE TextsWellFormed
    BY DEF TextsWellFormed
  <2>1. \A i \in DOMAIN onmessage : onmessage[i].op = TXT => WellFormed(onmessage[i].payload)
    BY DEF IInv, DeliveredWellFormed
  <2>2. ASSUME OpenType = TXT
        PROVE  \E t \in Continuations : WellFormed(OpenText \o t)
    <3>1. OpenText = msg /\ frame_type = TXT /\ msg \in Seq(Byte)
      BY <2>2, OpenIsHeld
    <3>2. is_utf8_len_state(msg, UTF8_ACCEPT) # UTF8_REJECT
      BY <3>1 DEF IInv, Types, ReadsOpenMessage
    <3>. QED BY <3>1, <3>2, Completable
  <2>3. ASSUME refused # <<>>, CloseWith(INVUTF8) \in ToSet(sent),
               Len(OpenText \o refused[1].payload) <= MAX_FRAME_LENGTH,
               NEW t \in IF refused[1].fin THEN {<<>>} ELSE Continuations
        PROVE  ~ WellFormed(OpenText \o refused[1].payload \o t)
    <3>. DEFINE f == refused[1]
                u == msg \o f.payload
    <3>1. f \in Frame /\ ~ BadHeader(f) /\ (TooLong(f) \/ BadText(f))
      BY <2>3, RefusedFrame
    <3>2. OpenText = msg /\ msg \in Seq(Byte)
      BY OpenIsHeld
    <3>3. t \in IF f.fin THEN {<<>>} ELSE Continuations
      OBVIOUS
    <3>4. Len(msg \o f.payload) <= MAX_FRAME_LENGTH
      BY <2>3, <3>2
    <3>. HIDE DEF f
    <3>5. u \in Seq(Byte) /\ Len(u) = Len(msg) + Len(f.payload)
      <4>1. f.payload \in Seq(Byte)
        BY <3>1 DEF Frame
      <4>. QED BY <3>2, <4>1, ConcatProperties
    <3>6. BadText(f)
      <4>1. ~ (Len(u) > MAX_FRAME_LENGTH)
        <5>1. Len(u) \in Nat /\ MAX_FRAME_LENGTH \in Nat
          BY <3>5, LimitsAssumption, LenProperties
        <5>. QED BY <3>4, <5>1
      <4>2. ~ TooLong(f)
        BY <3>5, <4>1 DEF TooLong
      <4>. QED BY <3>1, <4>2
    <3>7. ~ WellFormed(u) /\ (~ f.fin => \A c \in Seq(Byte) : ~ WellFormed(u \o c))
      BY <3>1, <3>6, RefusedText
    <3>. HIDE DEF u
    <3>8. CASE f.fin
      <4>1. u \o t = u
        BY <3>3, <3>5, <3>8, ConcatEmptySeq
      <4>. QED BY <3>2, <3>7, <4>1 DEF f, u
    <3>9. CASE ~ f.fin
      <4>1. t \in Seq(Byte)
        BY <3>3, <3>9, ContinuationType
      <4>2. ~ WellFormed(u \o t)
        BY <3>7, <3>9, <4>1
      <4>. QED BY <3>2, <4>2 DEF f, u
    <3>. QED BY <3>8, <3>9
  <2>. QED BY <2>1, <2>2, <2>3 DEF TextsWellFormed
<1>. QED BY <1>1, Inductive, PTL

\* Before the connection is being closed a frame is refused for a breach of the
\* protocol only: the checks of next_frame are no stricter than that.
THEOREM RefusesViolations == Spec => []OnlyViolationsRefused
<1>1. IInv => OnlyViolationsRefused
  <2>. SUFFICES ASSUME IInv, refused # <<>>, seen = OPEN PROVE OnlyViolationsRefused
    BY DEF OnlyViolationsRefused
  <2>. DEFINE f == refused[1]
              text == OpenText \o f.payload
              Breach == \/ f.rsv
                        \/ f.op \notin {CONT, TXT, BIN, CLSE, PING, PONG}
                        \/ is_control_frame(f.op)
                             /\ ~ (f.fin /\ Len(f.payload) <= MaxControlLength)
                        \/ IsData(f) /\ (f.op = CONT) # Open
                        \/ IsData(f) /\ Len(text) > MAX_FRAME_LENGTH
                        \/ validate /\ TXT \in {f.op, OpenType} /\ ~ WellFormed(text)
                        \/ /\ validate /\ f.op = CLSE
                           /\ ~ WellFormed(SubSeq(f.payload, 3, Len(f.payload)))
  <2>1. f \in Frame /\ Violates(f)
    BY RefusedFrame
  <2>2. text = msg \o f.payload /\ OpenType = frame_type /\ (Open <=> frame_type # NONE)
        /\ msg \in Seq(Byte)
    BY OpenIsHeld
  <2>3. Len(f.payload) \in Nat /\ MaxControlLength \in Nat /\ f.payload \in Seq(Byte)
    BY <2>1, LimitsAssumption, LenProperties DEF Frame
  <2>4. Len(text) = Len(msg) + Len(f.payload)
    BY <2>2, <2>3, ConcatProperties
  <2>5. SUFFICES Breach
    BY DEF OnlyViolationsRefused
  <2>. HIDE DEF f, text
  <2>6. CASE BadHeader(f)
    <3>1. CASE f.rsv
      BY <3>1
    <3>2. CASE frame_type = NONE /\ f.op = CONT
      BY <2>2, <3>2 DEF IsData
    <3>3. CASE frame_type # NONE /\ ~ is_control_frame(f.op) /\ f.op # CONT
      BY <2>2, <3>3 DEF IsData, is_control_frame
    <3>4. CASE ~ IsData(f) /\ ~ is_control_frame(f.op)
      BY <3>4 DEF IsData, is_control_frame
    <3>5. CASE is_control_frame(f.op) /\ (~ f.fin \/ Len(f.payload) > MaxControlLength)
      BY <2>3, <3>5
    <3>6. seen # CLOSING
      BY DEF OPEN, CLOSING
    <3>. QED BY <2>6, <3>1, <3>2, <3>3, <3>4, <3>5, <3>6 DEF BadHeader
  <2>7. CASE TooLong(f)
    BY <2>4, <2>7 DEF TooLong
  <2>8. CASE ~ BadHeader(f) /\ BadText(f)
    <3>1. ~ WellFormed(text)
      BY <2>1, <2>2, <2>8, RefusedText
    <3>2. TypeAfter(f) = TXT /\ validate
      BY <2>8 DEF BadText
    <3>3. TXT \in {f.op, OpenType}
      BY <2>2, <3>2 DEF TypeAfter
    <3>. QED BY <3>1, <3>2, <3>3
  <2>9. CASE BadReason(f)
    <3>1. ~ WellFormed(SubSeq(f.payload, 3, Len(f.payload)))
      BY <2>1, <2>9, RefusedReason
    <3>. QED BY <2>9, <3>1 DEF BadReason
  <2>. QED BY <2>1, <2>6, <2>7, <2>8, <2>9 DEF Violates
<1>. QED BY <1>1, Inductive, PTL

\* While the state is CLOSING the client thread calls onmessage or sends at most
\* once (ws.c:1112, "if CLOSING, we only accept close frames"); what it delivers
\* when the time-out has made the state CLOSED is not counted.
THEOREM OneLate == Spec => []OneLateWhileClosing
<1>1. IInv => OneLateWhileClosing
  BY DEF IInv, LateOnce, OneLateWhileClosing
<1>. QED BY <1>1, Inductive, PTL

===============================================================================
