------------------------- MODULE DwarfidlTextProofs -------------------------
(***************************************************************************)
(* Proofs about the round trip of a name or a value, for every text and    *)
(* every number: what escape_ident and escape_string_lit write is decoded  *)
(* to what they were given, whatever its characters and its length, and    *)
(* what a value becomes when it is printed and read, again and again.      *)
(***************************************************************************)
EXTENDS DwarfidlText, SequenceLemmas, SequenceTheorems, FiniteSetsExt

(* The two automata, and where they are after a text.                       *)
Step(literal, m, c) == IF literal THEN UnescapeStep(m, c) ELSE UnescapeIdentStep(m, c)
After(literal, m, t) == IF literal THEN FoldLeft(UnescapeStep, m, t)
                        ELSE FoldLeft(UnescapeIdentStep, m, t)

(* FoldLeft takes the indices of a text one after the other, the last one   *)
(* being the greatest.                                                      *)
LEMMA MaxOfUpTo ==
  ASSUME NEW k \in Nat, NEW s \in SUBSET (1..(k + 1)), s # {}
  PROVE  Max(s) \in s /\ s \ {Max(s)} \in SUBSET (1..k)
<1> DEFINE T == {n \in Nat : \A x \in s : x <= n}
<1>1. k + 1 \in T
  OBVIOUS
<1>2. PICK n \in T : \A m \in T : n <= m
  BY <1>1, LeastNat
<1>3. n \in s
  <2>1. SUFFICES ASSUME n \notin s PROVE FALSE
    OBVIOUS
  <2>2. PICK x \in s : TRUE
    OBVIOUS
  <2>3. n >= 1 /\ n - 1 \in Nat /\ \A y \in s : y <= n - 1
    BY <2>1, <2>2, <1>2
  <2> QED
    BY <1>2, <2>3
<1>4. \A y \in s : n >= y
  BY <1>2
<1>5. Max(s) \in s /\ \A y \in s : Max(s) >= y
  BY <1>3, <1>4, Zenon DEF Max
<1> HIDE DEF T
<1>6. PICK x \in s : x = Max(s) /\ \A y \in s : x >= y
  BY <1>5
<1>7. \A y \in s \ {x} : y \in 1..k
  BY <1>6
<1> QED
  BY <1>6, <1>7

(* The states of an automaton on its way through a text.                    *)
LEMMA FoldSteps ==
  ASSUME NEW U, NEW t \in Seq(U), NEW base, NEW literal \in BOOLEAN
  PROVE  \E h : /\ h[0] = base
                /\ \A i \in 1..Len(t) : h[i] = Step(literal, h[i - 1], t[i])
                /\ After(literal, base, t) = h[Len(t)]
<1> DEFINE n == Len(t)
           Body(f, s) == IF s = {} THEN base ELSE Step(literal, f[s \ {Max(s)}], t[Max(s)])
           iter == CHOOSE f : f = [s \in SUBSET (1..n) |-> Body(f, s)]
<1>1. n \in Nat /\ DOMAIN t = 1..n
  OBVIOUS
<1>2. After(literal, base, t) = iter[1..n]
  <2>1. CASE literal
    <3> DEFINE g == CHOOSE f : f = [s \in SUBSET (1..n) |-> IF s = {} THEN base ELSE UnescapeStep(f[s \ {Max(s)}], t[Max(s)])]
    <3>1. After(literal, base, t) = g[1..n]
      BY <1>1, <2>1, Zenon DEF After, FoldLeft, MapThenFoldSet
    <3>2. \A f, s : Body(f, s) = IF s = {} THEN base ELSE UnescapeStep(f[s \ {Max(s)}], t[Max(s)])
      BY <2>1, Zenon DEF Step
    <3>3. \A f : [s \in SUBSET (1..n) |-> Body(f, s)] = [s \in SUBSET (1..n) |-> IF s = {} THEN base ELSE UnescapeStep(f[s \ {Max(s)}], t[Max(s)])]
      BY <3>2, Zenon
    <3>4. g = iter
      BY <3>3
    <3> QED
      BY <3>1, <3>4, Zenon
  <2>2. CASE ~literal
    <3> DEFINE g == CHOOSE f : f = [s \in SUBSET (1..n) |-> IF s = {} THEN base ELSE UnescapeIdentStep(f[s \ {Max(s)}], t[Max(s)])]
    <3>1. After(literal, base, t) = g[1..n]
      BY <1>1, <2>2, Zenon DEF After, FoldLeft, MapThenFoldSet
    <3>2. \A f, s : Body(f, s) = IF s = {} THEN base ELSE UnescapeIdentStep(f[s \ {Max(s)}], t[Max(s)])
      BY <2>2, Zenon DEF Step
    <3>3. \A f : [s \in SUBSET (1..n) |-> Body(f, s)] = [s \in SUBSET (1..n) |-> IF s = {} THEN base ELSE UnescapeIdentStep(f[s \ {Max(s)}], t[Max(s)])]
      BY <3>2, Zenon
    <3>4. g = iter
      BY <3>3
    <3> QED
      BY <3>1, <3>4, Zenon
  <2> QED
    BY <2>1, <2>2
<1> HIDE DEF n
<1>3. iter = [s \in SUBSET (1..n) |-> Body(iter, s)]
  <2> DEFINE Solves(k, f) == f = [s \in SUBSET (1..n) |-> f[s]]
                             /\ \A s \in SUBSET (1..k) : f[s] = Body(f, s)
             T == {k \in Nat : \E f : Solves(k, f)}
  <2>1. 0 \in T
    <3> DEFINE h == [s \in SUBSET (1..n) |-> base]
    <3>1. 0 \in Nat /\ 1..0 = {} /\ {} \in SUBSET (1..n) /\ \A s \in SUBSET {} : s = {}
      OBVIOUS
    <3>2. Solves(0, h)
      BY <3>1, Zenon
    <3> HIDE DEF Solves, h
    <3> QED
      BY <3>1, <3>2, Zenon
  <2>2. ASSUME NEW k \in 0..(n - 1), k \in T PROVE k + 1 \in T
    <3>1. PICK f : Solves(k, f)
      BY <2>2, Zenon
    <3> DEFINE h == [s \in SUBSET (1..n) |-> Body(f, s)]
    <3>2. SUBSET (1..k) \subseteq SUBSET (1..n) /\ SUBSET (1..(k + 1)) \subseteq SUBSET (1..n) /\ k + 1 \in Nat /\ k \in Nat
      BY <1>1
    <3>3. \A s \in SUBSET (1..k) : h[s] = f[s]
      BY <3>1, <3>2, Zenon
    <3>4. ASSUME NEW s \in SUBSET (1..(k + 1)) PROVE h[s] = Body(h, s)
      <4>1. s # {} => s \ {Max(s)} \in SUBSET (1..k)
        BY <3>2, MaxOfUpTo, Zenon
      <4>2. h[s] = Body(f, s)
        BY <3>2, Zenon
      <4> QED
        BY <3>3, <4>1, <4>2, Zenon
    <3>5. Solves(k + 1, h)
      BY <3>4, Zenon
    <3> HIDE DEF h, Solves
    <3> QED
      BY <3>2, <3>5, Zenon
  <2> HIDE DEF T
  <2>3. n \in T
    <3>1. 0..n \subseteq T
      BY <1>1, <2>1, <2>2, UpTo, Zenon
    <3> QED
      BY <1>1, <3>1
  <2>4. PICK f : Solves(n, f)
    BY <2>3, Zenon DEF T
  <2>5. [s \in SUBSET (1..n) |-> f[s]] = [s \in SUBSET (1..n) |-> Body(f, s)]
    BY <2>4, Zenon
  <2>6. f = [s \in SUBSET (1..n) |-> Body(f, s)]
    BY <2>4, <2>5, Zenon
  <2> QED
    BY <2>6, Zenon
<1> HIDE DEF iter
<1> DEFINE h == [i \in 0..n |-> iter[1..i]]
<1>4. h[0] = base
  <2>1. 0 \in 0..n /\ 1..0 = {} /\ {} \in SUBSET (1..n)
    BY <1>1
  <2>2. iter[{}] = base
    BY <1>3, <2>1, Zenon
  <2> QED
    BY <2>1, <2>2, Zenon
<1>5. ASSUME NEW i \in 1..n PROVE h[i] = Step(literal, h[i - 1], t[i])
  <2>1. /\ i \in 0..n /\ i - 1 \in 0..n /\ i - 1 \in Nat /\ (i - 1) + 1 = i
        /\ 1..i \in SUBSET (1..n) /\ 1..i # {}
    <3>1. i \in 0..n /\ i - 1 \in 0..n /\ i - 1 \in Nat /\ (i - 1) + 1 = i /\ i \in 1..i
      BY <1>1
    <3>2. 1..i \subseteq 1..n
      BY <1>1
    <3> QED
      BY <3>1, <3>2, Zenon
  <2>2. Max(1..i) = i
    <3>1. i \in 1..i /\ \A y \in 1..i : i >= y
      BY <2>1
    <3>2. Max(1..i) \in 1..i /\ \A y \in 1..i : Max(1..i) >= y
      BY <3>1, Zenon DEF Max
    <3>3. PICK m \in 1..i : m = Max(1..i) /\ \A y \in 1..i : m >= y
      BY <3>2
    <3> QED
      BY <3>1, <3>3
  <2>3. (1..i) \ {i} = 1..(i - 1)
    BY <1>1
  <2>4. iter[1..i] = Step(literal, iter[1..(i - 1)], t[i])
    BY <1>3, <2>1, <2>2, <2>3, Zenon
  <2> QED
    BY <2>1, <2>4, Zenon
<1>6. h[n] = iter[1..n]
  BY <1>1
<1> HIDE DEF h
<1> QED
  BY <1>2, <1>4, <1>5, <1>6, Zenon DEF n

(* No character leaves an automaton where it is.                            *)
LEMMA AfterEmpty ==
  ASSUME NEW base, NEW literal \in BOOLEAN PROVE After(literal, base, <<>>) = base
<1>1. <<>> \in Seq(Nat) /\ Len(<<>>) = 0
  OBVIOUS
<1>2. PICK t \in Seq(Nat) : t = <<>> /\ Len(t) = 0
  BY <1>1, Zenon
<1>3. PICK h : /\ h[0] = base
               /\ \A i \in 1..Len(t) : h[i] = Step(literal, h[i - 1], t[i])
               /\ After(literal, base, t) = h[Len(t)]
  BY FoldSteps, Zenon
<1> QED
  BY <1>2, <1>3, Zenon

(* One more character.                                                      *)
LEMMA AfterAppend ==
  ASSUME NEW U, NEW t \in Seq(U), NEW c \in U, NEW base, NEW literal \in BOOLEAN
  PROVE  After(literal, base, Append(t, c)) = Step(literal, After(literal, base, t), c)
<1>1. PICK n \in Nat : n = Len(t)
  OBVIOUS
<1>2. PICK tt \in Seq(U) : tt = Append(t, c)
  BY Appended, Zenon
<1>3. Len(tt) = n + 1 /\ tt[n + 1] = c /\ \A i \in 1..n : tt[i] = t[i]
  <2>1. /\ Len(Append(t, c)) = Len(t) + 1
        /\ Append(t, c)[Len(t) + 1] = c
        /\ \A i \in 1..Len(t) : Append(t, c)[i] = t[i]
    BY Appended
  <2> QED
    BY <1>1, <1>2, <2>1, Zenon
<1>4. PICK f : /\ f[0] = base
               /\ \A i \in 1..n : f[i] = Step(literal, f[i - 1], t[i])
               /\ After(literal, base, t) = f[n]
  <2>1. PICK f : /\ f[0] = base
                 /\ \A i \in 1..Len(t) : f[i] = Step(literal, f[i - 1], t[i])
                 /\ After(literal, base, t) = f[Len(t)]
    BY FoldSteps, Zenon
  <2> QED
    BY <1>1, <2>1, Zenon
<1>5. PICK h : /\ h[0] = base
               /\ \A i \in 1..(n + 1) : h[i] = Step(literal, h[i - 1], tt[i])
               /\ After(literal, base, tt) = h[n + 1]
  <2>1. PICK h : /\ h[0] = base
                 /\ \A i \in 1..Len(tt) : h[i] = Step(literal, h[i - 1], tt[i])
                 /\ After(literal, base, tt) = h[Len(tt)]
    BY FoldSteps, Zenon
  <2> QED
    BY <1>3, <2>1, Zenon
<1> DEFINE Q == {i \in 0..n : f[i] = h[i]}
<1>6. 0 \in Q
  BY <1>4, <1>5
<1>7. ASSUME NEW i \in 0..(n - 1), i \in Q PROVE i + 1 \in Q
  <2>1. i + 1 \in 1..n /\ (i + 1) - 1 = i /\ i + 1 \in 0..n /\ i + 1 \in 1..(n + 1)
    OBVIOUS
  <2>2. f[i] = h[i]
    BY <1>7, Zenon
  <2>3. f[i + 1] = Step(literal, f[i], t[i + 1]) /\ h[i + 1] = Step(literal, h[i], tt[i + 1])
    BY <1>4, <1>5, <2>1, Zenon
  <2>4. f[i + 1] = h[i + 1]
    BY <1>3, <2>1, <2>2, <2>3, Zenon
  <2> QED
    BY <2>1, <2>4, Zenon
<1>8. f[n] = h[n]
  <2> HIDE DEF Q
  <2>1. 0..n \subseteq Q
    BY <1>6, <1>7, UpTo, Zenon
  <2>2. n \in 0..n
    OBVIOUS
  <2> QED
    BY <2>1, <2>2, Zenon DEF Q
<1>9. h[n + 1] = Step(literal, h[n], c)
  <2>1. n + 1 \in 1..(n + 1) /\ (n + 1) - 1 = n
    OBVIOUS
  <2> QED
    BY <1>3, <1>5, <2>1, Zenon
<1> QED
  BY <1>2, <1>4, <1>5, <1>8, <1>9, Zenon

(* What the escapes are made of.                                            *)
LEMMA Chars == "\\" \in Char /\ "\"" \in Char /\ "n" \in Char /\ "\n" \in Char
BY CharAssumption, Zenon

(* One or two characters more.                                              *)
LEMMA Concatenated ==
  ASSUME NEW U, NEW x \in Seq(U), NEW a \in U, NEW b \in U
  PROVE  /\ x \o <<a>> = Append(x, a)
         /\ x \o <<a, b>> = Append(Append(x, a), b)
         /\ <<a>> \in Seq(U) /\ <<a, b>> \in Seq(U)
OBVIOUS

(* unescape_ident between two characters of the name.                       *)
IdentState(chars) == [state |-> "BEGIN", o |-> chars]

(* One more character of a name, escaped or not.                            *)
LEMMA IdentAppended ==
  ASSUME NEW t \in Seq(Char), NEW chars \in Seq(Char), NEW c \in Char,
         NEW base, After(FALSE, base, t) = IdentState(chars)
  PROVE  /\ c # "\\" => After(FALSE, base, t \o <<c>>) = IdentState(Append(chars, c))
         /\ After(FALSE, base, t \o <<"\\", c>>) = IdentState(Append(chars, c))
<1>0. \A x \in Seq(Char) : \A d \in Char :
        After(FALSE, base, Append(x, d)) = UnescapeIdentStep(After(FALSE, base, x), d)
  <2>1. \A x \in Seq(Char) : \A d \in Char :
          After(FALSE, base, Append(x, d)) = Step(FALSE, After(FALSE, base, x), d)
    BY AfterAppend, Zenon
  <2> QED
    BY <2>1, Zenon DEF Step
<1>1. /\ t \o <<c>> = Append(t, c)
      /\ t \o <<"\\", c>> = Append(Append(t, "\\"), c)
      /\ "\\" \in Char
  <2>1. \A x \in Seq(Char) : \A a, b \in Char : x \o <<a>> = Append(x, a) /\ x \o <<a, b>> = Append(Append(x, a), b)
    OBVIOUS
  <2> QED
    BY <2>1, Chars, Zenon
<1>2. Append(t, "\\") \in Seq(Char)
  BY <1>1, Appended
<1>3. c # "\\" => After(FALSE, base, t \o <<c>>) = IdentState(Append(chars, c))
  <2>1. After(FALSE, base, Append(t, c)) = UnescapeIdentStep(IdentState(chars), c)
    BY <1>0, Zenon
  <2>2. c # "\\" => UnescapeIdentStep(IdentState(chars), c) = IdentState(Append(chars, c))
    BY DEF UnescapeIdentStep, IdentState
  <2> QED
    BY <1>1, <2>1, <2>2, Zenon
<1>4. After(FALSE, base, t \o <<"\\", c>>) = IdentState(Append(chars, c))
  <2>1. After(FALSE, base, Append(t, "\\")) = UnescapeIdentStep(IdentState(chars), "\\")
    BY <1>0, <1>1, Zenon
  <2>2. UnescapeIdentStep(IdentState(chars), "\\") = [state |-> "ESCAPE", o |-> chars]
    BY DEF UnescapeIdentStep, IdentState
  <2>3. After(FALSE, base, Append(Append(t, "\\"), c))
          = UnescapeIdentStep([state |-> "ESCAPE", o |-> chars], c)
    BY <1>0, <1>2, <2>1, <2>2, Zenon
  <2>4. UnescapeIdentStep([state |-> "ESCAPE", o |-> chars], c) = IdentState(Append(chars, c))
    BY DEF UnescapeIdentStep, IdentState
  <2> QED
    BY <1>1, <2>3, <2>4, Zenon
<1> QED
  BY <1>3, <1>4

(* No word of the language has a backslash.                                 *)
LEMMA WordsUnescaped == "\\" \notin Word
BY LetterAssumption DEF Word, Digit

(* Whatever its characters, a name is decoded to what it was.  Its escaped  *)
(* form is the name itself or has a backslash somewhere.                    *)
THEOREM EscapedIdent ==
  ASSUME NEW s \in Seq(Char)
  PROVE  /\ escape_ident(s) \in Seq(Char)
         /\ unescape_ident(escape_ident(s)) = s
         /\ escape_ident(s) = s \/ \E i \in 1..Len(escape_ident(s)) : escape_ident(s)[i] = "\\"
         /\ s # <<>> => /\ 1 \in DOMAIN escape_ident(s)
                        /\ \/ escape_ident(s)[1] = "\\"
                           \/ escape_ident(s)[1] \in Letter
                           \/ Head(s) = "_"
<1> DEFINE n == Len(s)
           plain(i) == /\ s[i] \in Word
                       /\ s[i] \in Digit => i > 1 /\ s[i - 1] \notin LineSeparator
           ss == [i \in DOMAIN s |-> IF plain(i) THEN <<s[i]>> ELSE <<"\\", s[i]>>]
           base == IdentState(<<>>)
           Begin(k) == [i \in 1..k |-> s[i]]
<1>1. n \in Nat /\ DOMAIN s = 1..n /\ \A i \in 1..n : s[i] \in Char
  OBVIOUS
<1>2. escape_ident(s) = FlattenSeq(ss)
  BY Zenon DEF escape_ident
<1>3. \A i \in 1..n : ss[i] = IF plain(i) THEN <<s[i]>> ELSE <<"\\", s[i]>>
  BY <1>1, Zenon
<1>4. \A i \in 1..n : plain(i) => s[i] # "\\" /\ (i = 1 => s[i] \in Letter \/ s[i] = "_")
  <2>1. ASSUME NEW i \in 1..n, plain(i) PROVE s[i] # "\\"
    BY <2>1, WordsUnescaped, Zenon
  <2>2. ASSUME NEW i \in 1..n, plain(i), i = 1 PROVE s[i] \in Letter \/ s[i] = "_"
    <3>1. ~(1 > 1)
      OBVIOUS
    <3> QED
      BY <2>2, <3>1, Zenon DEF Word
  <2> QED
    BY <2>1, <2>2, Zenon
<1> HIDE DEF plain
<1>5. \A i \in 1..n : ss[i] \in Seq(Char)
  BY <1>1, <1>3, Concatenated, Chars, Zenon
<1>6. ss \in Seq(Seq(Char)) /\ Len(ss) = n
  <2> HIDE DEF n
  <2>1. ss = [i \in 1..n |-> ss[i]]
    BY <1>1, Zenon
  <2> HIDE DEF ss
  <2> QED
    BY <1>1, <1>5, <2>1
<1> HIDE DEF ss, n
<1>7. PICK f : /\ f[0] = <<>>
               /\ \A i \in 1..n : f[i] = f[i - 1] \o ss[i]
               /\ \A i \in 0..n : f[i] \in Seq(Char)
               /\ FlattenSeq(ss) = f[n]
  <2>1. PICK f : /\ f[0] = <<>>
                 /\ \A i \in 1..Len(ss) : f[i] = f[i - 1] \o ss[i]
                 /\ \A i \in 0..Len(ss) : f[i] \in Seq(Char)
                 /\ FlattenSeq(ss) = f[Len(ss)]
    BY <1>6, FlattenPrefixes, Zenon
  <2> QED
    BY <1>6, <2>1, Zenon
<1> DEFINE Unescapes(k) == After(FALSE, base, f[k]) = IdentState(Begin(k))
           Same_(k) == f[k] = Begin(k) \/ \E i \in 1..Len(f[k]) : f[k][i] = "\\"
           First(k) == k # 0 => Len(f[k]) > 0 /\ f[k][1] = ss[1][1]
           Q == {k \in 0..n : Unescapes(k) /\ Same_(k) /\ First(k)}
<1>8. 0 \in Q
  <2>1. Begin(0) = <<>> /\ 0 \in 0..n
    BY <1>1
  <2> QED
    BY <1>7, <2>1, AfterEmpty, Zenon
<1>9. ASSUME NEW k \in 0..(n - 1), k \in Q PROVE k + 1 \in Q
  <2>0. Unescapes(k) /\ Same_(k) /\ First(k)
    BY <1>9, Zenon
  <2>1. PICK j \in 1..n : j = k + 1 /\ j - 1 = k /\ k \in 0..n /\ j \in 0..n /\ k \in Nat
    BY <1>1
  <2>2. PICK c \in Char : c = s[j]
    BY <1>1, Zenon
  <2>3. f[j] = f[k] \o ss[j]
    BY <1>7, <2>1, Zenon
  <2>4. PICK b \in Seq(Char) : b = Begin(k) /\ Len(b) = k /\ Begin(j) = Append(b, c)
    <3>1. Begin(k) \in Seq(Char) /\ Len(Begin(k)) = k
      BY <1>1, <2>1
    <3>2. Begin(j) = Append(Begin(k), c)
      BY <1>1, <2>1, <2>2
    <3> QED
      BY <3>1, <3>2, Zenon
  <2>5. PICK x \in Seq(Char) : x = f[k]
    BY <1>7, <2>1, Zenon
  <2> HIDE DEF Begin
  <2>6. Unescapes(j)
    <3>1. /\ c # "\\" => After(FALSE, base, x \o <<c>>) = IdentState(Append(b, c))
          /\ After(FALSE, base, x \o <<"\\", c>>) = IdentState(Append(b, c))
      <4>1. After(FALSE, base, x) = IdentState(b)
        BY <2>0, <2>4, <2>5, Zenon
      <4> HIDE DEF base
      <4> QED
        BY <4>1, IdentAppended, Zenon
    <3>2. CASE plain(j)
      <4>1. f[j] = x \o <<c>> /\ c # "\\"
        BY <1>3, <1>4, <2>2, <2>3, <2>5, <3>2, Zenon
      <4> QED
        BY <2>4, <3>1, <4>1, Zenon
    <3>3. CASE ~plain(j)
      <4>1. f[j] = x \o <<"\\", c>>
        BY <1>3, <2>2, <2>3, <2>5, <3>3, Zenon
      <4> QED
        BY <2>4, <3>1, <4>1, Zenon
    <3> QED
      BY <3>2, <3>3, Zenon
  <2>7. Same_(j)
    <3>1. CASE plain(j) /\ x = b
      <4>1. f[j] = b \o <<c>>
        BY <1>3, <2>2, <2>3, <2>5, <3>1, Zenon
      <4>2. b \o <<c>> = Append(b, c)
        OBVIOUS
      <4> QED
        BY <2>4, <4>1, <4>2, Zenon
    <3>2. CASE \E i \in 1..Len(x) : x[i] = "\\"
      <4>1. ss[j] \in Seq(Char)
        BY <1>5, Zenon
      <4>2. \A y, z \in Seq(Char) : \A i \in 1..Len(y) : i \in 1..Len(y \o z) /\ (y \o z)[i] = y[i]
        OBVIOUS
      <4>3. PICK i \in 1..Len(x) : x[i] = "\\"
        BY <3>2, Zenon
      <4>4. i \in 1..Len(x \o ss[j]) /\ (x \o ss[j])[i] = "\\"
        BY <4>1, <4>2, <4>3, Zenon
      <4> QED
        BY <2>3, <2>5, <4>4, Zenon
    <3>3. CASE ~plain(j)
      <4>1. f[j] = x \o <<"\\", c>>
        BY <1>3, <2>2, <2>3, <2>5, <3>3, Zenon
      <4>2. \A y \in Seq(Char) : \A z : Len(y) + 1 \in 1..Len(y \o <<"\\", z>>) /\ (y \o <<"\\", z>>)[Len(y) + 1] = "\\"
        OBVIOUS
      <4> QED
        BY <4>1, <4>2, Zenon
    <3> QED
      BY <2>0, <2>4, <2>5, <3>1, <3>2, <3>3, Zenon
  <2>8. First(j)
    <3>1. PICK z \in Seq(Char) : z = ss[j] /\ Len(z) > 0
      <4>1. Len(<<c>>) > 0 /\ Len(<<"\\", c>>) > 0
        OBVIOUS
      <4> QED
        BY <1>3, <1>5, <2>2, <4>1, Zenon
    <3>2. f[j] = x \o z
      BY <2>3, <2>5, <3>1, Zenon
    <3>3. CASE k = 0
      <4>1. x = <<>> /\ j = 1
        BY <1>7, <2>1, <2>5, <3>3
      <4>2. x \o z = z
        BY <4>1
      <4> QED
        BY <3>1, <3>2, <4>1, <4>2, Zenon
    <3>4. CASE k # 0
      <4>1. Len(x) > 0 /\ x[1] = ss[1][1]
        BY <2>0, <2>5, <3>4, Zenon
      <4>2. Len(x \o z) > 0 /\ (x \o z)[1] = x[1]
        BY <4>1
      <4> QED
        BY <3>2, <4>1, <4>2, Zenon
    <3> QED
      BY <3>3, <3>4
  <2> HIDE DEF Unescapes, Same_, First
  <2> QED
    BY <2>1, <2>6, <2>7, <2>8, Zenon
<1>10. Unescapes(n) /\ Same_(n) /\ First(n)
  <2> HIDE DEF Q
  <2>1. 0..n \subseteq Q
    BY <1>1, <1>8, <1>9, UpTo, Zenon
  <2>2. n \in 0..n
    BY <1>1
  <2> QED
    BY <2>1, <2>2, Zenon DEF Q
<1>11. Begin(n) = s
  BY DEF n
<1>12. escape_ident(s) = f[n] /\ f[n] \in Seq(Char)
  <2>1. n \in 0..n
    BY <1>1
  <2> QED
    BY <1>2, <1>7, <2>1, Zenon
<1>13. unescape_ident(escape_ident(s)) = s
  <2>1. unescape_ident(f[n]) = After(FALSE, base, f[n]).o
    BY Zenon DEF unescape_ident, After, IdentState
  <2>2. After(FALSE, base, f[n]) = IdentState(s)
    BY <1>10, <1>11, Zenon
  <2>3. IdentState(s).o = s
    BY DEF IdentState
  <2> QED
    BY <1>12, <2>1, <2>2, <2>3, Zenon
<1>14. ASSUME s # <<>>
       PROVE  /\ 1 \in DOMAIN f[n]
              /\ \/ f[n][1] = "\\"
                 \/ f[n][1] \in Letter
                 \/ Head(s) = "_"
  <2>1. n # 0 /\ 1 \in 1..n /\ Head(s) = s[1]
    BY <1>14 DEF n
  <2>2. Len(f[n]) > 0 /\ f[n][1] = ss[1][1]
    BY <1>10, <2>1, Zenon
  <2>3. 1 \in DOMAIN f[n]
    BY <1>12, <2>2
  <2>4. CASE plain(1)
    <3>1. ss[1][1] = s[1]
      <4>1. ss[1] = <<s[1]>>
        BY <1>3, <2>1, <2>4, Zenon
      <4> QED
        BY <4>1
    <3> QED
      BY <1>4, <2>1, <2>2, <2>3, <2>4, <3>1, Zenon
  <2>5. CASE ~plain(1)
    <3>1. ss[1][1] = "\\"
      <4>1. ss[1] = <<"\\", s[1]>>
        BY <1>3, <2>1, <2>5, Zenon
      <4> QED
        BY <4>1
    <3> QED
      BY <2>2, <2>3, <3>1, Zenon
  <2> QED
    BY <2>4, <2>5
<1> QED
  BY <1>10, <1>11, <1>12, <1>13, <1>14, Zenon

(* A text with a text for each of its characters.                           *)
Maps(K, V) ==
  \E M : /\ \A s \in Seq(Char) : /\ M[s] = [i \in DOMAIN s |-> K[s[i]]]
                                 /\ M[s] \in Seq(V)
                                 /\ \A x \in Char : M[Append(s, x)] = Append(M[s], K[x])
         /\ M[<<>>] = <<>>

(* Such a list grows by one text with each character.                       *)
LEMMA Mapped == ASSUME NEW V, NEW K \in [Char -> V] PROVE Maps(K, V)
<1> DEFINE M == [s \in Seq(Char) |-> [i \in DOMAIN s |-> K[s[i]]]]
<1>1. \A s \in Seq(Char) : M[s] = [i \in DOMAIN s |-> K[s[i]]]
  BY Zenon
<1> HIDE DEF M
<1>2. ASSUME NEW s \in Seq(Char), NEW x \in Char
      PROVE  /\ [i \in DOMAIN s |-> K[s[i]]] \in Seq(V)
             /\ [i \in DOMAIN Append(s, x) |-> K[Append(s, x)[i]]] = Append([i \in DOMAIN s |-> K[s[i]]], K[x])
             /\ Append(s, x) \in Seq(Char)
  OBVIOUS
<1>3. \A s \in Seq(Char) : [i \in DOMAIN s |-> K[s[i]]] \in Seq(V)
  OBVIOUS
<1>4. M[<<>>] = <<>>
  <2>1. <<>> \in Seq(Char) /\ [i \in DOMAIN <<>> |-> K[<<>>[i]]] = <<>>
    OBVIOUS
  <2> QED
    BY <1>1, <2>1, Zenon
<1>5. \A s \in Seq(Char) : \A x \in Char : M[Append(s, x)] = Append(M[s], K[x])
  BY <1>1, <1>2, Zenon
<1>6. \A s \in Seq(Char) : M[s] \in Seq(V)
  BY <1>1, <1>3, Zenon
<1> QED
  BY <1>1, <1>4, <1>5, <1>6, Zenon DEF Maps

(* What one replacement does, character by character.                       *)
LEMMA Replaced ==
  ASSUME NEW c \in Char, NEW by \in Seq(Char)
  PROVE  \E R \in [Seq(Char) -> Seq(Char)] :
           /\ \A t \in Seq(Char) : replace_all(t, c, by) = R[t]
           /\ \A t \in Seq(Char) : \A x \in Char :
                /\ x = c => R[Append(t, x)] = R[t] \o by
                /\ x # c => R[Append(t, x)] = Append(R[t], x)
           /\ R[<<>>] = <<>>
<1>1. PICK K \in [Char -> Seq(Char)] : \A y \in Char : K[y] = IF y = c THEN by ELSE <<y>>
  <2>1. \A y \in Char : <<y>> \in Seq(Char)
    OBVIOUS
  <2>2. [y \in Char |-> IF y = c THEN by ELSE <<y>>] \in [Char -> Seq(Char)]
    BY <2>1, Zenon
  <2> QED
    BY <2>2, Zenon
<1>2. PICK M : /\ \A s \in Seq(Char) : /\ M[s] = [i \in DOMAIN s |-> K[s[i]]]
                                       /\ M[s] \in Seq(Seq(Char))
                                       /\ \A x \in Char : M[Append(s, x)] = Append(M[s], K[x])
               /\ M[<<>>] = <<>>
  <2>1. Maps(K, Seq(Char))
    BY Mapped, Zenon
  <2> QED
    BY <2>1, Zenon DEF Maps
<1>3. ASSUME NEW t \in Seq(Char) PROVE replace_all(t, c, by) = FlattenSeq(M[t])
  <2>1. \A i \in DOMAIN t : t[i] \in Char
    OBVIOUS
  <2>2. \A i \in DOMAIN t : K[t[i]] = IF t[i] = c THEN by ELSE <<t[i]>>
    BY <1>1, <2>1, Zenon
  <2>3. [i \in DOMAIN t |-> IF t[i] = c THEN by ELSE <<t[i]>>] = M[t]
    BY <1>2, <2>2, Zenon
  <2> QED
    BY <2>3, Zenon DEF replace_all
<1> DEFINE R == [t \in Seq(Char) |-> FlattenSeq(M[t])]
<1>4. \A t \in Seq(Char) : R[t] = FlattenSeq(M[t])
  BY Zenon
<1>5. R \in [Seq(Char) -> Seq(Char)]
  BY <1>2, FlattenInSeq, Zenon
<1> HIDE DEF R
<1>6. /\ <<>> \in Seq(Char)
      /\ \A t \in Seq(Char) : \A x \in Char : Append(t, x) \in Seq(Char) /\ t \o <<x>> = Append(t, x)
  OBVIOUS
<1>7. R[<<>>] = <<>>
  BY <1>2, <1>4, <1>6, FlattenEmpty, Zenon
<1>8. \A t \in Seq(Char) : \A x \in Char : R[Append(t, x)] = R[t] \o K[x]
  <2> SUFFICES ASSUME NEW t \in Seq(Char), NEW x \in Char PROVE R[Append(t, x)] = R[t] \o K[x]
    OBVIOUS
  <2>1. K[x] \in Seq(Char) /\ M[t] \in Seq(Seq(Char))
    BY <1>2, Zenon
  <2>2. FlattenSeq(Append(M[t], K[x])) = FlattenSeq(M[t]) \o K[x]
    BY <2>1, FlattenAppend, Zenon
  <2> QED
    <3>1. R[Append(t, x)] = FlattenSeq(M[Append(t, x)]) /\ R[t] = FlattenSeq(M[t])
      BY <1>4, <1>6, Zenon
    <3>2. M[Append(t, x)] = Append(M[t], K[x])
      BY <1>2, Zenon
    <3> QED
      BY <2>2, <3>1, <3>2, Zenon
<1>9. ASSUME NEW t \in Seq(Char), NEW x \in Char
      PROVE  /\ x = c => R[Append(t, x)] = R[t] \o by
             /\ x # c => R[Append(t, x)] = Append(R[t], x)
  <2>1. x = c => K[x] = by
    BY <1>1, Zenon
  <2>2. x # c => K[x] = <<x>>
    BY <1>1, Zenon
  <2>3. R[t] \o <<x>> = Append(R[t], x)
    BY <1>5, <1>6, Zenon
  <2> QED
    BY <1>8, <2>1, <2>2, <2>3, Zenon
<1> QED
  BY <1>3, <1>4, <1>5, <1>7, <1>9, Zenon

(* The escape of a character.                                               *)
EscapeOf(x) == CASE x = "\\" -> <<"\\", "\\">>
                 [] x = "\n" -> <<"\\", "n">>
                 [] x = "\"" -> <<"\\", "\"">>
                 [] OTHER -> <<x>>

(* What the three of them do together.                                      *)
LEMMA EscapedAppend ==
  ASSUME NEW s \in Seq(Char), NEW x \in Char
  PROVE  /\ escape_string_lit(s) \in Seq(Char)
         /\ escape_string_lit(Append(s, x)) = escape_string_lit(s) \o EscapeOf(x)
         /\ escape_string_lit(<<>>) = <<>>
<1>1. /\ \A a, b \in Char : <<a, b>> \in Seq(Char)
      /\ \A t \in Seq(Char) : \A a, b \in Char : t \o <<a>> = Append(t, a) /\ Append(t, a) \in Seq(Char)
                              /\ t \o <<a, b>> = Append(Append(t, a), b)
      /\ <<>> \in Seq(Char)
  OBVIOUS
<1>2. <<"\\", "\\">> \in Seq(Char) /\ <<"\\", "n">> \in Seq(Char) /\ <<"\\", "\"">> \in Seq(Char)
  BY <1>1, Chars, Zenon
<1>3. PICK R1 \in [Seq(Char) -> Seq(Char)] :
               /\ \A t \in Seq(Char) : replace_all(t, "\\", <<"\\", "\\">>) = R1[t]
               /\ \A t \in Seq(Char) : \A y \in Char :
                    /\ y = "\\" => R1[Append(t, y)] = R1[t] \o <<"\\", "\\">>
                    /\ y # "\\" => R1[Append(t, y)] = Append(R1[t], y)
               /\ R1[<<>>] = <<>>
  BY <1>2, Chars, Replaced, Zenon
<1>4. PICK R2 \in [Seq(Char) -> Seq(Char)] :
               /\ \A t \in Seq(Char) : replace_all(t, "\n", <<"\\", "n">>) = R2[t]
               /\ \A t \in Seq(Char) : \A y \in Char :
                    /\ y = "\n" => R2[Append(t, y)] = R2[t] \o <<"\\", "n">>
                    /\ y # "\n" => R2[Append(t, y)] = Append(R2[t], y)
               /\ R2[<<>>] = <<>>
  BY <1>2, Chars, Replaced, Zenon
<1>5. PICK R3 \in [Seq(Char) -> Seq(Char)] :
               /\ \A t \in Seq(Char) : replace_all(t, "\"", <<"\\", "\"">>) = R3[t]
               /\ \A t \in Seq(Char) : \A y \in Char :
                    /\ y = "\"" => R3[Append(t, y)] = R3[t] \o <<"\\", "\"">>
                    /\ y # "\"" => R3[Append(t, y)] = Append(R3[t], y)
               /\ R3[<<>>] = <<>>
  BY <1>2, Chars, Replaced, Zenon
<1>6. \A t \in Seq(Char) : R1[t] \in Seq(Char) /\ R2[t] \in Seq(Char) /\ R3[t] \in Seq(Char)
  OBVIOUS
<1>7. \A t \in Seq(Char) : escape_string_lit(t) = R3[R2[R1[t]]]
  BY <1>3, <1>4, <1>5, <1>6, Zenon DEF escape_string_lit
<1>8. ASSUME NEW t \in Seq(Char), NEW a \in Char, NEW b \in Char
      PROVE  /\ a # "\n" /\ b # "\n" => R2[Append(Append(t, a), b)] = Append(Append(R2[t], a), b)
             /\ a # "\"" /\ b # "\"" => R3[Append(Append(t, a), b)] = Append(Append(R3[t], a), b)
  <2>1. Append(t, a) \in Seq(Char)
    BY <1>1, Zenon
  <2>2. /\ a # "\n" => R2[Append(t, a)] = Append(R2[t], a)
        /\ a # "\"" => R3[Append(t, a)] = Append(R3[t], a)
    BY <1>4, <1>5, Zenon
  <2>3. /\ b # "\n" => R2[Append(Append(t, a), b)] = Append(R2[Append(t, a)], b)
        /\ b # "\"" => R3[Append(Append(t, a), b)] = Append(R3[Append(t, a)], b)
    BY <1>4, <1>5, <2>1, Zenon
  <2> QED
    BY <2>2, <2>3, Zenon
<1>9. PICK r1 \in Seq(Char) : r1 = R1[s]
  BY <1>6
<1>10. PICK r2 \in Seq(Char) : r2 = R2[r1]
  BY <1>6
<1>11. PICK r3 \in Seq(Char) : r3 = R3[r2]
  BY <1>6
<1>12. escape_string_lit(s) = r3 /\ escape_string_lit(<<>>) = <<>>
  <2>1. escape_string_lit(s) = R3[R2[R1[s]]]
    BY <1>7, Zenon
  <2>2. escape_string_lit(<<>>) = R3[R2[R1[<<>>]]]
    BY <1>1, <1>7, Zenon
  <2>3. R3[R2[R1[s]]] = r3
    BY <1>9, <1>10, <1>11, Zenon
  <2>4. R3[R2[R1[<<>>]]] = <<>>
    BY <1>3, <1>4, <1>5, Zenon
  <2> QED
    BY <2>1, <2>2, <2>3, <2>4, Zenon
<1>13. escape_string_lit(Append(s, x)) = R3[R2[R1[Append(s, x)]]]
  BY <1>1, <1>7, Zenon
<1>14. "\\" # "\n" /\ "\\" # "\"" /\ "n" # "\"" /\ "\n" # "\""
  OBVIOUS
<1>15. ASSUME x = "\\" PROVE escape_string_lit(Append(s, x)) = r3 \o EscapeOf(x)
  <2>1. R1[Append(s, x)] = r1 \o <<"\\", "\\">>
    BY <1>3, <1>9, <1>15, Zenon
  <2>2. r1 \o <<"\\", "\\">> = Append(Append(r1, "\\"), "\\")
    BY <1>1, Chars, Zenon
  <2>3. R2[Append(Append(r1, "\\"), "\\")] = Append(Append(r2, "\\"), "\\")
    BY <1>8, <1>10, <1>14, Chars, Zenon
  <2>4. R3[Append(Append(r2, "\\"), "\\")] = Append(Append(r3, "\\"), "\\")
    BY <1>8, <1>11, <1>14, Chars, Zenon
  <2>5. EscapeOf(x) = <<"\\", "\\">> /\ r3 \o <<"\\", "\\">> = Append(Append(r3, "\\"), "\\")
    BY <1>1, <1>15, Chars, Zenon DEF EscapeOf
  <2> QED
    BY <1>13, <2>1, <2>2, <2>3, <2>4, <2>5, Zenon
<1>16. ASSUME x = "\n" PROVE escape_string_lit(Append(s, x)) = r3 \o EscapeOf(x)
  <2>1. R1[Append(s, x)] = Append(r1, "\n")
    BY <1>3, <1>9, <1>14, <1>16, Zenon
  <2>2. R2[Append(r1, "\n")] = r2 \o <<"\\", "n">>
    BY <1>4, <1>10, Chars, Zenon
  <2>3. r2 \o <<"\\", "n">> = Append(Append(r2, "\\"), "n")
    BY <1>1, Chars, Zenon
  <2>4. R3[Append(Append(r2, "\\"), "n")] = Append(Append(r3, "\\"), "n")
    BY <1>8, <1>11, <1>14, Chars, Zenon
  <2>5. EscapeOf(x) = <<"\\", "n">> /\ r3 \o <<"\\", "n">> = Append(Append(r3, "\\"), "n")
    BY <1>1, <1>14, <1>16, Chars, Zenon DEF EscapeOf
  <2> QED
    BY <1>13, <2>1, <2>2, <2>3, <2>4, <2>5, Zenon
<1>17. ASSUME x = "\"" PROVE escape_string_lit(Append(s, x)) = r3 \o EscapeOf(x)
  <2>1. R1[Append(s, x)] = Append(r1, "\"")
    BY <1>3, <1>9, <1>14, <1>17, Zenon
  <2>2. R2[Append(r1, "\"")] = Append(r2, "\"")
    BY <1>4, <1>10, <1>14, Chars, Zenon
  <2>3. R3[Append(r2, "\"")] = r3 \o <<"\\", "\"">>
    BY <1>5, <1>11, Chars, Zenon
  <2>4. EscapeOf(x) = <<"\\", "\"">>
    BY <1>14, <1>17, Zenon DEF EscapeOf
  <2> QED
    BY <1>13, <2>1, <2>2, <2>3, <2>4, Zenon
<1>18. ASSUME x \notin {"\\", "\n", "\""} PROVE escape_string_lit(Append(s, x)) = r3 \o EscapeOf(x)
  <2>0. x # "\\" /\ x # "\n" /\ x # "\""
    BY <1>18, Zenon
  <2>1. R1[Append(s, x)] = Append(r1, x)
    BY <1>3, <1>9, <2>0, Zenon
  <2>2. R2[Append(r1, x)] = Append(r2, x)
    BY <1>4, <1>10, <2>0, Zenon
  <2>3. R3[Append(r2, x)] = Append(r3, x)
    BY <1>5, <1>11, <2>0, Zenon
  <2>4. EscapeOf(x) = <<x>> /\ r3 \o <<x>> = Append(r3, x)
    BY <1>1, <2>0, Zenon DEF EscapeOf
  <2> QED
    BY <1>13, <2>1, <2>2, <2>3, <2>4, Zenon
<1>19. escape_string_lit(Append(s, x)) = r3 \o EscapeOf(x)
  BY <1>15, <1>16, <1>17, <1>18, Zenon
<1> QED
  BY <1>12, <1>19, Zenon

(* unescape_string_lit between two characters of the string.                *)
LiteralState(chars) == [state |-> "BEGIN", digits |-> <<>>, o |-> chars]

(* One more escaped character of a string.                                  *)
LEMMA LiteralAppended ==
  ASSUME NEW t \in Seq(Char), NEW chars \in Seq(Char), NEW x \in Char,
         NEW base, After(TRUE, base, t) = LiteralState(chars)
  PROVE  After(TRUE, base, t \o EscapeOf(x)) = LiteralState(Append(chars, x))
<1>0. \A y \in Seq(Char) : \A d \in Char :
        After(TRUE, base, Append(y, d)) = UnescapeStep(After(TRUE, base, y), d)
  <2>1. \A y \in Seq(Char) : \A d \in Char :
          After(TRUE, base, Append(y, d)) = Step(TRUE, After(TRUE, base, y), d)
    BY AfterAppend, Zenon
  <2> QED
    BY <2>1, Zenon DEF Step
<1>1. \A y \in Seq(Char) : \A a, b \in Char :
        y \o <<a>> = Append(y, a) /\ Append(y, a) \in Seq(Char) /\ y \o <<a, b>> = Append(Append(y, a), b)
  OBVIOUS
<1> DEFINE escape == [state |-> "ESCAPE", digits |-> <<>>, o |-> chars]
<1>2. /\ LiteralState(chars).state = "BEGIN" /\ LiteralState(chars).digits = <<>>
      /\ LiteralState(chars).o = chars
      /\ [LiteralState(chars) EXCEPT !.state = "ESCAPE"] = escape
  BY DEF LiteralState
<1>3. escape.state = "ESCAPE" /\ escape.digits = <<>> /\ escape.o = chars
  OBVIOUS
<1> HIDE DEF escape
<1>4. UnescapeStep(LiteralState(chars), "\\") = escape
  BY <1>2, Zenon DEF UnescapeStep
<1>5. ASSUME x # "\\", x # "\""
      PROVE  UnescapeStep(LiteralState(chars), x) = LiteralState(chars \o <<x>>)
  BY <1>2, <1>5, Zenon DEF UnescapeStep, LiteralState
<1>6. DOMAIN Escapes = {"n", "t", "v", "b", "r", "f", "a"} /\ Escapes["n"] = "\n"
  BY DEF Escapes
<1>7. /\ "n" \in DOMAIN Escapes /\ "\\" \notin DOMAIN Escapes /\ "\"" \notin DOMAIN Escapes
      /\ "n" \notin Same /\ "\\" \in Same /\ "\"" \in Same
      /\ "n" \notin Digit /\ "\\" \notin Digit /\ "\"" \notin Digit
  BY <1>6 DEF Same, Digit
<1>8. UnescapeStep(escape, "n") = LiteralState(chars \o <<"\n">>)
  BY <1>3, <1>6, <1>7, Zenon DEF UnescapeStep, LiteralState
<1>9. /\ UnescapeStep(escape, "\\") = LiteralState(chars \o <<"\\">>)
      /\ UnescapeStep(escape, "\"") = LiteralState(chars \o <<"\"">>)
  BY <1>3, <1>7, Zenon DEF UnescapeStep, LiteralState
<1>10. After(TRUE, base, Append(t, "\\")) = escape
  BY <1>0, <1>4, Chars, Zenon
<1>11. CASE x \in {"\\", "\n", "\""}
  <2> DEFINE d == IF x = "\n" THEN "n" ELSE x
  <2>0. d \in Char
    BY <1>11, Chars, Zenon
  <2>1. UnescapeStep(escape, d) = LiteralState(Append(chars, x))
    <3>1. chars \o <<x>> = Append(chars, x)
      BY <1>1, Zenon
    <3>2. UnescapeStep(escape, d) = LiteralState(chars \o <<x>>)
      BY <1>8, <1>9, <1>11, Zenon
    <3> QED
      BY <3>1, <3>2, Zenon
  <2>2. EscapeOf(x) = <<"\\", d>>
    BY <1>11, Zenon DEF EscapeOf
  <2> HIDE DEF d
  <2>3. t \o <<"\\", d>> = Append(Append(t, "\\"), d) /\ Append(t, "\\") \in Seq(Char)
    BY <1>1, <2>0, Chars, Zenon
  <2>4. After(TRUE, base, Append(Append(t, "\\"), d)) = UnescapeStep(escape, d)
    BY <1>0, <1>10, <2>0, <2>3, Zenon
  <2> QED
    BY <2>1, <2>2, <2>3, <2>4, Zenon
<1>12. CASE x \notin {"\\", "\n", "\""}
  <2>1. EscapeOf(x) = <<x>> /\ x # "\\" /\ x # "\""
    BY <1>12, Zenon DEF EscapeOf
  <2>2. t \o EscapeOf(x) = Append(t, x) /\ chars \o <<x>> = Append(chars, x)
    BY <1>1, <2>1, Zenon
  <2> QED
    BY <1>0, <1>5, <2>1, <2>2, Zenon
<1> QED
  BY <1>11, <1>12

(* The library's decoder returns the string that was escaped and quoted,    *)
(* whatever its characters.                                                 *)
THEOREM LiteralDecoded ==
  ASSUME NEW s \in Seq(Char)
  PROVE  /\ escape_string_lit(s) \in Seq(Char)
         /\ Quoted(escape_string_lit(s)) \in Seq(Char)
         /\ unescape_string_lit(Quoted(escape_string_lit(s))) = s
<1> DEFINE base == LiteralState(<<>>)
           Begin(k) == [i \in 1..k |-> s[i]]
           Q == {k \in 0..Len(s) : After(TRUE, base, escape_string_lit(Begin(k))) = LiteralState(Begin(k))}
<1>1. PICK n \in Nat : n = Len(s) /\ \A i \in 1..n : s[i] \in Char
  OBVIOUS
<1>2. \A k \in 0..n : Begin(k) \in Seq(Char)
  BY <1>1
<1>3. 0 \in Q
  <2>1. Begin(0) = <<>> /\ 0 \in 0..Len(s) /\ <<>> \in Seq(Char)
    BY <1>1
  <2>2. escape_string_lit(<<>>) = <<>>
    BY <2>1, Chars, EscapedAppend, Zenon
  <2> QED
    BY <2>1, <2>2, AfterEmpty, Zenon
<1>4. ASSUME NEW k \in 0..(n - 1), k \in Q PROVE k + 1 \in Q
  <2>1. PICK j \in 1..n : j = k + 1 /\ k \in 0..n /\ j \in 0..n
    BY <1>1
  <2>2. PICK b \in Seq(Char) : b = Begin(k)
    BY <1>2, <2>1
  <2>3. PICK c \in Char : c = s[j]
    BY <1>1
  <2>4. Begin(j) = Append(b, c)
    BY <1>1, <2>1, <2>2, <2>3
  <2>5. escape_string_lit(Begin(j)) = escape_string_lit(b) \o EscapeOf(c) /\ escape_string_lit(b) \in Seq(Char)
    BY <2>4, EscapedAppend, Zenon
  <2>6. After(TRUE, base, escape_string_lit(b)) = LiteralState(b)
    BY <1>4, <2>2, Zenon
  <2> HIDE DEF base, Begin
  <2>7. After(TRUE, base, escape_string_lit(b) \o EscapeOf(c)) = LiteralState(Append(b, c))
    BY <2>5, <2>6, LiteralAppended, Zenon
  <2>8. After(TRUE, base, escape_string_lit(Begin(j))) = LiteralState(Begin(j))
    BY <2>4, <2>5, <2>7, Zenon
  <2> QED
    BY <1>1, <2>1, <2>8, Zenon
<1>5. n \in Q
  <2> HIDE DEF Q
  <2>1. 0..n \subseteq Q
    BY <1>1, <1>3, <1>4, UpTo, Zenon
  <2>2. n \in 0..n
    BY <1>1
  <2> QED
    BY <2>1, <2>2, Zenon
<1>6. Begin(n) = s
  BY <1>1
<1>7. PICK e \in Seq(Char) : e = escape_string_lit(s)
  BY Chars, EscapedAppend, Zenon
<1>8. After(TRUE, base, e).o = s
  <2>1. After(TRUE, base, e) = LiteralState(s)
    BY <1>5, <1>6, <1>7, Zenon
  <2>2. LiteralState(s).o = s
    BY DEF LiteralState
  <2> QED
    BY <2>1, <2>2, Zenon
<1>9. PICK q \in Seq(Char) : q = Quoted(e) /\ Len(q) = Len(e) + 2 /\ q[1] = "\"" /\ q[Len(q)] = "\""
                             /\ SubSeq(q, 2, Len(q) - 1) = e
  <2>1. \A c \in Char : <<c>> \o e \o <<c>> \in Seq(Char)
    OBVIOUS
  <2>2. \A c \in Char : /\ Len(<<c>> \o e \o <<c>>) = Len(e) + 2
                        /\ (<<c>> \o e \o <<c>>)[1] = c /\ (<<c>> \o e \o <<c>>)[Len(e) + 2] = c
                        /\ SubSeq(<<c>> \o e \o <<c>>, 2, Len(e) + 1) = e
    OBVIOUS
  <2>3. (Len(e) + 2) - 1 = Len(e) + 1
    OBVIOUS
  <2>4. PICK q \in Seq(Char) : q = <<"\"">> \o e \o <<"\"">>
    BY <2>1, Chars, Zenon
  <2>5. Len(q) = Len(e) + 2 /\ q[1] = "\"" /\ q[Len(e) + 2] = "\"" /\ SubSeq(q, 2, Len(e) + 1) = e
    BY <2>2, <2>4, Chars, Zenon
  <2>6. q = Quoted(e)
    BY <2>4, Zenon DEF Quoted
  <2> QED
    BY <2>3, <2>5, <2>6, Zenon
<1>10. ~(Len(q) < 2) /\ Head(q) = q[1] /\ Last(q) = q[Len(q)]
  <2>1. Len(e) \in Nat
    OBVIOUS
  <2>2. Len(q) = Len(e) + 2
    BY <1>9, Zenon
  <2> QED
    BY <2>1, <2>2 DEF Last
<1>11. unescape_string_lit(q) = Unescaped(q).o
  BY <1>9, <1>10, Zenon DEF unescape_string_lit
<1>12. Unescaped(q) = After(TRUE, base, e)
  BY <1>9, Zenon DEF Unescaped, After, LiteralState
<1> QED
  BY <1>7, <1>8, <1>9, <1>11, <1>12, Zenon
-----------------------------------------------------------------------------
(* A number that is read fits, and is the one that was written if that did. *)
LEMMA UnsignedInt ==
  \A n \in Int : /\ unsigned_int(n) \in 0..UINT_MAX
                 /\ n \in 0..UINT_MAX => unsigned_int(n) = n
<1>1. UINT_MAX \in Nat
  BY NumbersAssumption
<1>2. \A n \in Int : n % (UINT_MAX + 1) \in 0..UINT_MAX
  BY <1>1
<1>3. \A n \in 0..UINT_MAX : n % (UINT_MAX + 1) = n
  BY <1>1
<1>4. \A n \in 0..UINT_MAX : ~(n > UINT_MAX) /\ ~(-n > UINT_MAX) /\ UINT_MAX \in 0..UINT_MAX
  BY <1>1
<1> QED
  BY <1>1, <1>2, <1>3, <1>4 DEF unsigned_int

(* The operands of an operation that are printed.                           *)
LEMMA PrintedOperands ==
  ASSUME NEW a \in [1..2 -> Int], NEW c \in 0..2
  PROVE  /\ SubSeq(a, 1, c) \in Seq(Int) /\ Len(SubSeq(a, 1, c)) = c
         /\ \A k \in 1..c : SubSeq(a, 1, c)[k] = a[k]
<1>1. a \in Seq(Int) /\ Len(a) = 2
  <2>1. 2 \in Nat
    OBVIOUS
  <2>2. a \in Seq(Int)
    BY <2>1, SeqDef, Zenon
  <2> QED
    BY <2>2
<1> QED
  BY <1>1

(* The forms that values have.                                              *)
LEMMA ValueForms ==
  ASSUME NEW v \in Value
  PROVE  \/ \E s \in Seq(Char) \ {<<>>} : v = [form |-> "NAME", chars |-> s]
         \/ \E s \in Seq(Char) : v = [form |-> "STRING", chars |-> s] \/ v = [form |-> "OTHER", chars |-> s]
         \/ \E b \in BOOLEAN : v = [form |-> "FLAG", flag |-> b]
         \/ \E n \in Int, f \in {"UNSIGNED", "SIGNED", "ADDR"} : v = [form |-> f, n |-> n]
         \/ \E n \in Int, b \in BOOLEAN : v = [form |-> "REF", abs |-> b, n |-> n]
         \/ \E b \in BOOLEAN, ops \in Seq([op : Operator, args : [1..2 -> Int]]) :
              v = [form |-> "LOCLIST", everywhere |-> b, ops |-> ops]
<1>1. CASE v \in [form : {"NAME"}, chars : Seq(Char) \ {<<>>}]
  <2>1. v = [form |-> "NAME", chars |-> v.chars] /\ v.chars \in Seq(Char) \ {<<>>}
    BY <1>1
  <2> QED
    BY <2>1, Zenon
<1>2. CASE v \in [form : {"STRING", "OTHER"}, chars : Seq(Char)]
  <2>1. v = [form |-> v.form, chars |-> v.chars] /\ v.chars \in Seq(Char) /\ v.form \in {"STRING", "OTHER"}
    BY <1>2
  <2> QED
    BY <2>1, Zenon
<1>3. CASE v \in [form : {"FLAG"}, flag : BOOLEAN]
  <2>1. v = [form |-> "FLAG", flag |-> v.flag] /\ v.flag \in BOOLEAN
    BY <1>3
  <2> QED
    BY <2>1, Zenon
<1>4. CASE v \in [form : {"UNSIGNED", "SIGNED", "ADDR"}, n : Int]
  <2>1. v = [form |-> v.form, n |-> v.n] /\ v.n \in Int /\ v.form \in {"UNSIGNED", "SIGNED", "ADDR"}
    BY <1>4
  <2> QED
    BY <2>1, Zenon
<1>5. CASE v \in [form : {"REF"}, abs : BOOLEAN, n : Int]
  <2>1. v = [form |-> "REF", abs |-> v.abs, n |-> v.n] /\ v.n \in Int /\ v.abs \in BOOLEAN
    BY <1>5
  <2> QED
    BY <2>1, Zenon
<1>6. CASE v \in [form : {"LOCLIST"}, everywhere : BOOLEAN,
                  ops : Seq([op : Operator, args : [1..2 -> Int]])]
  <2>1. /\ v = [form |-> "LOCLIST", everywhere |-> v.everywhere, ops |-> v.ops]
        /\ v.ops \in Seq([op : Operator, args : [1..2 -> Int]]) /\ v.everywhere \in BOOLEAN
    BY <1>6
  <2> QED
    BY <2>1, Zenon
<1> QED
  BY <1>1, <1>2, <1>3, <1>4, <1>5, <1>6, Zenon DEF Value

(* What a value of each form is printed as.                                 *)
LEMMA PrintedForms ==
  /\ \A s : Printed([form |-> "NAME", chars |-> s]) = [token |-> "IDENTS", text |-> escape_ident(s)]
  /\ \A s : Printed([form |-> "STRING", chars |-> s])
              = [token |-> "STRING_LIT", text |-> Quoted(escape_string_lit(s))]
  /\ \A s : Printed([form |-> "OTHER", chars |-> s]) = [token |-> "STRING_LIT", text |-> Quoted(s)]
  /\ \A b \in BOOLEAN : Printed([form |-> "FLAG", flag |-> b])
                          = [token |-> IF b THEN "KEYWORD_TRUE" ELSE "KEYWORD_FALSE"]
  /\ \A n : /\ \A f \in {"UNSIGNED", "SIGNED"} :
                 Printed([form |-> f, n |-> n]) = [token |-> "INT", hex |-> FALSE, n |-> n]
            /\ Printed([form |-> "ADDR", n |-> n]) = [token |-> "INT", hex |-> TRUE, n |-> n]
  /\ \A n : \A b \in BOOLEAN :
       Printed([form |-> "REF", abs |-> b, n |-> n])
         = [token |-> IF b THEN "ABSOLUTE_OFFSET" ELSE "RELATIVE_OFFSET", hex |-> TRUE, n |-> n]
  /\ \A b \in BOOLEAN : \A ops :
       Printed([form |-> "LOCLIST", everywhere |-> b, ops |-> ops])
         = [token |-> "OPCODE_LIST",
            ops |-> IF b THEN [i \in DOMAIN ops |-> opcode_to_string(ops[i])]
                    ELSE <<[op |-> "addr", args |-> <<0>>]>>]
<1>1. \A s : Printed([form |-> "NAME", chars |-> s]) = [token |-> "IDENTS", text |-> escape_ident(s)]
  BY DEF Printed, print_name
<1>2. \A s : Printed([form |-> "STRING", chars |-> s])
              = [token |-> "STRING_LIT", text |-> Quoted(escape_string_lit(s))]
  BY DEF Printed, print_value
<1>3. \A s : Printed([form |-> "OTHER", chars |-> s]) = [token |-> "STRING_LIT", text |-> Quoted(s)]
  BY DEF Printed, print_value
<1>4. \A b \in BOOLEAN : Printed([form |-> "FLAG", flag |-> b])
                          = [token |-> IF b THEN "KEYWORD_TRUE" ELSE "KEYWORD_FALSE"]
  BY DEF Printed, print_value
<1>5. \A n : /\ \A f \in {"UNSIGNED", "SIGNED"} :
                 Printed([form |-> f, n |-> n]) = [token |-> "INT", hex |-> FALSE, n |-> n]
            /\ Printed([form |-> "ADDR", n |-> n]) = [token |-> "INT", hex |-> TRUE, n |-> n]
  BY DEF Printed, print_value
<1>6. \A n : \A b \in BOOLEAN :
       Printed([form |-> "REF", abs |-> b, n |-> n])
         = [token |-> IF b THEN "ABSOLUTE_OFFSET" ELSE "RELATIVE_OFFSET", hex |-> TRUE, n |-> n]
  BY DEF Printed, print_value
<1>7. \A b \in BOOLEAN : \A ops :
       Printed([form |-> "LOCLIST", everywhere |-> b, ops |-> ops])
         = [token |-> "OPCODE_LIST",
            ops |-> IF b THEN [i \in DOMAIN ops |-> opcode_to_string(ops[i])]
                    ELSE <<[op |-> "addr", args |-> <<0>>]>>]
  BY DEF Printed, print_value
<1> QED
  BY <1>1, <1>2, <1>3, <1>4, <1>5, <1>6, <1>7

Operation == [op : Operator, args : [1..2 -> Int]]

(* The operation that is made of a printed one.                             *)
LEMMA MadeOperation ==
  ASSUME NEW e \in Operation, NEW w \in MadeOperations(opcode_to_string(e))
  PROVE  /\ w \in Operation
         /\ w.op = e.op
         /\ \A k \in 1..op_operand_count[e.op] : w.args[k] = unsigned_int(e.args[k])
<1>1. PICK a \in [1..2 -> Int] : a = e.args
  BY DEF Operation
<1>2. e.op \in Operator
  BY DEF Operation
<1>3. PICK c \in 0..2 : c = op_operand_count[e.op]
  BY <1>2, OperandsAssumption
<1>4. PICK p \in Seq(Int) : p = SubSeq(a, 1, c) /\ Len(p) = c /\ \A k \in 1..c : p[k] = a[k]
  BY PrintedOperands, Zenon
<1>5. opcode_to_string(e) = [op |-> e.op, args |-> p]
  BY <1>1, <1>3, <1>4, Zenon DEF opcode_to_string
<1>6. [op |-> e.op, args |-> p].op = e.op /\ [op |-> e.op, args |-> p].args = p
  OBVIOUS
<1>7. PICK rest \in [1..2 -> Garbage] :
        w = [op |-> e.op, args |-> [k \in 1..2 |-> IF k <= Len(p) THEN unsigned_int(p[k]) ELSE rest[k]]]
  BY <1>5, <1>6, Zenon DEF MadeOperations
<1> DEFINE made == [k \in 1..2 |-> IF k <= c THEN unsigned_int(p[k]) ELSE rest[k]]
<1>8. w = [op |-> e.op, args |-> made]
  BY <1>4, <1>7, Zenon
<1>9. \A k \in 1..2 : k <= c => k \in 1..c
  OBVIOUS
<1>10. \A k \in 1..c : k \in 1..2 /\ k <= c
  OBVIOUS
<1>11. \A n \in 0..UINT_MAX : n \in Int
  BY NumbersAssumption
<1>12. \A k \in 1..c : p[k] \in Int /\ p[k] = a[k]
  BY <1>4
<1>13. \A k \in 1..2 : rest[k] \in Int
  BY NumbersAssumption
<1>14. \A k \in 1..2 : k <= c => unsigned_int(p[k]) \in Int
  BY <1>9, <1>11, <1>12, UnsignedInt, Zenon
<1>15. made \in [1..2 -> Int]
  BY <1>13, <1>14, Zenon
<1>16. \A k \in 1..c : made[k] = unsigned_int(a[k])
  BY <1>10, <1>12, Zenon
<1> HIDE DEF made
<1>17. w \in Operation /\ w.op = e.op /\ w.args = made
  BY <1>2, <1>8, <1>15 DEF Operation
<1> QED
  BY <1>1, <1>3, <1>16, <1>17, Zenon

(* Operations, printed and read.                                            *)
Narrowed(x, y) ==
  /\ DOMAIN y = DOMAIN x
  /\ \A i \in DOMAIN x : /\ y[i].op = x[i].op
                         /\ \A k \in 1..op_operand_count[x[i].op] : y[i].args[k] = unsigned_int(x[i].args[k])

(* The same of a list of operations.                                        *)
LEMMA MadeOperationsNarrowed ==
  ASSUME NEW ops \in Seq(Operation), NEW y, DOMAIN y = DOMAIN ops,
         y = [i \in DOMAIN y |-> y[i]],
         \A i \in DOMAIN ops : y[i] \in MadeOperations(opcode_to_string(ops[i]))
  PROVE  y \in Seq(Operation) /\ Narrowed(ops, y)
<1>1. \A i \in DOMAIN ops : ops[i] \in Operation
  OBVIOUS
<1>2. \A i \in DOMAIN ops : y[i] \in Operation
  BY <1>1, MadeOperation, Zenon
<1>3. PICK n \in Nat : DOMAIN ops = 1..n
  OBVIOUS
<1>4. y \in Seq(Operation)
  <2>1. y \in [1..n -> Operation]
    BY <1>2, <1>3, Zenon
  <2> QED
    BY <2>1, SeqDef, Zenon
<1>5. Narrowed(ops, y)
  BY <1>1, MadeOperation, Zenon DEF Narrowed
<1> QED
  BY <1>4, <1>5

(* What is read of each token.                                              *)
LEMMA ReadForms ==
  /\ \A s : make_attribute_value([token |-> "IDENTS", text |-> s])
              = {[form |-> "NAME", chars |-> unescape_ident(s)]}
  /\ \A s : make_attribute_value([token |-> "STRING_LIT", text |-> s]) = {[form |-> "STRING", chars |-> s]}
  /\ \A b \in BOOLEAN : make_attribute_value([token |-> IF b THEN "KEYWORD_TRUE" ELSE "KEYWORD_FALSE"])
                          = {[form |-> "FLAG", flag |-> b]}
  /\ \A n : \A h \in BOOLEAN :
       make_attribute_value([token |-> "INT", hex |-> h, n |-> n])
         = {[form |-> "UNSIGNED", n |-> unsigned_int(n)]}
  /\ \A n : make_attribute_value([token |-> "ABSOLUTE_OFFSET", hex |-> TRUE, n |-> n])
              = {[form |-> "REF", abs |-> TRUE, n |-> unsigned_int(n)]}
<1>1. \A s : make_attribute_value([token |-> "IDENTS", text |-> s])
              = {[form |-> "NAME", chars |-> unescape_ident(s)]}
  BY DEF make_attribute_value
<1>2. \A s : make_attribute_value([token |-> "STRING_LIT", text |-> s]) = {[form |-> "STRING", chars |-> s]}
  BY DEF make_attribute_value
<1>3. \A b \in BOOLEAN : make_attribute_value([token |-> IF b THEN "KEYWORD_TRUE" ELSE "KEYWORD_FALSE"])
                          = {[form |-> "FLAG", flag |-> b]}
  BY DEF make_attribute_value
<1>4. \A n : \A h \in BOOLEAN :
       make_attribute_value([token |-> "INT", hex |-> h, n |-> n])
         = {[form |-> "UNSIGNED", n |-> unsigned_int(n)]}
  BY DEF make_attribute_value, node_text_to
<1>5. \A n : make_attribute_value([token |-> "ABSOLUTE_OFFSET", hex |-> TRUE, n |-> n])
              = {[form |-> "REF", abs |-> TRUE, n |-> unsigned_int(n)]}
  BY DEF make_attribute_value, node_text_to
<1> QED
  BY <1>1, <1>2, <1>3, <1>4, <1>5

(* And of the list that is read from its text.                              *)
LEMMA ReadOperations ==
  ASSUME NEW ops \in Seq(Operation),
         NEW w \in make_attribute_value([token |-> "OPCODE_LIST",
                                         ops |-> [i \in DOMAIN ops |-> opcode_to_string(ops[i])]])
  PROVE  \E y \in Seq(Operation) : w = [form |-> "LOCLIST", everywhere |-> TRUE, ops |-> y] /\ Narrowed(ops, y)
<1> DEFINE printed == [i \in DOMAIN ops |-> opcode_to_string(ops[i])]
           t == [token |-> "OPCODE_LIST", ops |-> printed]
<1>1. t.token = "OPCODE_LIST" /\ t.ops = printed /\ w \in make_attribute_value(t)
  OBVIOUS
<1>2. DOMAIN printed = DOMAIN ops /\ \A i \in DOMAIN ops : printed[i] = opcode_to_string(ops[i])
  BY Zenon
<1> HIDE DEF t, printed
<1> DEFINE Lists == {f \in [DOMAIN t.ops -> UNION {MadeOperations(t.ops[i]) : i \in DOMAIN t.ops}] :
                       \A i \in DOMAIN t.ops : f[i] \in MadeOperations(t.ops[i])}
<1>3. make_attribute_value(t) = {[form |-> "LOCLIST", everywhere |-> TRUE, ops |-> o] : o \in Lists}
  BY <1>1, Zenon DEF make_attribute_value
<1>4. PICK y \in Lists : w = [form |-> "LOCLIST", everywhere |-> TRUE, ops |-> y]
  BY <1>1, <1>3, Zenon
<1>5. /\ DOMAIN y = DOMAIN t.ops /\ y = [i \in DOMAIN y |-> y[i]]
      /\ \A i \in DOMAIN t.ops : y[i] \in MadeOperations(t.ops[i])
  <2>1. y \in [DOMAIN t.ops -> UNION {MadeOperations(t.ops[i]) : i \in DOMAIN t.ops}]
    BY <1>4, Zenon
  <2>2. \A i \in DOMAIN t.ops : y[i] \in MadeOperations(t.ops[i])
    BY <1>4, Zenon
  <2>3. DOMAIN y = DOMAIN t.ops /\ y = [i \in DOMAIN t.ops |-> y[i]]
    BY <2>1, Zenon
  <2> QED
    BY <2>2, <2>3, Zenon
<1> HIDE DEF Lists
<1>6. DOMAIN y = DOMAIN ops /\ \A i \in DOMAIN ops : y[i] \in MadeOperations(opcode_to_string(ops[i]))
  BY <1>1, <1>2, <1>5, Zenon
<1>7. y \in Seq(Operation) /\ Narrowed(ops, y)
  BY <1>5, <1>6, MadeOperationsNarrowed, Zenon
<1> QED
  BY <1>4, <1>7, Zenon

(* Operations written by hand: whatever is not given, they are operations.  *)
Opcode == [op : Operator, args : OperandList]

LEMMA HandMadeOperation ==
  ASSUME NEW e \in Opcode, NEW w \in MadeOperations(e)
  PROVE  w \in Operation
<1>1. e.op \in Operator /\ e.args \in Seq(Int)
  BY DEF Opcode, OperandList
<1>2. PICK p \in Seq(Int) : p = e.args
  BY <1>1
<1>3. PICK rest \in [1..2 -> Garbage] :
        w = [op |-> e.op, args |-> [k \in 1..2 |-> IF k <= Len(p) THEN unsigned_int(p[k]) ELSE rest[k]]]
  BY <1>2, Zenon DEF MadeOperations
<1> DEFINE made == [k \in 1..2 |-> IF k <= Len(p) THEN unsigned_int(p[k]) ELSE rest[k]]
<1>4. \A k \in 1..2 : k <= Len(p) => p[k] \in Int
  OBVIOUS
<1>5. \A n \in 0..UINT_MAX : n \in Int
  BY NumbersAssumption
<1>6. \A k \in 1..2 : k <= Len(p) => unsigned_int(p[k]) \in Int
  BY <1>4, <1>5, UnsignedInt, Zenon
<1>7. \A k \in 1..2 : rest[k] \in Int
  BY NumbersAssumption
<1>8. made \in [1..2 -> Int]
  BY <1>6, <1>7, Zenon
<1>9. w = [op |-> e.op, args |-> made]
  BY <1>3, Zenon
<1> HIDE DEF made
<1> QED
  BY <1>1, <1>8, <1>9 DEF Operation

LEMMA HandMadeOperations ==
  ASSUME NEW ops \in Seq(Opcode),
         NEW w \in make_attribute_value([token |-> "OPCODE_LIST", ops |-> ops])
  PROVE  \E y \in Seq(Operation) : w = [form |-> "LOCLIST", everywhere |-> TRUE, ops |-> y]
<1> DEFINE t == [token |-> "OPCODE_LIST", ops |-> ops]
<1>1. t.token = "OPCODE_LIST" /\ t.ops = ops /\ w \in make_attribute_value(t)
  OBVIOUS
<1> HIDE DEF t
<1> DEFINE Lists == {f \in [DOMAIN t.ops -> UNION {MadeOperations(t.ops[i]) : i \in DOMAIN t.ops}] :
                       \A i \in DOMAIN t.ops : f[i] \in MadeOperations(t.ops[i])}
<1>2. make_attribute_value(t) = {[form |-> "LOCLIST", everywhere |-> TRUE, ops |-> o] : o \in Lists}
  BY <1>1, Zenon DEF make_attribute_value
<1>3. PICK y \in Lists : w = [form |-> "LOCLIST", everywhere |-> TRUE, ops |-> y]
  BY <1>1, <1>2, Zenon
<1>4. y \in [DOMAIN t.ops -> UNION {MadeOperations(t.ops[i]) : i \in DOMAIN t.ops}]
  BY <1>3, Zenon
<1>5. \A i \in DOMAIN t.ops : y[i] \in MadeOperations(t.ops[i])
  BY <1>3, Zenon
<1> HIDE DEF Lists
<1>6. PICK n \in Nat : DOMAIN ops = 1..n
  OBVIOUS
<1>7. \A i \in 1..n : ops[i] \in Opcode
  BY <1>6
<1>8. \A i \in 1..n : y[i] \in Operation
  BY <1>1, <1>5, <1>6, <1>7, HandMadeOperation, Zenon
<1>9. y \in [1..n -> Operation]
  BY <1>1, <1>4, <1>6, <1>8, Zenon
<1>10. y \in Seq(Operation)
  BY <1>9, SeqDef, Zenon
<1> QED
  BY <1>3, <1>10, Zenon

(* References that cannot be read, and names that always can.               *)
LEMMA AbortForms ==
  /\ \A n : Aborts([token |-> "ABSOLUTE_OFFSET", hex |-> TRUE, n |-> n]) <=> unsigned_int(n) = 0
  /\ \A n : Aborts([token |-> "RELATIVE_OFFSET", hex |-> TRUE, n |-> n])
  /\ \A s : ~Aborts([token |-> "IDENTS", text |-> s])
<1>1. \A n : Aborts([token |-> "ABSOLUTE_OFFSET", hex |-> TRUE, n |-> n]) <=> unsigned_int(n) = 0
  BY DEF Aborts, node_text_to
<1>2. \A n : Aborts([token |-> "RELATIVE_OFFSET", hex |-> TRUE, n |-> n])
  BY DEF Aborts
<1>3. \A s : ~Aborts([token |-> "IDENTS", text |-> s])
  BY DEF Aborts
<1> QED
  BY <1>1, <1>2, <1>3

(* A value that has been read.                                              *)
Settles(v) ==
  /\ v \in Value
  /\ v.form \in {"NAME", "STRING", "FLAG", "UNSIGNED", "REF", "LOCLIST"}
  /\ v.form = "UNSIGNED" => v.n \in 0..UINT_MAX
  /\ v.form = "REF" => v.abs /\ v.n \in 1..UINT_MAX
  /\ v.form = "LOCLIST" =>
       /\ v.everywhere
       /\ \A i \in DOMAIN v.ops : \A k \in 1..op_operand_count[v.ops[i].op] : v.ops[i].args[k] \in 0..UINT_MAX

(* What one round of printing and reading does to a value.                  *)
Rereads(v, w) ==
  /\ v.form \in {"NAME", "FLAG"} => w = v
  /\ v.form \in {"STRING", "OTHER"} => w.form = "STRING"
  /\ v.form \in {"UNSIGNED", "SIGNED", "ADDR"} => w = [form |-> "UNSIGNED", n |-> unsigned_int(v.n)]
  /\ v.form = "REF" => v.abs /\ w = [form |-> "REF", abs |-> TRUE, n |-> unsigned_int(v.n)]
  /\ v.form = "LOCLIST" => /\ w.form = "LOCLIST" /\ w.everywhere
                           /\ v.everywhere => Narrowed(v.ops, w.ops)

(* What is read is a value.                                                 *)
LEMMA InValue ==
  /\ \A s \in Seq(Char) \ {<<>>} : [form |-> "NAME", chars |-> s] \in Value
  /\ \A s \in Seq(Char) : [form |-> "STRING", chars |-> s] \in Value
  /\ \A b \in BOOLEAN : [form |-> "FLAG", flag |-> b] \in Value
  /\ \A n \in Int : [form |-> "UNSIGNED", n |-> n] \in Value
  /\ \A n \in Int : [form |-> "REF", abs |-> TRUE, n |-> n] \in Value
  /\ \A ops \in Seq(Operation) : [form |-> "LOCLIST", everywhere |-> TRUE, ops |-> ops] \in Value
<1>1. \A s \in Seq(Char) \ {<<>>} : [form |-> "NAME", chars |-> s] \in [form : {"NAME"}, chars : Seq(Char) \ {<<>>}]
  OBVIOUS
<1>2. \A s \in Seq(Char) : [form |-> "STRING", chars |-> s] \in [form : {"STRING", "OTHER"}, chars : Seq(Char)]
  OBVIOUS
<1>3. \A b \in BOOLEAN : [form |-> "FLAG", flag |-> b] \in [form : {"FLAG"}, flag : BOOLEAN]
  OBVIOUS
<1>4. \A n \in Int : [form |-> "UNSIGNED", n |-> n] \in [form : {"UNSIGNED", "SIGNED", "ADDR"}, n : Int]
  OBVIOUS
<1>5. \A n \in Int : [form |-> "REF", abs |-> TRUE, n |-> n] \in [form : {"REF"}, abs : BOOLEAN, n : Int]
  OBVIOUS
<1>6. \A ops \in Seq(Operation) : [form |-> "LOCLIST", everywhere |-> TRUE, ops |-> ops]
                                    \in [form : {"LOCLIST"}, everywhere : BOOLEAN, ops : Seq(Operation)]
  OBVIOUS
<1> QED
  BY <1>1, <1>2, <1>3, <1>4, <1>5, <1>6, Zenon DEF Value, Operation

(* What an unsigned int holds is a number, and at least 1 if it is not 0.   *)
LEMMA UnsignedRanges == \A n \in 0..UINT_MAX : n \in Int /\ (n # 0 => n \in 1..UINT_MAX)
BY NumbersAssumption

(* Operands that were read fit.                                             *)
LEMMA NarrowedInRange ==
  ASSUME NEW x \in Seq(Operation), NEW y, Narrowed(x, y)
  PROVE  \A i \in DOMAIN y : \A k \in 1..op_operand_count[y[i].op] : y[i].args[k] \in 0..UINT_MAX
<1> SUFFICES ASSUME NEW i \in DOMAIN y, NEW k \in 1..op_operand_count[y[i].op]
             PROVE  y[i].args[k] \in 0..UINT_MAX
  OBVIOUS
<1>1. i \in DOMAIN x /\ x[i].op = y[i].op
  BY Zenon DEF Narrowed
<1>2. PICK e \in Operation : e = x[i]
  BY <1>1
<1>3. k \in 1..op_operand_count[e.op]
  BY <1>1, <1>2, Zenon
<1>4. e.op \in Operator /\ e.args \in [1..2 -> Int]
  BY DEF Operation
<1>5. op_operand_count[e.op] \in 0..2
  BY <1>4, OperandsAssumption
<1>6. \A c \in 0..2 : \A j \in 1..c : j \in 1..2
  OBVIOUS
<1>7. e.args[k] \in Int
  BY <1>3, <1>4, <1>5, <1>6, Zenon
<1>8. y[i].args[k] = unsigned_int(e.args[k])
  BY <1>1, <1>2, <1>3, Zenon DEF Narrowed
<1> QED
  BY <1>7, <1>8, UnsignedInt, Zenon

(* One round, whatever the value, unless it aborts.                         *)
LEMMA Reread ==
  ASSUME NEW v \in Value, ~Aborts(Printed(v)), NEW w \in make_attribute_value(Printed(v))
  PROVE  Settles(w) /\ Rereads(v, w)
<1>1. ASSUME NEW s \in Seq(Char) \ {<<>>}, v = [form |-> "NAME", chars |-> s]
      PROVE  Settles(w) /\ Rereads(v, w)
  <2>1. w = [form |-> "NAME", chars |-> unescape_ident(escape_ident(s))]
    <3>1. Printed(v) = [token |-> "IDENTS", text |-> escape_ident(s)]
      BY <1>1, PrintedForms, Zenon
    <3>2. make_attribute_value(Printed(v)) = {[form |-> "NAME", chars |-> unescape_ident(escape_ident(s))]}
      BY <3>1, ReadForms, Zenon
    <3> QED
      BY <3>2, Zenon
  <2>2. s \in Seq(Char)
    OBVIOUS
  <2>3. unescape_ident(escape_ident(s)) = s
    BY <2>2, EscapedIdent, Zenon
  <2>4. w = v
    BY <1>1, <2>1, <2>3, Zenon
  <2>5. v.form = "NAME"
    BY <1>1
  <2> QED
    BY <2>4, <2>5, Zenon DEF Settles, Rereads
<1>2. ASSUME NEW s \in Seq(Char), v = [form |-> "STRING", chars |-> s] \/ v = [form |-> "OTHER", chars |-> s]
      PROVE  Settles(w) /\ Rereads(v, w)
  <2>1. \E t \in Seq(Char) : Printed(v) = [token |-> "STRING_LIT", text |-> t]
    <3>1. CASE v = [form |-> "STRING", chars |-> s]
      BY <3>1, PrintedForms, LiteralDecoded, Zenon
    <3>2. CASE v = [form |-> "OTHER", chars |-> s]
      <4>1. \A c \in Char : <<c>> \o s \o <<c>> \in Seq(Char)
        OBVIOUS
      <4>2. Quoted(s) \in Seq(Char)
        BY <4>1, Chars, Zenon DEF Quoted
      <4> QED
        BY <3>2, <4>2, PrintedForms, Zenon
    <3> QED
      BY <1>2, <3>1, <3>2
  <2>2. PICK t \in Seq(Char) : Printed(v) = [token |-> "STRING_LIT", text |-> t]
    BY <2>1
  <2>3. w = [form |-> "STRING", chars |-> t]
    <3>1. make_attribute_value(Printed(v)) = {[form |-> "STRING", chars |-> t]}
      BY <2>2, ReadForms, Zenon
    <3> QED
      BY <3>1, Zenon
  <2>4. w \in Value
    BY <2>3, InValue, Zenon
  <2>5. w.form = "STRING" /\ v.form \in {"STRING", "OTHER"}
    BY <1>2, <2>3
  <2> QED
    BY <2>4, <2>5, Zenon DEF Settles, Rereads
<1>3. ASSUME NEW b \in BOOLEAN, v = [form |-> "FLAG", flag |-> b]
      PROVE  Settles(w) /\ Rereads(v, w)
  <2>1. Printed(v) = [token |-> IF b THEN "KEYWORD_TRUE" ELSE "KEYWORD_FALSE"]
    BY <1>3, PrintedForms, Zenon
  <2>2. w = v
    BY <1>3, <2>1, ReadForms, Zenon
  <2>3. v.form = "FLAG"
    BY <1>3
  <2> QED
    BY <2>2, <2>3, Zenon DEF Settles, Rereads
<1>4. ASSUME NEW n \in Int, NEW f \in {"UNSIGNED", "SIGNED", "ADDR"}, v = [form |-> f, n |-> n]
      PROVE  Settles(w) /\ Rereads(v, w)
  <2>1. \E h \in BOOLEAN : Printed(v) = [token |-> "INT", hex |-> h, n |-> n]
    BY <1>4, PrintedForms, Zenon
  <2>2. w = [form |-> "UNSIGNED", n |-> unsigned_int(n)]
    <3>1. make_attribute_value(Printed(v)) = {[form |-> "UNSIGNED", n |-> unsigned_int(n)]}
      BY <2>1, ReadForms, Zenon
    <3> QED
      BY <3>1, Zenon
  <2>3. PICK m \in 0..UINT_MAX : m = unsigned_int(n) /\ m \in Int
    BY UnsignedInt, UnsignedRanges, Zenon
  <2>4. w \in Value
    BY <2>2, <2>3, InValue, Zenon
  <2>5. v.form = f /\ v.n = n /\ w.form = "UNSIGNED" /\ w.n = m
    BY <1>4, <2>2, <2>3
  <2> QED
    BY <2>2, <2>3, <2>4, <2>5, Zenon DEF Settles, Rereads
<1>5. ASSUME NEW n \in Int, NEW b \in BOOLEAN, v = [form |-> "REF", abs |-> b, n |-> n]
      PROVE  Settles(w) /\ Rereads(v, w)
  <2>1. Printed(v) = [token |-> IF b THEN "ABSOLUTE_OFFSET" ELSE "RELATIVE_OFFSET", hex |-> TRUE, n |-> n]
    BY <1>5, PrintedForms, Zenon
  <2>2. b = TRUE
    BY <2>1, AbortForms, Zenon
  <2>3. Printed(v) = [token |-> "ABSOLUTE_OFFSET", hex |-> TRUE, n |-> n]
    BY <2>1, <2>2, Zenon
  <2>4. unsigned_int(n) # 0
    BY <2>3, AbortForms, Zenon
  <2>5. PICK m \in 0..UINT_MAX : m = unsigned_int(n) /\ m \in Int /\ m \in 1..UINT_MAX
    BY <2>4, UnsignedInt, UnsignedRanges, Zenon
  <2>6. w = [form |-> "REF", abs |-> TRUE, n |-> m]
    <3>1. make_attribute_value(Printed(v)) = {[form |-> "REF", abs |-> TRUE, n |-> unsigned_int(n)]}
      BY <2>3, ReadForms, Zenon
    <3> QED
      BY <2>5, <3>1, Zenon
  <2>7. w \in Value
    BY <2>5, <2>6, InValue, Zenon
  <2>8. v.form = "REF" /\ v.abs = TRUE /\ v.n = n /\ w.form = "REF" /\ w.abs = TRUE /\ w.n = m
    BY <1>5, <2>2, <2>6
  <2> QED
    BY <2>5, <2>6, <2>7, <2>8, Zenon DEF Settles, Rereads
<1>6. ASSUME NEW b \in BOOLEAN, NEW ops \in Seq([op : Operator, args : [1..2 -> Int]]),
             v = [form |-> "LOCLIST", everywhere |-> b, ops |-> ops]
      PROVE  Settles(w) /\ Rereads(v, w)
  <2>1. \E x \in Seq(Operation) :
          /\ Printed(v) = [token |-> "OPCODE_LIST", ops |-> [i \in DOMAIN x |-> opcode_to_string(x[i])]]
          /\ b => x = ops
    <3>1. CASE b = TRUE
      <4>1. Printed(v) = [token |-> "OPCODE_LIST", ops |-> [i \in DOMAIN ops |-> opcode_to_string(ops[i])]]
        BY <1>6, <3>1, PrintedForms, Zenon
      <4>2. ops \in Seq(Operation)
        BY Zenon DEF Operation
      <4> QED
        BY <4>1, <4>2, Zenon
    <3>2. CASE b = FALSE
      <4>1. Printed(v) = [token |-> "OPCODE_LIST", ops |-> <<[op |-> "addr", args |-> <<0>>]>>]
        BY <1>6, <3>2, PrintedForms, Zenon
      <4>2. PICK a \in [1..2 -> Int] : a[1] = 0
        <5>1. [k \in 1..2 |-> 0] \in [1..2 -> Int] /\ [k \in 1..2 |-> 0][1] = 0
          OBVIOUS
        <5> QED
          BY <5>1, Zenon
      <4>3. SubSeq(a, 1, 1) = <<0>>
        <5>1. 1 \in 0..2 /\ 1 \in 1..1
          OBVIOUS
        <5>2. SubSeq(a, 1, 1) \in Seq(Int) /\ Len(SubSeq(a, 1, 1)) = 1 /\ SubSeq(a, 1, 1)[1] = 0
          BY <4>2, <5>1, PrintedOperands, Zenon
        <5>3. \A p \in Seq(Int) : Len(p) = 1 /\ p[1] = 0 => p = <<0>>
          OBVIOUS
        <5> QED
          BY <5>2, <5>3, Zenon
      <4>4. PICK e \in Operation : e.op = "addr" /\ e.args = a
        <5>1. [op |-> "addr", args |-> a] \in Operation
          BY OperandsAssumption DEF Operation
        <5> QED
          BY <5>1
      <4>5. opcode_to_string(e) = [op |-> "addr", args |-> <<0>>]
        BY <4>3, <4>4, OperandsAssumption, Zenon DEF opcode_to_string
      <4>6. \A o : [i \in DOMAIN <<e>> |-> opcode_to_string(<<e>>[i])] = <<opcode_to_string(e)>>
        OBVIOUS
      <4>7. <<e>> \in Seq(Operation)
        OBVIOUS
      <4> QED
        BY <3>2, <4>1, <4>5, <4>6, <4>7, Zenon
    <3> QED
      BY <3>1, <3>2, Zenon
  <2>2. PICK x \in Seq(Operation) :
          /\ Printed(v) = [token |-> "OPCODE_LIST", ops |-> [i \in DOMAIN x |-> opcode_to_string(x[i])]]
          /\ b => x = ops
    BY <2>1
  <2>3. PICK y \in Seq(Operation) : w = [form |-> "LOCLIST", everywhere |-> TRUE, ops |-> y] /\ Narrowed(x, y)
    BY <2>2, ReadOperations, Zenon
  <2>4. w \in Value
    BY <2>3, InValue, Zenon
  <2>5. /\ v.form = "LOCLIST" /\ v.everywhere = b /\ v.ops = ops
        /\ w.form = "LOCLIST" /\ w.everywhere = TRUE /\ w.ops = y
    BY <1>6, <2>3
  <2>6. \A i \in DOMAIN y : \A k \in 1..op_operand_count[y[i].op] : y[i].args[k] \in 0..UINT_MAX
    BY <2>3, NarrowedInRange, Zenon
  <2>7. Settles(w)
    BY <2>4, <2>5, <2>6, Zenon DEF Settles
  <2>8. v.everywhere => Narrowed(v.ops, w.ops)
    BY <2>2, <2>3, <2>5, Zenon
  <2> QED
    BY <2>5, <2>7, <2>8, Zenon DEF Rereads
<1> QED
  BY <1>1, <1>2, <1>3, <1>4, <1>5, <1>6, ValueForms, Zenon

(* A value that has been read is read again as what it is.                  *)
LEMMA PrintedAgain ==
  ASSUME NEW v, Settles(v), v.form # "STRING", NEW w, Settles(w), Rereads(v, w)
  PROVE  Printed(w) = Printed(v)
<1>1. v \in Value /\ w \in Value
  BY Zenon DEF Settles
<1>2. ASSUME NEW s \in Seq(Char) \ {<<>>}, v = [form |-> "NAME", chars |-> s] PROVE w = v
  <2>1. v.form = "NAME"
    BY <1>2
  <2> QED
    BY <2>1, Zenon DEF Rereads
<1>3. ASSUME NEW s \in Seq(Char), v = [form |-> "STRING", chars |-> s] \/ v = [form |-> "OTHER", chars |-> s]
      PROVE  FALSE
  <2>1. v.form \in {"STRING", "OTHER"}
    BY <1>3
  <2> QED
    BY <2>1, Zenon DEF Settles
<1>4. ASSUME NEW b \in BOOLEAN, v = [form |-> "FLAG", flag |-> b] PROVE w = v
  <2>1. v.form = "FLAG"
    BY <1>4
  <2> QED
    BY <2>1, Zenon DEF Rereads
<1>5. ASSUME NEW n \in Int, NEW f \in {"UNSIGNED", "SIGNED", "ADDR"}, v = [form |-> f, n |-> n] PROVE w = v
  <2>1. v.form = f /\ v.n = n
    BY <1>5
  <2>2. f = "UNSIGNED" /\ n \in 0..UINT_MAX
    BY <2>1, Zenon DEF Settles
  <2>3. unsigned_int(n) = n
    BY <2>2, UnsignedInt, UnsignedRanges, Zenon
  <2>4. w = [form |-> "UNSIGNED", n |-> unsigned_int(n)]
    BY <2>1, <2>2, Zenon DEF Rereads
  <2> QED
    BY <1>5, <2>2, <2>3, <2>4, Zenon
<1>6. ASSUME NEW n \in Int, NEW b \in BOOLEAN, v = [form |-> "REF", abs |-> b, n |-> n] PROVE w = v
  <2>1. v.form = "REF" /\ v.n = n /\ v.abs = b
    BY <1>6
  <2>2. b = TRUE /\ n \in 1..UINT_MAX
    BY <2>1, Zenon DEF Settles
  <2>3. n \in 0..UINT_MAX
    BY <2>2, NumbersAssumption
  <2>4. unsigned_int(n) = n
    BY <2>3, UnsignedInt, Zenon
  <2>5. w = [form |-> "REF", abs |-> TRUE, n |-> unsigned_int(n)]
    BY <2>1, Zenon DEF Rereads
  <2> QED
    BY <1>6, <2>2, <2>4, <2>5, Zenon
<1>7. ASSUME NEW b \in BOOLEAN, NEW ops \in Seq([op : Operator, args : [1..2 -> Int]]),
             v = [form |-> "LOCLIST", everywhere |-> b, ops |-> ops]
      PROVE  Printed(w) = Printed(v)
  <2>1. v.form = "LOCLIST" /\ v.everywhere = b /\ v.ops = ops
    BY <1>7
  <2>2. /\ b = TRUE
        /\ \A i \in DOMAIN ops : \A k \in 1..op_operand_count[ops[i].op] : ops[i].args[k] \in 0..UINT_MAX
    BY <2>1, Zenon DEF Settles
  <2>3. w.form = "LOCLIST" /\ w.everywhere /\ Narrowed(ops, w.ops)
    BY <2>1, <2>2, Zenon DEF Rereads
  <2>4. PICK y \in Seq([op : Operator, args : [1..2 -> Int]]) :
          w = [form |-> "LOCLIST", everywhere |-> TRUE, ops |-> y]
    <3>1. ASSUME NEW c \in BOOLEAN, NEW y \in Seq([op : Operator, args : [1..2 -> Int]]),
                 w = [form |-> "LOCLIST", everywhere |-> c, ops |-> y]
          PROVE  c = TRUE
      BY <2>3, <3>1
    <3>2. /\ \A s : w # [form |-> "NAME", chars |-> s] /\ w # [form |-> "STRING", chars |-> s]
                    /\ w # [form |-> "OTHER", chars |-> s]
          /\ \A s : w # [form |-> "FLAG", flag |-> s]
          /\ \A n : \A f \in {"UNSIGNED", "SIGNED", "ADDR"} : w # [form |-> f, n |-> n]
          /\ \A n : \A c \in BOOLEAN : w # [form |-> "REF", abs |-> c, n |-> n]
      BY <2>3
    <3> QED
      BY <1>1, <3>1, <3>2, ValueForms, Zenon
  <2>5. Narrowed(ops, y)
    <3>1. w.ops = y
      BY <2>4
    <3> QED
      BY <2>3, <3>1, Zenon
  <2>6. \A i \in DOMAIN ops : opcode_to_string(y[i]) = opcode_to_string(ops[i])
    <3> SUFFICES ASSUME NEW i \in DOMAIN ops PROVE opcode_to_string(y[i]) = opcode_to_string(ops[i])
      OBVIOUS
    <3>1. i \in DOMAIN y /\ y[i].op = ops[i].op
      BY <2>5, Zenon DEF Narrowed
    <3>2. PICK d, e \in Operation : d = y[i] /\ e = ops[i]
      <4>1. ops \in Seq(Operation) /\ y \in Seq(Operation)
        BY Zenon DEF Operation
      <4>2. \A s \in Seq(Operation) : \A j \in DOMAIN s : s[j] \in Operation
        OBVIOUS
      <4> QED
        BY <3>1, <4>1, <4>2, Zenon
    <3>3. d.args \in [1..2 -> Int] /\ e.args \in [1..2 -> Int] /\ e.op \in Operator /\ d.op = e.op
      BY <3>1, <3>2 DEF Operation
    <3>4. PICK c \in 0..2 : c = op_operand_count[e.op]
      BY <3>3, OperandsAssumption
    <3>5. \A k \in 1..c : d.args[k] = e.args[k]
      <4> SUFFICES ASSUME NEW k \in 1..c PROVE d.args[k] = e.args[k]
        OBVIOUS
      <4>1. e.args[k] \in 0..UINT_MAX
        BY <2>2, <3>2, <3>4, Zenon
      <4>2. d.args[k] = unsigned_int(e.args[k])
        BY <2>5, <3>2, <3>4, Zenon DEF Narrowed
      <4> QED
        BY <4>1, <4>2, UnsignedInt, UnsignedRanges, Zenon
    <3>6. PICK a1, a2 \in [1..2 -> Int] : a1 = d.args /\ a2 = e.args
      BY <3>3
    <3>7. SubSeq(a1, 1, c) = SubSeq(a2, 1, c)
      <4>1. PICK p \in Seq(Int) : p = SubSeq(a1, 1, c) /\ Len(p) = c /\ \A k \in 1..c : p[k] = a1[k]
        BY PrintedOperands, Zenon
      <4>2. PICK q \in Seq(Int) : q = SubSeq(a2, 1, c) /\ Len(q) = c /\ \A k \in 1..c : q[k] = a2[k]
        BY PrintedOperands, Zenon
      <4>3. \A k \in 1..c : p[k] = q[k]
        BY <3>5, <3>6, <4>1, <4>2, Zenon
      <4>4. p = q
        BY <4>1, <4>2, <4>3
      <4> QED
        BY <4>1, <4>2, <4>4, Zenon
    <3> QED
      BY <3>2, <3>3, <3>4, <3>6, <3>7, Zenon DEF opcode_to_string
  <2>7. [i \in DOMAIN y |-> opcode_to_string(y[i])] = [i \in DOMAIN ops |-> opcode_to_string(ops[i])]
    BY <2>5, <2>6, Zenon DEF Narrowed
  <2>8. /\ Printed(w) = [token |-> "OPCODE_LIST", ops |-> [i \in DOMAIN y |-> opcode_to_string(y[i])]]
        /\ Printed(v) = [token |-> "OPCODE_LIST", ops |-> [i \in DOMAIN ops |-> opcode_to_string(ops[i])]]
    BY <1>7, <2>2, <2>4, PrintedForms, Zenon
  <2> QED
    BY <2>7, <2>8, Zenon
<1> QED
  BY <1>1, <1>2, <1>3, <1>4, <1>5, <1>6, <1>7, ValueForms, Zenon

(* A number read in place of one of the file.                               *)
Follows(a, b, n) == IF a \in 0..UINT_MAX THEN b = a ELSE n > 0 => b \in 0..UINT_MAX

(* What is left of a value of the file when it was read m times.            *)
Kept(g, v, m) ==
  /\ g.form = "NAME" => v = g
  /\ g.form \in {"UNSIGNED", "SIGNED", "ADDR", "REF"} =>
       v.form \in {"UNSIGNED", "SIGNED", "ADDR", "REF"} /\ Follows(g.n, v.n, m)
  /\ g.form = "LOCLIST" /\ g.everywhere =>
       /\ v.form = "LOCLIST" /\ v.everywhere
       /\ DOMAIN v.ops = DOMAIN g.ops
       /\ \A i \in DOMAIN g.ops :
            /\ v.ops[i].op = g.ops[i].op
            /\ \A k \in 1..op_operand_count[g.ops[i].op] : Follows(g.ops[i].args[k], v.ops[i].args[k], m)

(* A number that is read again still follows the one of the file.           *)
LEMMA FollowsNarrowed ==
  ASSUME NEW a, NEW b \in Int, NEW m, NEW l, Follows(a, b, m)
  PROVE  Follows(a, unsigned_int(b), l)
BY UnsignedInt, Zenon DEF Follows

(* The parts of a value, by its form.                                       *)
LEMMA ValueParts ==
  ASSUME NEW v \in Value
  PROVE  /\ v.form \in {"UNSIGNED", "SIGNED", "ADDR", "REF"} => v.n \in Int
         /\ v.form = "LOCLIST" => v.ops \in Seq(Operation) /\ v.everywhere \in BOOLEAN
         /\ v.form = "NAME" => v.chars \in Seq(Char) \ {<<>>} /\ v = [form |-> "NAME", chars |-> v.chars]
         /\ v.form = "STRING" => v.chars \in Seq(Char) /\ v = [form |-> "STRING", chars |-> v.chars]
         /\ "form" \in DOMAIN v
<1>1. CASE \E s \in Seq(Char) \ {<<>>} : v = [form |-> "NAME", chars |-> s]
  BY <1>1
<1>2. CASE \E s \in Seq(Char) : v = [form |-> "STRING", chars |-> s] \/ v = [form |-> "OTHER", chars |-> s]
  BY <1>2
<1>3. CASE \E b \in BOOLEAN : v = [form |-> "FLAG", flag |-> b]
  BY <1>3
<1>4. CASE \E n \in Int, f \in {"UNSIGNED", "SIGNED", "ADDR"} : v = [form |-> f, n |-> n]
  BY <1>4
<1>5. CASE \E n \in Int, b \in BOOLEAN : v = [form |-> "REF", abs |-> b, n |-> n]
  BY <1>5
<1>6. CASE \E b \in BOOLEAN, ops \in Seq([op : Operator, args : [1..2 -> Int]]) :
             v = [form |-> "LOCLIST", everywhere |-> b, ops |-> ops]
  <2>1. PICK b \in BOOLEAN, ops \in Seq(Operation) : v = [form |-> "LOCLIST", everywhere |-> b, ops |-> ops]
    BY <1>6, Zenon DEF Operation
  <2> QED
    BY <2>1
<1> QED
  BY <1>1, <1>2, <1>3, <1>4, <1>5, <1>6, ValueForms, Zenon

(* Nothing is lost before the first round.                                  *)
LEMMA KeptAtFirst == ASSUME NEW g \in Value PROVE Kept(g, g, 0)
<1>1. \A a : Follows(a, a, 0)
  BY DEF Follows
<1> QED
  BY <1>1, Zenon DEF Kept

(* One round keeps what is left of the value of the file.                   *)
LEMMA KeptReread ==
  ASSUME NEW g \in Value, NEW v \in Value, NEW w, NEW m, NEW l, Kept(g, v, m), Rereads(v, w)
  PROVE  Kept(g, w, l)
<1>1. g.form = "NAME" => w = g
  BY Zenon DEF Kept, Rereads
<1>2. ASSUME g.form \in {"UNSIGNED", "SIGNED", "ADDR", "REF"}
      PROVE  w.form \in {"UNSIGNED", "SIGNED", "ADDR", "REF"} /\ Follows(g.n, w.n, l)
  <2>1. v.form \in {"UNSIGNED", "SIGNED", "ADDR", "REF"} /\ Follows(g.n, v.n, m)
    BY <1>2, Zenon DEF Kept
  <2>2. v.n \in Int
    BY <2>1, ValueParts, Zenon
  <2>3. \/ w = [form |-> "UNSIGNED", n |-> unsigned_int(v.n)]
        \/ w = [form |-> "REF", abs |-> TRUE, n |-> unsigned_int(v.n)]
    BY <2>1, Zenon DEF Rereads
  <2>4. w.form \in {"UNSIGNED", "REF"} /\ w.n = unsigned_int(v.n)
    BY <2>3
  <2>5. Follows(g.n, w.n, l)
    BY <2>1, <2>2, <2>4, FollowsNarrowed, Zenon
  <2> QED
    BY <2>4, <2>5, Zenon
<1>3. ASSUME g.form = "LOCLIST", g.everywhere
      PROVE  /\ w.form = "LOCLIST" /\ w.everywhere
             /\ DOMAIN w.ops = DOMAIN g.ops
             /\ \A i \in DOMAIN g.ops :
                  /\ w.ops[i].op = g.ops[i].op
                  /\ \A k \in 1..op_operand_count[g.ops[i].op] :
                       Follows(g.ops[i].args[k], w.ops[i].args[k], l)
  <2>1. /\ v.form = "LOCLIST" /\ v.everywhere
        /\ DOMAIN v.ops = DOMAIN g.ops
        /\ \A i \in DOMAIN g.ops :
             /\ v.ops[i].op = g.ops[i].op
             /\ \A k \in 1..op_operand_count[g.ops[i].op] :
                  Follows(g.ops[i].args[k], v.ops[i].args[k], m)
    BY <1>3, Zenon DEF Kept
  <2>2. w.form = "LOCLIST" /\ w.everywhere /\ Narrowed(v.ops, w.ops)
    BY <2>1, Zenon DEF Rereads
  <2>3. v.ops \in Seq(Operation)
    BY <2>1, ValueParts, Zenon
  <2>4. ASSUME NEW i \in DOMAIN g.ops, NEW k \in 1..op_operand_count[g.ops[i].op]
        PROVE  Follows(g.ops[i].args[k], w.ops[i].args[k], l)
    <3>1. PICK e \in Operation : e = v.ops[i]
      BY <2>1, <2>3
    <3>2. e.op = g.ops[i].op /\ i \in DOMAIN v.ops
      BY <2>1, <3>1, Zenon
    <3>3. w.ops[i].args[k] = unsigned_int(e.args[k])
      BY <2>2, <3>1, <3>2, Zenon DEF Narrowed
    <3>4. e.op \in Operator /\ e.args \in [1..2 -> Int]
      BY DEF Operation
    <3>5. op_operand_count[e.op] \in 0..2 /\ \A c \in 0..2 : \A j \in 1..c : j \in 1..2
      BY <3>4, OperandsAssumption
    <3>6. e.args[k] \in Int
      BY <3>2, <3>4, <3>5, Zenon
    <3>7. Follows(g.ops[i].args[k], e.args[k], m)
      BY <2>1, <3>1, Zenon
    <3> QED
      BY <3>3, <3>6, <3>7, FollowsNarrowed, Zenon
  <2>5. DOMAIN w.ops = DOMAIN g.ops /\ \A i \in DOMAIN g.ops : w.ops[i].op = g.ops[i].op
    BY <2>1, <2>2, Zenon DEF Narrowed
  <2> QED
    BY <2>2, <2>4, <2>5, Zenon
<1> QED
  BY <1>1, <1>2, <1>3, Zenon DEF Kept

(* Its numbers, in the order in which they are printed.                     *)
LEMMA KeptNumbers ==
  ASSUME NEW g \in Value, NEW v \in Value, NEW m, Kept(g, v, m),
         g.form = "LOCLIST" => g.everywhere
  PROVE  \A i \in DOMAIN Numbers(g) : Follows(Numbers(g)[i], Numbers(v)[i], m)
<1>1. CASE g.form \in {"UNSIGNED", "SIGNED", "ADDR", "REF"}
  <2>1. v.form \in {"UNSIGNED", "SIGNED", "ADDR", "REF"} /\ Follows(g.n, v.n, m)
    BY <1>1, Zenon DEF Kept
  <2>2. Numbers(g) = <<g.n>> /\ Numbers(v) = <<v.n>>
    BY <1>1, <2>1 DEF Numbers
  <2>3. \A a, b : /\ \A i \in DOMAIN <<a>> : i = 1
                  /\ <<a>>[1] = a /\ <<b>>[1] = b
    OBVIOUS
  <2> QED
    BY <2>1, <2>2, <2>3, Zenon
<1>2. CASE g.form = "LOCLIST"
  <2>1. /\ v.form = "LOCLIST"
        /\ DOMAIN v.ops = DOMAIN g.ops
        /\ \A i \in DOMAIN g.ops :
             /\ v.ops[i].op = g.ops[i].op
             /\ \A k \in 1..op_operand_count[g.ops[i].op] :
                  Follows(g.ops[i].args[k], v.ops[i].args[k], m)
    BY <1>2, Zenon DEF Kept
  <2>2. PICK x \in Seq(Operation), y \in Seq(Operation) : x = g.ops /\ y = v.ops
    BY <1>2, <2>1, ValueParts, Zenon
  <2>3. PICK n \in Nat : /\ DOMAIN x = 1..n /\ DOMAIN y = 1..n
                         /\ \A i \in 1..n : x[i] \in Operation /\ y[i] \in Operation
    <3>1. PICK n \in Nat : DOMAIN x = 1..n
      OBVIOUS
    <3>2. DOMAIN y = 1..n
      BY <2>1, <2>2, <3>1, Zenon
    <3>3. \A s \in Seq(Operation) : \A i \in DOMAIN s : s[i] \in Operation
      OBVIOUS
    <3> QED
      BY <3>1, <3>2, <3>3, Zenon
  <2> DEFINE Operands(ops) == [i \in DOMAIN ops |-> opcode_to_string(ops[i]).args]
             R == {p \in Int \X Int : Follows(p[1], p[2], m)}
  <2>4. Numbers(g) = FlattenSeq(Operands(x)) /\ Numbers(v) = FlattenSeq(Operands(y))
    BY <1>2, <2>1, <2>2, Zenon DEF Numbers
  <2>5. ASSUME NEW e \in Operation
        PROVE  /\ opcode_to_string(e).args \in Seq(Int)
               /\ op_operand_count[e.op] \in 0..2
               /\ Len(opcode_to_string(e).args) = op_operand_count[e.op]
               /\ \A k \in 1..op_operand_count[e.op] : /\ opcode_to_string(e).args[k] = e.args[k]
                                                       /\ e.args[k] \in Int
    <3>1. PICK a \in [1..2 -> Int] : a = e.args
      BY DEF Operation
    <3>2. e.op \in Operator
      BY DEF Operation
    <3>3. PICK c \in 0..2 : c = op_operand_count[e.op]
      BY <3>2, OperandsAssumption
    <3>4. opcode_to_string(e).args = SubSeq(a, 1, c)
      BY <3>1, <3>3 DEF opcode_to_string
    <3>5. \A k \in 1..c : a[k] \in Int
      OBVIOUS
    <3>6. /\ SubSeq(a, 1, c) \in Seq(Int) /\ Len(SubSeq(a, 1, c)) = c
          /\ \A k \in 1..c : SubSeq(a, 1, c)[k] = a[k]
      BY PrintedOperands, Zenon
    <3> QED
      BY <3>1, <3>3, <3>4, <3>5, <3>6, Zenon
  <2>6. /\ Operands(x) = [i \in 1..n |-> opcode_to_string(x[i]).args]
        /\ Operands(y) = [i \in 1..n |-> opcode_to_string(y[i]).args]
    BY <2>3, Zenon
  <2>7. /\ \A i \in 1..n : Operands(x)[i] = opcode_to_string(x[i]).args
        /\ \A i \in 1..n : Operands(y)[i] = opcode_to_string(y[i]).args
    BY <2>6, Zenon
  <2>8. Operands(x) \in [1..n -> Seq(Int)] /\ Operands(y) \in [1..n -> Seq(Int)]
    BY <2>3, <2>5, <2>6, Zenon
  <2> HIDE DEF Operands
  <2>9. /\ Operands(x) \in Seq(Seq(Int)) /\ Operands(y) \in Seq(Seq(Int))
        /\ Len(Operands(x)) = n /\ Len(Operands(y)) = n
    <3>1. Operands(x) \in Seq(Seq(Int)) /\ Operands(y) \in Seq(Seq(Int))
      <4>1. \A s \in [1..n -> Seq(Int)] : s \in UNION {[1..k -> Seq(Int)] : k \in Nat}
        BY <2>3, Zenon
      <4>2. Seq(Seq(Int)) = UNION {[1..k -> Seq(Int)] : k \in Nat}
        BY SeqDef, Zenon
      <4> QED
        BY <2>8, <4>1, <4>2, Zenon
    <3>2. \A s \in Seq(Seq(Int)) : s \in [1..n -> Seq(Int)] => Len(s) = n
      BY <2>3
    <3> QED
      BY <2>8, <3>1, <3>2, Zenon
  <2>10. ASSUME NEW i \in 1..n
         PROVE  /\ Len(Operands(y)[i]) = Len(Operands(x)[i])
                /\ \A k \in 1..Len(Operands(x)[i]) : <<Operands(x)[i][k], Operands(y)[i][k]>> \in R
    <3>1. PICK d \in Operation, e \in Operation : d = x[i] /\ e = y[i]
      BY <2>3, Zenon
    <3>2. e.op = d.op /\ \A k \in 1..op_operand_count[d.op] : Follows(d.args[k], e.args[k], m)
      BY <2>1, <2>2, <2>3, <3>1, Zenon
    <3>3. /\ Len(Operands(x)[i]) = op_operand_count[d.op] /\ Len(Operands(y)[i]) = op_operand_count[d.op]
          /\ \A k \in 1..op_operand_count[d.op] :
               /\ Operands(x)[i][k] = d.args[k] /\ d.args[k] \in Int
               /\ Operands(y)[i][k] = e.args[k] /\ e.args[k] \in Int
      <4>1. Operands(x)[i] = opcode_to_string(d).args /\ Operands(y)[i] = opcode_to_string(e).args
        BY <2>7, <3>1, Zenon
      <4>2. /\ Len(Operands(x)[i]) = op_operand_count[d.op]
            /\ \A k \in 1..op_operand_count[d.op] : Operands(x)[i][k] = d.args[k] /\ d.args[k] \in Int
        BY <2>5, <4>1, Zenon
      <4>3. /\ Len(Operands(y)[i]) = op_operand_count[e.op]
            /\ \A k \in 1..op_operand_count[e.op] : Operands(y)[i][k] = e.args[k] /\ e.args[k] \in Int
        BY <2>5, <4>1, Zenon
      <4> QED
        BY <3>2, <4>2, <4>3, Zenon
    <3>4. \A a, b \in Int : Follows(a, b, m) => <<a, b>> \in R
      BY DEF Follows
    <3> QED
      BY <3>2, <3>3, <3>4, Zenon
  <2> HIDE DEF R
  <2>11. \A k \in 1..Len(FlattenSeq(Operands(x))) :
           <<FlattenSeq(Operands(x))[k], FlattenSeq(Operands(y))[k]>> \in R
    <3>1. PICK ss \in Seq(Seq(Int)), tt \in Seq(Seq(Int)) : ss = Operands(x) /\ tt = Operands(y)
      BY <2>9, Zenon
    <3>2. /\ Len(tt) = Len(ss)
          /\ \A i \in 1..Len(ss) : /\ Len(tt[i]) = Len(ss[i])
                                   /\ \A k \in 1..Len(ss[i]) : <<ss[i][k], tt[i][k]>> \in R
      BY <2>9, <2>10, <3>1, Zenon
    <3>3. \A k \in 1..Len(FlattenSeq(ss)) : <<FlattenSeq(ss)[k], FlattenSeq(tt)[k]>> \in R
      BY <3>2, FlattenRelated, Zenon
    <3> QED
      BY <3>1, <3>3, Zenon
  <2>12. DOMAIN FlattenSeq(Operands(x)) = 1..Len(FlattenSeq(Operands(x)))
    <3>1. FlattenSeq(Operands(x)) \in Seq(Int)
      BY <2>9, FlattenInSeq, Zenon
    <3> QED
      BY <3>1
  <2>13. \A a, b : <<a, b>> \in R => Follows(a, b, m)
    BY DEF R
  <2> QED
    BY <2>4, <2>11, <2>12, <2>13, Zenon
<1>3. CASE g.form \notin {"UNSIGNED", "SIGNED", "ADDR", "REF", "LOCLIST"}
  <2>1. Numbers(g) = <<>>
    BY <1>3 DEF Numbers
  <2>2. DOMAIN <<>> = {}
    OBVIOUS
  <2> QED
    BY <2>1, <2>2, Zenon
<1> QED
  BY <1>1, <1>2, <1>3, Zenon
-----------------------------------------------------------------------------
(* A value was there to be printed.                                         *)
HasValue == FromFile \/ rereads > 0

TypeInv == /\ rereads \in Nat
           /\ status \in {"printing", "reading", "syntax error", "aborted"}
           /\ FromFile => given \in Value
           /\ ~FromFile => given \in HandWritten
           /\ HasValue => value \in Value
TextInv == /\ HasValue /\ status # "printing" => text = Printed(value)
           /\ ~HasValue => text = given /\ status # "printing"
           /\ status = "syntax error" => ~Parses(text)
           /\ status = "aborted" => Aborts(text)
ValueInv == /\ FromFile /\ rereads > 0 => Settles(value)
            /\ rereads > 1 => Settles(value)
            /\ FromFile => Kept(given, value, rereads)
IInv == TypeInv /\ TextInv /\ ValueInv

(* What is written by hand is no value.                                     *)
LEMMA HandWrittenForms ==
  \A g \in HandWritten :
    /\ "form" \notin DOMAIN g
    /\ \/ g = [token |-> "STRING_LIT", text |-> g.text] /\ g.text \in Seq(Char)
       \/ g = [token |-> "OPCODE_LIST", ops |-> g.ops] /\ g.ops \in Seq(Opcode)
<1> SUFFICES ASSUME NEW g \in HandWritten
             PROVE  /\ "form" \notin DOMAIN g
                    /\ \/ g = [token |-> "STRING_LIT", text |-> g.text] /\ g.text \in Seq(Char)
                       \/ g = [token |-> "OPCODE_LIST", ops |-> g.ops] /\ g.ops \in Seq(Opcode)
  OBVIOUS
<1>1. \/ g \in [token : {"STRING_LIT"}, text : Seq(Char)]
      \/ g \in [token : {"OPCODE_LIST"}, ops : Seq(Opcode)]
  BY HandWrittenAssumption, Zenon DEF Opcode
<1>2. CASE g \in [token : {"STRING_LIT"}, text : Seq(Char)]
  BY <1>2
<1>3. CASE g \in [token : {"OPCODE_LIST"}, ops : Seq(Opcode)]
  BY <1>3
<1> QED
  BY <1>1, <1>2, <1>3

(* The first states.                                                        *)
LEMMA InitIInv == Init => IInv
<1> SUFFICES ASSUME Init PROVE IInv
  OBVIOUS
<1>1. rereads = 0 /\ rereads \in Nat /\ ~(rereads > 0) /\ ~(rereads > 1)
  BY DEF Init
<1>2. CASE given \in Values /\ value = given /\ status = "printing"
  <2>1. given \in Value
    BY <1>2, ValuesAssumption, Zenon
  <2>2. FromFile
    BY <2>1, ValueParts, Zenon DEF FromFile
  <2>3. Kept(given, value, rereads)
    <3>1. Kept(given, given, 0)
      BY <2>1, KeptAtFirst, Zenon
    <3> QED
      BY <1>1, <1>2, <3>1, Zenon
  <2> QED
    BY <1>1, <1>2, <2>1, <2>2, <2>3, Zenon DEF IInv, TypeInv, TextInv, ValueInv, HasValue
<1>3. CASE given \in HandWritten /\ text = given /\ status = "reading"
  <2>1. ~FromFile
    BY <1>3, HandWrittenForms, Zenon DEF FromFile
  <2> QED
    BY <1>1, <1>3, <2>1, Zenon DEF IInv, TypeInv, TextInv, ValueInv, HasValue
<1> QED
  BY <1>2, <1>3, Zenon DEF Init

(* One step.                                                                *)
LEMMA NextIInv == IInv /\ [Next]_vars => IInv'
<1> SUFFICES ASSUME IInv, [Next]_vars PROVE IInv'
  OBVIOUS
<1> USE DEF IInv, TypeInv, TextInv, ValueInv, HasValue
<1>1. ASSUME PrintAgain PROVE IInv'
  <2>1. /\ status = "printing" /\ text' = Printed(value) /\ status' = "reading"
        /\ given' = given /\ value' = value /\ rereads' = rereads
    BY <1>1, Zenon DEF PrintAgain
  <2>2. FromFile' <=> FromFile
    BY <2>1, Zenon DEF FromFile
  <2> QED
    BY <2>1, <2>2, Zenon
<1>2. ASSUME Read PROVE IInv'
  <2>1. /\ status = "reading" /\ ~Aborts(text) /\ value' \in make_attribute_value(text)
        /\ rereads' = rereads + 1 /\ status' = "printing" /\ given' = given /\ text' = text
    BY <1>2, Zenon DEF Read
  <2>2. FromFile' <=> FromFile
    BY <2>1, Zenon DEF FromFile
  <2>3. rereads' \in Nat /\ rereads' > 0
    <3>1. rereads \in Nat
      BY Zenon
    <3> HIDE DEF IInv, TypeInv, TextInv, ValueInv, HasValue
    <3> QED
      BY <2>1, <3>1
  <2>4. PICK w : w = value'
    OBVIOUS
  <2>5. /\ w \in Value
        /\ HasValue => Settles(w)
        /\ FromFile => Kept(given, w, rereads')
    <3>1. CASE HasValue
      <4>1. text = Printed(value) /\ value \in Value
        BY <2>1, <3>1, Zenon
      <4>2. PICK v \in Value : v = value /\ ~Aborts(Printed(v)) /\ w \in make_attribute_value(Printed(v))
        BY <2>1, <2>4, <4>1, Zenon
      <4>3. Settles(w) /\ Rereads(v, w)
        BY <4>2, Reread, Zenon
      <4>4. ASSUME FromFile PROVE Kept(given, w, rereads')
        <5>1. PICK g \in Value : g = given /\ Kept(g, v, rereads)
          BY <4>2, <4>4, Zenon
        <5>2. PICK l : l = rereads'
          OBVIOUS
        <5>3. Kept(g, w, l)
          BY <4>3, <5>1, KeptReread, Zenon
        <5> QED
          BY <5>1, <5>2, <5>3, Zenon
      <4>5. w \in Value
        BY <4>3, Zenon DEF Settles
      <4> QED
        BY <4>3, <4>4, <4>5
    <3>2. CASE ~HasValue
      <4>1. ~FromFile /\ given \in HandWritten /\ text = given
        BY <3>2, Zenon
      <4>2. ASSUME \E s \in Seq(Char) : text = [token |-> "STRING_LIT", text |-> s]
            PROVE  w \in Value
        <5>1. PICK s \in Seq(Char) : text = [token |-> "STRING_LIT", text |-> s]
          BY <4>2
        <5>2. make_attribute_value(text) = {[form |-> "STRING", chars |-> s]}
          BY <5>1, ReadForms, Zenon
        <5> QED
          BY <2>1, <2>4, <5>2, InValue, Zenon
      <4>3. ASSUME \E ops \in Seq(Opcode) : text = [token |-> "OPCODE_LIST", ops |-> ops]
            PROVE  w \in Value
        <5>1. PICK ops \in Seq(Opcode) : text = [token |-> "OPCODE_LIST", ops |-> ops]
          BY <4>3
        <5>2. \E y \in Seq(Operation) : w = [form |-> "LOCLIST", everywhere |-> TRUE, ops |-> y]
          BY <2>1, <2>4, <5>1, HandMadeOperations, Zenon
        <5> QED
          BY <5>2, InValue, Zenon
      <4>4. w \in Value
        BY <4>1, <4>2, <4>3, HandWrittenForms, Zenon
      <4> QED
        BY <3>2, <4>1, <4>4, Zenon
    <3> QED
      BY <3>1, <3>2, Zenon
  <2>6. /\ FromFile => Settles(value')
        /\ rereads' > 1 => Settles(value')
        /\ FromFile => Kept(given', value', rereads')
        /\ value' \in Value
    <3>1. rereads' > 1 => rereads > 0
      <4>1. rereads \in Nat
        BY Zenon
      <4> HIDE DEF IInv, TypeInv, TextInv, ValueInv, HasValue
      <4> QED
        BY <2>1, <4>1
    <3> QED
      BY <2>1, <2>4, <2>5, <3>1, Zenon
  <2>7. "printing" # "syntax error" /\ "printing" # "aborted"
    OBVIOUS
  <2> QED
    BY <2>1, <2>2, <2>3, <2>6, <2>7, Zenon
<1>3. ASSUME Refuse PROVE IInv'
  <2>1. /\ status = "reading" /\ ~Parses(text) /\ status' = "syntax error"
        /\ given' = given /\ value' = value /\ text' = text /\ rereads' = rereads
    BY <1>3, Zenon DEF Refuse
  <2>2. (FromFile' <=> FromFile) /\ (Parses(text)' <=> Parses(text))
    BY <2>1, Zenon DEF FromFile
  <2> QED
    BY <2>1, <2>2, Zenon
<1>4. ASSUME Abort PROVE IInv'
  <2>1. /\ status = "reading" /\ Aborts(text) /\ status' = "aborted"
        /\ given' = given /\ value' = value /\ text' = text /\ rereads' = rereads
    BY <1>4, Zenon DEF Abort
  <2>2. (FromFile' <=> FromFile) /\ (Aborts(text)' <=> Aborts(text))
    BY <2>1, Zenon DEF FromFile
  <2> QED
    BY <2>1, <2>2, Zenon
<1>5. CASE UNCHANGED vars
  <2>1. given' = given /\ value' = value /\ text' = text /\ rereads' = rereads /\ status' = status
    BY <1>5, Zenon DEF vars
  <2>2. FromFile' <=> FromFile
    BY <2>1, Zenon DEF FromFile
  <2> QED
    BY <2>1, <2>2, Zenon
<1> QED
  BY <1>1, <1>2, <1>3, <1>4, <1>5, Zenon DEF Next

(* The text, the value and what they were at first fit together.            *)
THEOREM TextInvariant == Spec => []IInv
BY InitIInv, NextIInv, PTL DEF Spec

(* What the lexer does not take for an identifier.                          *)
LEMMA NameParses ==
  ASSUME NEW s \in Seq(Char) \ {<<>>}, NEW t, t = [token |-> "IDENTS", text |-> escape_ident(s)],
         ~Parses(t)
  PROVE  s \in Keyword \/ Head(s) = "_"
<1>1. t.token = "IDENTS" /\ t.text = escape_ident(s) /\ "IDENTS" # "OPCODE_LIST"
  OBVIOUS
<1>2. ~identifier(t)
  BY <1>1, Zenon DEF Parses
<1>3. PICK e \in Seq(Char) :
        /\ e = escape_ident(s)
        /\ e = s \/ \E i \in 1..Len(e) : e[i] = "\\"
        /\ 1 \in DOMAIN e
        /\ e[1] = "\\" \/ e[1] \in Letter \/ Head(s) = "_"
  <2>1. s \in Seq(Char) /\ s # <<>>
    OBVIOUS
  <2> QED
    BY <2>1, EscapedIdent, Zenon
<1>4. CASE e \in Keyword
  <2>1. e \in Seq(Word)
    BY <1>4, KeywordAssumption, Zenon
  <2>2. \A i \in 1..Len(e) : e[i] \in Word
    BY <2>1
  <2>3. e = s
    BY <1>3, <2>2, WordsUnescaped, Zenon
  <2> QED
    BY <1>4, <2>3, Zenon
<1>5. CASE e \notin Keyword
  <2>1. 1..(1 - 1) = {}
    OBVIOUS
  <2>2. ~(e[1] \in Letter \/ e[1] = "\\")
    BY <1>1, <1>2, <1>3, <1>5, <2>1, Zenon DEF identifier
  <2> QED
    BY <1>3, <2>2, Zenon
<1> QED
  BY <1>4, <1>5

(* Any name of a file is read back as it was: nothing aborts, and only      *)
(* words of the language and a leading underscore are refused.              *)
THEOREM NamesAreReadBack == Spec => []NamesReadBack
<1>1. IInv => NamesReadBack
  <2> SUFFICES ASSUME IInv, FromFile, given.form = "NAME"
               PROVE  /\ value = given
                      /\ status # "aborted"
                      /\ status = "syntax error" => given.chars \in Keyword \/ Head(given.chars) = "_"
    BY Zenon DEF NamesReadBack
  <2>1. given \in Value /\ Kept(given, value, rereads)
    BY Zenon DEF IInv, TypeInv, ValueInv
  <2>2. value = given
    BY <2>1, Zenon DEF Kept
  <2>3. PICK s \in Seq(Char) \ {<<>>} : s = given.chars /\ given = [form |-> "NAME", chars |-> s]
    BY <2>1, ValueParts, Zenon
  <2>4. status # "printing" => text = [token |-> "IDENTS", text |-> escape_ident(s)]
    BY <2>2, <2>3, PrintedForms, Zenon DEF IInv, TextInv, HasValue
  <2>5. status # "aborted"
    <3>1. ASSUME status = "aborted" PROVE FALSE
      <4>1. Aborts(text) /\ text = [token |-> "IDENTS", text |-> escape_ident(s)]
        BY <2>4, <3>1, Zenon DEF IInv, TextInv
      <4> QED
        BY <4>1, AbortForms, Zenon
    <3> QED
      BY <3>1
  <2>6. ASSUME status = "syntax error" PROVE s \in Keyword \/ Head(s) = "_"
    <3>1. ~Parses(text) /\ text = [token |-> "IDENTS", text |-> escape_ident(s)]
      BY <2>4, <2>6, Zenon DEF IInv, TextInv
    <3> QED
      BY <3>1, NameParses, Zenon
  <2> QED
    BY <2>2, <2>3, <2>5, <2>6, Zenon
<1> QED
  BY <1>1, TextInvariant, PTL

(* The library's decoder returns what the printer was to write.             *)
THEOREM LiteralsAreDecoded == Spec => []LiteralsDecode
<1>1. IInv => LiteralsDecode
  <2> SUFFICES ASSUME IInv, FromFile, value.form = "STRING", status = "reading"
               PROVE  unescape_string_lit(text.text) = value.chars
    BY Zenon DEF LiteralsDecode
  <2>1. value \in Value /\ text = Printed(value)
    BY Zenon DEF IInv, TypeInv, TextInv, HasValue
  <2>2. PICK s \in Seq(Char) : s = value.chars /\ value = [form |-> "STRING", chars |-> s]
    BY <2>1, ValueParts, Zenon
  <2>3. text = [token |-> "STRING_LIT", text |-> Quoted(escape_string_lit(s))]
    BY <2>1, <2>2, PrintedForms, Zenon
  <2>4. text.text = Quoted(escape_string_lit(s))
    BY <2>3
  <2> QED
    BY <2>2, <2>4, LiteralDecoded, Zenon
<1> QED
  BY <1>1, TextInvariant, PTL

(* Numbers that an unsigned int can hold stay those of the file, and all    *)
(* others become numbers that it can hold.                                  *)
THEOREM SmallNumbersAreKept == Spec => []SmallNumbersSurvive
<1>1. IInv => SmallNumbersSurvive
  <2> SUFFICES ASSUME IInv, FromFile, given.form = "LOCLIST" => given.everywhere
               PROVE  \A i \in DOMAIN Numbers(given) :
                        IF Numbers(given)[i] \in 0..UINT_MAX THEN Numbers(value)[i] = Numbers(given)[i]
                        ELSE rereads > 0 => Numbers(value)[i] \in 0..UINT_MAX
    BY Zenon DEF SmallNumbersSurvive
  <2>1. given \in Value /\ value \in Value /\ Kept(given, value, rereads)
    BY Zenon DEF IInv, TypeInv, ValueInv, HasValue
  <2>2. \A i \in DOMAIN Numbers(given) : Follows(Numbers(given)[i], Numbers(value)[i], rereads)
    BY <2>1, KeptNumbers, Zenon
  <2> QED
    BY <2>2, Zenon DEF Follows
<1> QED
  BY <1>1, TextInvariant, PTL

(* What was read once, or twice if it was written by hand, is printed and   *)
(* read without a change from then on, strings and failures excepted.       *)
THEOREM ReadingSettles == Spec => Settled
<1>1. IInv /\ IInv' /\ [Next]_vars =>
        [Read /\ rereads > (IF FromFile THEN 0 ELSE 1) /\ value.form # "STRING"
           => Printed(value') = text]_vars
  <2> SUFFICES ASSUME IInv, Read, rereads > (IF FromFile THEN 0 ELSE 1), value.form # "STRING"
               PROVE  Printed(value') = text
    OBVIOUS
  <2>0. rereads > 0 /\ (FromFile \/ rereads > 1)
    <3>1. rereads \in Nat
      BY Zenon DEF IInv, TypeInv
    <3> QED
      BY <3>1
  <2>1. status = "reading" /\ ~Aborts(text) /\ value' \in make_attribute_value(text)
    BY Zenon DEF Read
  <2>2. text = Printed(value) /\ Settles(value) /\ value \in Value
    BY <2>0, <2>1, Zenon DEF IInv, TypeInv, TextInv, ValueInv, HasValue
  <2>3. PICK v \in Value : v = value
    BY <2>2, Zenon
  <2>4. PICK w : w = value'
    OBVIOUS
  <2>5. ~Aborts(Printed(v)) /\ w \in make_attribute_value(Printed(v)) /\ Settles(v) /\ v.form # "STRING"
    BY <2>1, <2>2, <2>3, <2>4, Zenon
  <2>6. Settles(w) /\ Rereads(v, w)
    BY <2>5, Reread, Zenon
  <2>7. Printed(w) = Printed(v)
    BY <2>5, <2>6, PrintedAgain, Zenon
  <2> QED
    BY <2>2, <2>3, <2>4, <2>7, Zenon
<1> QED
  BY <1>1, TextInvariant, PTL DEF Spec, Settled
=============================================================================
