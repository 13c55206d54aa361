----------------------------- MODULE Answers_proofs -----------------------------
(***************************************************************************)
(* Proofs about what is made of generated answers: Extraction, for every   *)
(* schema, every length of strings and any number of texts, and            *)
(* ChatHistory, for chats of any length and any max_history.               *)
(*                                                                         *)
(* Extraction is about braces.  Plain says that the fields of an object    *)
(* keep theirs inside of strings and leave no string open; it goes through *)
(* concatenation (PlainConcat), so all fields of a grammar are plain       *)
(* (FieldsPlain unfolds its recursive function), and an object is Enclosed *)
(* by the only two braces a parser sees.  So no parser takes what an       *)
(* object begins with for an object (OnlyWholeIsObject), wherever the loop *)
(* over its braces stops.  ExtractInv adds to the properties that what is  *)
(* generated is always the beginning of something the grammar derives.     *)
(*                                                                         *)
(* That the history of a chat begins with a question does not follow from  *)
(* what is kept being the end of what was said: ChatInv adds that, without *)
(* a system prompt, an even number of turns is kept after each answer.     *)
(***************************************************************************)
EXTENDS Extraction, ChatHistory, FiniteSetTheorems, SequenceTheorems, WellFoundedInduction, TLAPS

-----------------------------------------------------------------------------
(***************************************************************************)
(* Counting characters.                                                    *)
(***************************************************************************)

Below == {p \in Nat \X Nat : p[1] < p[2]}

\* What holds at 0, and at every number up to N if before it, holds at all of them.
LEMMA UpTo ==
  ASSUME NEW N \in Nat, NEW T, 0 \in T, \A n \in 1..N : n - 1 \in T => n \in T
  PROVE  \A n \in 0..N : n \in T
<1> DEFINE S == {n \in 0..N : n \notin T}
<1>1. SUFFICES ASSUME S # {} PROVE FALSE
  OBVIOUS
<1>2. IsWellFoundedOn(Below, Nat)
  <2>1. Below = OpToRel(<, Nat)
    BY DEF Below, OpToRel
  <2> QED
    BY <2>1, NatLessThanWellFounded
<1>3. PICK m \in S : \A j \in S : ~(<<j, m>> \in Below)
  <2>1. S \subseteq Nat
    OBVIOUS
  <2> HIDE DEF S
  <2> QED
    BY <1>1, <1>2, <2>1, WFMin
<1>4. m \in 1..N /\ m - 1 \in 0..N
  BY <1>3
<1>5. m - 1 \in S
  BY <1>3, <1>4
<1>6. <<m - 1, m>> \in Below
  BY <1>4 DEF Below
<1> QED
  BY <1>3, <1>5, <1>6

\* Everything that is generated or answered.
Char == {Opening, Closing, "x", Comma, "NA", Quote, Control, Zero} \cup Pieces
Text == Seq(Char)

LEMMA CountNat ==
  ASSUME NEW s, NEW c, NEW k \in Nat
  PROVE  Count(s, k, c) \in Nat
<1> DEFINE at == {i \in 1..k : s[i] = c}
<1>1. IsFiniteSet(1..k)
  BY FS_Interval
<1>2. at \in SUBSET (1..k)
  OBVIOUS
<1>3. IsFiniteSet(at) /\ Cardinality(at) \in Nat
  <2> HIDE DEF at
  <2> QED
    BY <1>1, <1>2, FS_Subset, FS_CardinalityType
<1> QED
  BY <1>3 DEF Count

LEMMA CountZero ==
  ASSUME NEW s, NEW c
  PROVE  Count(s, 0, c) = 0
<1>1. {i \in 1..0 : s[i] = c} = {}
  OBVIOUS
<1> QED
  BY <1>1, FS_EmptySet DEF Count

\* A count grows by one at each character that is counted.
LEMMA CountNext ==
  ASSUME NEW s, NEW c, NEW k \in Nat
  PROVE  Count(s, k + 1, c) = IF s[k + 1] = c THEN Count(s, k, c) + 1 ELSE Count(s, k, c)
<1> DEFINE at(j) == {i \in 1..j : s[i] = c}
<1>1. CASE s[k + 1] = c
  <2>1. at(k + 1) = at(k) \cup {k + 1} /\ k + 1 \notin at(k)
    BY <1>1
  <2>2. IsFiniteSet(at(k))
    <3>1. IsFiniteSet(1..k)
      BY FS_Interval
    <3>2. at(k) \in SUBSET (1..k)
      OBVIOUS
    <3> HIDE DEF at
    <3> QED
      BY <3>1, <3>2, FS_Subset
  <2>3. Cardinality(at(k + 1)) = Cardinality(at(k)) + 1
    <3> HIDE DEF at
    <3> QED
      BY <2>1, <2>2, FS_AddElement
  <2> QED
    BY <1>1, <2>3 DEF Count
<1>2. CASE s[k + 1] # c
  <2>1. at(k + 1) = at(k)
    BY <1>2
  <2>2. Count(s, k + 1, c) = Count(s, k, c)
    BY <2>1 DEF Count
  <2> QED
    BY <1>2, <2>2
<1> QED
  BY <1>1, <1>2

LEMMA CountConcat ==
  ASSUME NEW s \in Text, NEW t \in Text, NEW c
  PROVE  /\ \A k \in 0..Len(s) : Count(s \o t, k, c) = Count(s, k, c)
         /\ \A k \in 0..Len(t) : Count(s \o t, Len(s) + k, c) = Count(s, Len(s), c) + Count(t, k, c)
<1> DEFINE w == s \o t
<1>1. /\ Len(s) \in Nat /\ Len(t) \in Nat
      /\ \A i \in 1..(Len(s) + Len(t)) : w[i] = IF i <= Len(s) THEN s[i] ELSE t[i - Len(s)]
  BY ConcatProperties, LenProperties DEF Text
<1>2. PICK m \in Nat, n \in Nat : m = Len(s) /\ n = Len(t)
  BY <1>1
<1> HIDE DEF w
<1>3. ASSUME NEW k \in 0..m PROVE Count(w, k, c) = Count(s, k, c)
  <2>1. {i \in 1..k : w[i] = c} = {i \in 1..k : s[i] = c}
    BY <1>1, <1>2
  <2> QED
    BY <2>1 DEF Count
<1> DEFINE T == {k \in 0..n : Count(w, m + k, c) = Count(s, m, c) + Count(t, k, c)}
<1>4. 0 \in T
  <2>1. Count(t, 0, c) = 0 /\ Count(s, m, c) \in Nat /\ Count(w, m, c) = Count(s, m, c)
    BY <1>3, CountZero, CountNat
  <2>2. Count(w, m + 0, c) = Count(s, m, c) + Count(t, 0, c)
    BY <2>1
  <2> QED
    BY <2>2
<1>5. ASSUME NEW k \in 1..n, k - 1 \in T PROVE k \in T
  <2>1. PICK j \in Nat : j = k - 1
    OBVIOUS
  <2>2. w[(m + j) + 1] = t[j + 1]
    <3>1. (m + j) + 1 \in 1..(m + n) /\ ~((m + j) + 1 <= m) /\ ((m + j) + 1) - m = j + 1
      BY <2>1
    <3> QED
      BY <1>1, <1>2, <3>1
  <2>3. Count(w, (m + j) + 1, c)
          = IF t[j + 1] = c THEN Count(w, m + j, c) + 1 ELSE Count(w, m + j, c)
    BY <2>2, CountNext, m + j \in Nat
  <2>4. Count(t, j + 1, c) = IF t[j + 1] = c THEN Count(t, j, c) + 1 ELSE Count(t, j, c)
    BY CountNext
  <2>5. Count(s, m, c) \in Nat /\ Count(t, j, c) \in Nat
    BY CountNat
  <2>6. Count(w, m + j, c) = Count(s, m, c) + Count(t, j, c)
    BY <1>5, <2>1
  <2>7. Count(w, (m + j) + 1, c) = Count(s, m, c) + Count(t, j + 1, c)
    BY <2>3, <2>4, <2>5, <2>6
  <2>8. (m + j) + 1 = m + k /\ j + 1 = k
    BY <2>1
  <2>9. Count(w, m + k, c) = Count(s, m, c) + Count(t, k, c)
    BY <2>7, <2>8
  <2> QED
    BY <2>9
<1>6. \A k \in 0..n : k \in T
  <2> HIDE DEF T
  <2> QED
    BY <1>2, <1>4, <1>5, UpTo
<1> QED
  BY <1>2, <1>3, <1>6 DEF w

LEMMA Parity ==
  ASSUME NEW a \in Nat, NEW b \in Nat, a % 2 = 0
  PROVE  (a + b) % 2 = b % 2
OBVIOUS

-----------------------------------------------------------------------------
(***************************************************************************)
(* What the grammar of a schema derives.                                   *)
(***************************************************************************)

\* No brace stands outside of a string, and no string is left open.
Plain(s) == /\ s \in Text
            /\ Count(s, Len(s), Quote) % 2 = 0
            /\ \A i \in 1..Len(s) : s[i] \in {Opening, Closing} => InString(s, i)

LEMMA PlainConcat ==
  ASSUME NEW s, Plain(s), NEW t, Plain(t)
  PROVE  Plain(s \o t)
<1> DEFINE w == s \o t
           m == Len(s)
           n == Len(t)
<1>1. /\ s \in Text /\ t \in Text /\ w \in Text
      /\ m \in Nat /\ n \in Nat /\ Len(w) = m + n
      /\ \A i \in 1..(m + n) : w[i] = IF i <= m THEN s[i] ELSE t[i - m]
  BY ConcatProperties, LenProperties DEF Text, Plain
<1>2. /\ \A k \in 0..m : Count(w, k, Quote) = Count(s, k, Quote)
      /\ \A k \in 0..n : Count(w, m + k, Quote) = Count(s, m, Quote) + Count(t, k, Quote)
  BY <1>1, CountConcat
<1>3. Count(s, m, Quote) % 2 = 0 /\ Count(t, n, Quote) % 2 = 0
  BY DEF Plain
<1>4. /\ \A k \in 0..m : Count(s, k, Quote) \in Nat
      /\ \A k \in 0..n : Count(t, k, Quote) \in Nat
  BY <1>1, CountNat
<1>5. /\ \A i \in 1..m : s[i] \in {Opening, Closing} => InString(s, i)
      /\ \A i \in 1..n : t[i] \in {Opening, Closing} => InString(t, i)
  BY DEF Plain
<1> HIDE DEF w, m, n
<1>6. \A k \in 0..n : Count(w, m + k, Quote) % 2 = Count(t, k, Quote) % 2
  <2>1. ASSUME NEW k \in 0..n PROVE Count(w, m + k, Quote) % 2 = Count(t, k, Quote) % 2
    <3>1. Count(s, m, Quote) \in Nat /\ Count(t, k, Quote) \in Nat
      BY <1>1, <1>4
    <3> QED
      BY <1>2, <1>3, <3>1, Parity
  <2> QED
    BY <2>1
<1>7. Count(w, m + n, Quote) % 2 = 0
  BY <1>1, <1>3, <1>6
<1>8. ASSUME NEW i \in 1..(m + n), w[i] \in {Opening, Closing} PROVE InString(w, i)
  <2>1. CASE i <= m
    <3>1. i \in 1..m /\ i - 1 \in 0..m
      BY <1>1, <2>1
    <3>2. w[i] = s[i]
      BY <1>1, <2>1
    <3> QED
      BY <1>2, <1>5, <1>8, <3>1, <3>2 DEF InString
  <2>2. CASE ~(i <= m)
    <3>1. i - m \in 1..n /\ (i - m) - 1 \in 0..n /\ m + ((i - m) - 1) = i - 1
      BY <1>1, <2>2
    <3>2. w[i] = t[i - m]
      BY <1>1, <2>2
    <3>3. Count(t, (i - m) - 1, Quote) % 2 = 1
      BY <1>5, <1>8, <3>1, <3>2 DEF InString
    <3>4. Count(w, i - 1, Quote) % 2 = Count(t, (i - m) - 1, Quote) % 2
      BY <1>6, <3>1
    <3> QED
      BY <3>3, <3>4 DEF InString
  <2> QED
    BY <2>1, <2>2
<1> QED
  BY <1>1, <1>7, <1>8 DEF Plain, w

LEMMA CharsDiffer == Opening # Closing /\ Opening # Quote /\ Closing # Quote /\ Opening # "x" /\ Closing # "x"
                       /\ Quote # "x" /\ Quote # Comma /\ Opening # Comma /\ Closing # Comma
                       /\ Quote # Control /\ Quote # Zero /\ Opening # Zero /\ Closing # Zero
BY Zenon DEF Opening, Closing, Quote, Comma, Control, Zero

LEMMA OneSeq ==
  ASSUME NEW C, NEW c \in C
  PROVE  <<c>> \in Seq(C) /\ Len(<<c>>) = 1 /\ <<c>>[1] = c
OBVIOUS

LEMMA PlainOne ==
  ASSUME NEW c \in Char, c # Quote, c \notin {Opening, Closing}
  PROVE  Plain(<<c>>)
<1> DEFINE v == <<c>>
<1>1. v \in Text /\ Len(v) = 1 /\ v[1] = c
  BY OneSeq DEF Text
<1> HIDE DEF v
<1>2. Count(v, 0 + 1, Quote) = IF v[0 + 1] = Quote THEN Count(v, 0, Quote) + 1 ELSE Count(v, 0, Quote)
  BY CountNext
<1>3. Count(v, 1, Quote) = 0
  BY <1>1, <1>2, CountZero
<1>4. \A i \in 1..Len(v) : v[i] \notin {Opening, Closing}
  BY <1>1
<1> QED
  BY <1>1, <1>3, <1>4 DEF Plain, v

LEMMA PlainEmpty == Plain(<<>>)
<1>1. <<>> \in Text /\ Len(<<>>) = 0
  BY EmptySeq DEF Text
<1> QED
  BY <1>1, CountZero DEF Plain

LEMMA BoundedSeqs ==
  ASSUME NEW C, NEW N \in Nat, NEW s \in UNION {[1..n -> C] : n \in 0..N}
  PROVE  s \in Seq(C)
OBVIOUS

\* A string holds no quotes, and is one with those around it.
LEMMA PlainString ==
  ASSUME NEW s \in Strings
  PROVE  Plain(<<Quote>> \o s \o <<Quote>>)
<1> DEFINE inner == {Opening, Closing, Control, "x"}
           q == <<Quote>>
           v == q \o s
           w == v \o q
           n == Len(s)
<1>1. s \in Seq(inner)
  <2> HIDE DEF inner
  <2> QED
    BY GrammarAssumption, BoundedSeqs DEF Strings, inner
<1>2. inner \subseteq Char /\ Quote \in Char /\ Quote \notin inner /\ Quote \notin {Opening, Closing}
  BY CharsDiffer DEF Char
<1>3. s \in Text /\ n \in Nat /\ \A i \in 1..n : s[i] \in inner
  <2> HIDE DEF inner
  <2> QED
    BY <1>1, <1>2, SeqMonotonic, ElementOfSeq, LenProperties DEF Text
<1>4. q \in Text /\ Len(q) = 1 /\ q[1] = Quote
  BY <1>2, OneSeq DEF Text
<1> HIDE DEF inner, q, n
<1>5. /\ v \in Text /\ Len(v) = 1 + n
      /\ \A i \in 1..(1 + n) : v[i] = IF i <= 1 THEN q[i] ELSE s[i - 1]
  <2>1. /\ v \in Text /\ Len(v) = Len(q) + Len(s)
        /\ \A i \in 1..(Len(q) + Len(s)) : v[i] = IF i <= Len(q) THEN q[i] ELSE s[i - Len(q)]
    BY <1>3, <1>4, ConcatProperties DEF Text
  <2>2. Len(s) = n
    BY DEF n
  <2> HIDE DEF v
  <2> QED
    BY <1>4, <2>1, <2>2
<1> HIDE DEF v
<1>6. /\ w \in Text /\ Len(w) = (1 + n) + 1
      /\ \A i \in 1..((1 + n) + 1) : w[i] = IF i <= 1 + n THEN v[i] ELSE q[i - (1 + n)]
  <2>1. /\ w \in Text /\ Len(w) = Len(v) + Len(q)
        /\ \A i \in 1..(Len(v) + Len(q)) : w[i] = IF i <= Len(v) THEN v[i] ELSE q[i - Len(v)]
    BY <1>4, <1>5, ConcatProperties DEF Text
  <2> QED
    BY <1>4, <1>5, <2>1
<1> HIDE DEF w
<1>7. w[1] = Quote /\ w[n + 2] = Quote
  BY <1>3, <1>4, <1>5, <1>6
<1>8. \A i \in 2..(n + 1) : w[i] # Quote
  <2>1. ASSUME NEW i \in 2..(n + 1) PROVE w[i] # Quote
    <3>1. w[i] = s[i - 1] /\ i - 1 \in 1..n
      BY <1>3, <1>5, <1>6
    <3> QED
      BY <1>2, <1>3, <3>1
  <2> QED
    BY <2>1
<1> DEFINE T == {k \in 0..n : Count(w, k + 1, Quote) = 1}
<1>9. \A k \in 0..n : k \in T
  <2>1. 0 \in T
    <3>1. Count(w, 0 + 1, Quote) = IF w[0 + 1] = Quote THEN Count(w, 0, Quote) + 1 ELSE Count(w, 0, Quote)
      BY CountNext
    <3> QED
      BY <1>3, <1>7, <3>1, CountZero
  <2>2. ASSUME NEW k \in 1..n, k - 1 \in T PROVE k \in T
    <3>1. k \in Nat /\ k + 1 \in 2..(n + 1) /\ (k - 1) + 1 = k
      BY <1>3
    <3>2. Count(w, k, Quote) = 1
      BY <2>2, <3>1
    <3>3. Count(w, k + 1, Quote) = IF w[k + 1] = Quote THEN Count(w, k, Quote) + 1 ELSE Count(w, k, Quote)
      BY <3>1, CountNext
    <3>4. Count(w, k + 1, Quote) = 1
      BY <1>8, <3>1, <3>2, <3>3
    <3> QED
      BY <3>4
  <2> HIDE DEF T
  <2> QED
    BY <1>3, <2>1, <2>2, UpTo
<1>10. Count(w, n + 2, Quote) = 2
  <2>1. n + 1 \in Nat /\ (n + 1) + 1 = n + 2 /\ n \in 0..n
    BY <1>3
  <2>2. Count(w, (n + 1) + 1, Quote)
          = IF w[(n + 1) + 1] = Quote THEN Count(w, n + 1, Quote) + 1 ELSE Count(w, n + 1, Quote)
    BY <2>1, CountNext
  <2>3. Count(w, n + 1, Quote) = 1
    BY <1>9, <2>1
  <2> QED
    BY <1>7, <2>1, <2>2, <2>3
<1>11. ASSUME NEW i \in 1..(n + 2), w[i] \in {Opening, Closing} PROVE InString(w, i)
  <2>1. w[i] # Quote
    BY <1>2, <1>11
  <2>2. i - 2 \in 0..n /\ (i - 2) + 1 = i - 1
    BY <1>3, <1>7, <2>1
  <2>3. Count(w, i - 1, Quote) = 1
    BY <1>9, <2>2
  <2> QED
    BY <2>3 DEF InString
<1>12. Len(w) = n + 2
  BY <1>3, <1>6
<1>13. Plain(w)
  BY <1>6, <1>10, <1>11, <1>12 DEF Plain
<1> QED
  BY <1>13 DEF w, v, q

LEMMA LongerPlain ==
  ASSUME NEW bodies, \A b \in bodies : Plain(b), NEW type
  PROVE  \A body \in Longer(bodies, type) : Plain(body)
<1>1. Plain(<<"x">>) /\ Plain(<<Comma>>) /\ Plain(<<Zero>>)
  BY PlainOne, CharsDiffer DEF Char
<1>2. \A v \in Value(type) : Plain(v)
  BY <1>1, PlainString DEF Value
<1>3. ASSUME NEW b \in bodies, NEW v \in Value(type)
      PROVE  Plain(Named(b) \o v)
  <2>1. Plain(b \o <<Comma>>)
    BY <1>1, PlainConcat
  <2>2. Plain(Named(b))
    BY <1>1, <2>1 DEF Named
  <2>3. Plain(v)
    BY <1>2
  <2> QED
    BY <2>2, <2>3, PlainConcat
<1>4. ASSUME NEW body \in Longer(bodies, type) PROVE Plain(body)
  <2>1. PICK b \in bodies, v \in Value(type) : body = Named(b) \o v
    BY SMT DEF Longer
  <2> QED
    BY <1>3, <2>1
<1> QED
  BY <1>4

\* f gives the bodies of an object cut short after each of the first k fields.
Bodies(f, k) == f = [n \in 0..k |-> IF n = 0 THEN {<<>>} ELSE Longer(f[n - 1], Schema[n])]

LEMMA BodiesExist == \E f : Bodies(f, Len(Schema))
<1>1. PICK N \in Nat : N = Len(Schema)
  BY GrammarAssumption, LenProperties
<1> DEFINE T == {k \in 0..N : \E f : Bodies(f, k)}
<1>2. 0 \in T
  <2>1. Bodies([n \in 0..0 |-> {<<>>}], 0)
    BY DEF Bodies
  <2> QED
    BY <1>1, <2>1
<1>3. ASSUME NEW k \in 1..N, k - 1 \in T PROVE k \in T
  <2>1. PICK f : Bodies(f, k - 1)
    BY <1>3
  <2> DEFINE g == [n \in 0..k |-> IF n = k THEN Longer(f[k - 1], Schema[k]) ELSE f[n]]
  <2>2. ASSUME NEW n \in 0..k
        PROVE  g[n] = IF n = 0 THEN {<<>>} ELSE Longer(g[n - 1], Schema[n])
    <3>1. CASE n = k
      BY <3>1
    <3>2. CASE n # k
      <4>1. n \in 0..(k - 1) /\ g[n] = f[n] /\ (n # 0 => g[n - 1] = f[n - 1])
        BY <3>2
      <4> QED
        BY <2>1, <4>1 DEF Bodies
    <3> QED
      BY <3>1, <3>2
  <2>3. Bodies(g, k)
    BY <2>2 DEF Bodies
  <2> HIDE DEF g
  <2> QED
    BY <2>3
<1>4. \A k \in 0..N : k \in T
  <2> HIDE DEF T
  <2> QED
    BY <1>1, <1>2, <1>3, UpTo
<1> QED
  BY <1>1, <1>4

LEMMA FieldsPlain == \A b \in Fields : Plain(b)
<1>1. PICK N \in Nat : N = Len(Schema)
  BY GrammarAssumption, LenProperties
<1> DEFINE chosen == CHOOSE f : Bodies(f, Len(Schema))
<1>2. Bodies(chosen, Len(Schema))
  BY BodiesExist
<1>3. Fields = chosen[Len(Schema)]
  BY DEF Fields, Bodies
<1> HIDE DEF chosen
<1> DEFINE T == {n \in 0..N : \A b \in chosen[n] : Plain(b)}
<1>4. 0 \in T
  <2>1. chosen[0] = {<<>>}
    BY <1>1, <1>2 DEF Bodies
  <2> QED
    BY <2>1, PlainEmpty
<1>5. ASSUME NEW n \in 1..N, n - 1 \in T PROVE n \in T
  <2>1. chosen[n] = Longer(chosen[n - 1], Schema[n])
    <3> DEFINE step(f) == [i \in 0..N |-> IF i = 0 THEN {<<>>} ELSE Longer(f[i - 1], Schema[i])]
    <3>1. chosen = step(chosen)
      BY <1>1, <1>2 DEF Bodies
    <3>2. step(chosen)[n] = Longer(chosen[n - 1], Schema[n])
      BY <1>1
    <3> HIDE DEF step
    <3> QED
      BY <3>1, <3>2
  <2>2. \A b \in chosen[n - 1] : Plain(b)
    BY <1>5
  <2> QED
    BY <2>1, <2>2, LongerPlain
<1>6. \A n \in 0..N : n \in T
  <2> HIDE DEF T
  <2> QED
    BY <1>4, <1>5, UpTo
<1> QED
  BY <1>1, <1>3, <1>6

-----------------------------------------------------------------------------
(***************************************************************************)
(* Objects and what is cut off of them.                                    *)
(***************************************************************************)

\* Outside of its strings an object has one brace at each end, and no other.
Enclosed(w) ==
  /\ w \in Text /\ Len(w) \in Nat /\ Len(w) >= 2
  /\ w[1] = Opening /\ w[Len(w)] = Closing
  /\ ~InString(w, 1) /\ ~InString(w, Len(w)) /\ ~InString(w, Len(w) + 1)
  /\ \A i \in 2..(Len(w) - 1) : w[i] \in {Opening, Closing} => InString(w, i)

LEMMA ObjectEnclosed ==
  ASSUME NEW w \in Objects
  PROVE  Enclosed(w)
<1>1. PICK b \in Fields : w = <<Opening>> \o b \o <<Closing>>
  BY DEF Objects
<1>2. Plain(b)
  BY FieldsPlain
<1> DEFINE o == <<Opening>>
           e == <<Closing>>
           v == o \o b
           u == v \o e
           n == Len(b)
<1>3. Opening \in Char /\ Closing \in Char
  BY DEF Char
<1>4. /\ o \in Text /\ Len(o) = 1 /\ o[1] = Opening
      /\ e \in Text /\ Len(e) = 1 /\ e[1] = Closing
  BY <1>3, OneSeq DEF Text
<1>5. b \in Text /\ n \in Nat
  BY <1>2, LenProperties DEF Plain, Text
<1>6. /\ Count(b, n, Quote) % 2 = 0
      /\ \A i \in 1..n : b[i] \in {Opening, Closing} => InString(b, i)
  BY <1>2 DEF Plain
<1>7. u = w
  BY <1>1
<1> HIDE DEF o, e, n, u
<1>8. Len(b) = n
  BY DEF n
<1>9. /\ v \in Text /\ Len(v) = 1 + n
      /\ \A i \in 1..(1 + n) : v[i] = IF i <= 1 THEN o[i] ELSE b[i - 1]
      /\ \A k \in 0..n : Count(v, 1 + k, Quote) = Count(o, 1, Quote) + Count(b, k, Quote)
  <2>1. /\ v \in Text /\ Len(v) = Len(o) + Len(b)
        /\ \A i \in 1..(Len(o) + Len(b)) : v[i] = IF i <= Len(o) THEN o[i] ELSE b[i - Len(o)]
    BY <1>4, <1>5, ConcatProperties DEF Text
  <2>2. \A k \in 0..Len(b) : Count(v, Len(o) + k, Quote) = Count(o, Len(o), Quote) + Count(b, k, Quote)
    BY <1>4, <1>5, CountConcat
  <2> HIDE DEF v
  <2> QED
    BY <1>4, <1>8, <2>1, <2>2
<1> HIDE DEF v
<1>10. /\ w \in Text /\ Len(w) = n + 2
       /\ \A i \in 1..(n + 2) : w[i] = IF i <= 1 + n THEN v[i] ELSE e[i - (1 + n)]
       /\ \A k \in 0..(1 + n) : Count(w, k, Quote) = Count(v, k, Quote)
  <2>1. /\ u \in Text /\ Len(u) = Len(v) + Len(e)
        /\ \A i \in 1..(Len(v) + Len(e)) : u[i] = IF i <= Len(v) THEN v[i] ELSE e[i - Len(v)]
    BY <1>4, <1>9, ConcatProperties DEF Text, u
  <2>2. \A k \in 0..Len(v) : Count(u, k, Quote) = Count(v, k, Quote)
    BY <1>4, <1>9, CountConcat DEF u
  <2>3. Len(v) = 1 + n /\ Len(v) + Len(e) = n + 2
    BY <1>4, <1>5, <1>9
  <2> QED
    BY <1>7, <2>1, <2>2, <2>3
<1>11. Count(o, 1, Quote) = 0
  <2>1. Count(o, 0 + 1, Quote) = IF o[0 + 1] = Quote THEN Count(o, 0, Quote) + 1 ELSE Count(o, 0, Quote)
    BY CountNext
  <2>2. Count(o, 0, Quote) = 0
    BY CountZero
  <2>3. 0 + 1 = 1 /\ o[1] # Quote
    BY <1>4, CharsDiffer
  <2> QED
    BY <2>1, <2>2, <2>3
<1>12. \A k \in 0..n : Count(w, 1 + k, Quote) = Count(b, k, Quote)
  <2>1. ASSUME NEW k \in 0..n PROVE Count(w, 1 + k, Quote) = Count(b, k, Quote)
    <3>1. 1 + k \in 0..(1 + n) /\ k \in Nat
      BY <1>5
    <3>2. Count(b, k, Quote) \in Nat
      BY <3>1, CountNat
    <3> QED
      BY <1>9, <1>10, <1>11, <3>1, <3>2
  <2> QED
    BY <2>1
<1>13. w[1] = Opening /\ w[n + 2] = Closing
  BY <1>4, <1>5, <1>9, <1>10
<1>14. ~InString(w, 1)
  <2>1. Count(w, 1 - 1, Quote) = 0
    BY CountZero
  <2> QED
    BY <2>1 DEF InString
<1>15. Count(w, n + 1, Quote) % 2 = 0
  <2>1. n \in 0..n /\ 1 + n = n + 1
    BY <1>5
  <2> QED
    BY <1>6, <1>12, <2>1
<1>16. ~InString(w, n + 2) /\ ~InString(w, (n + 2) + 1)
  <2>1. n + 1 \in Nat /\ (n + 1) + 1 = n + 2 /\ (n + 2) - 1 = n + 1 /\ ((n + 2) + 1) - 1 = n + 2
    BY <1>5
  <2>2. Count(w, (n + 1) + 1, Quote)
          = IF w[(n + 1) + 1] = Quote THEN Count(w, n + 1, Quote) + 1 ELSE Count(w, n + 1, Quote)
    BY <2>1, CountNext
  <2>3. Count(w, n + 2, Quote) = Count(w, n + 1, Quote)
    BY <1>13, <2>1, <2>2, CharsDiffer
  <2> QED
    BY <1>15, <2>1, <2>3 DEF InString
<1>17. ASSUME NEW i \in 2..(n + 1), w[i] \in {Opening, Closing} PROVE InString(w, i)
  <2>1. i - 1 \in 1..n /\ (i - 1) - 1 \in 0..n /\ 1 + ((i - 1) - 1) = i - 1
        /\ i \in 1..(n + 2) /\ i <= 1 + n /\ ~(i <= 1) /\ i \in 1..(1 + n)
    BY <1>5
  <2>2. w[i] = b[i - 1]
    BY <1>9, <1>10, <2>1
  <2>3. Count(b, (i - 1) - 1, Quote) % 2 = 1
    BY <1>6, <1>17, <2>1, <2>2 DEF InString
  <2>4. Count(w, i - 1, Quote) % 2 = 1
    BY <1>12, <2>1, <2>3
  <2> QED
    BY <2>4 DEF InString
<1>18. Len(w) \in Nat /\ Len(w) >= 2 /\ Len(w) - 1 = n + 1
  BY <1>5, <1>10
<1> QED
  BY <1>10, <1>13, <1>14, <1>16, <1>17, <1>18 DEF Enclosed

\* The first part of a text has the braces and strings of the text.
LEMMA CutOffSame ==
  ASSUME NEW w \in Text, NEW k \in 0..Len(w)
  PROVE  LET s == SubSeq(w, 1, k) IN
         /\ s \in Text /\ Len(s) = k
         /\ \A i \in 1..k : s[i] = w[i]
         /\ \A i \in 1..(k + 1) : InString(s, i) <=> InString(w, i)
<1> DEFINE s == SubSeq(w, 1, k)
<1>1. Len(w) \in Nat /\ \A i \in 1..Len(w) : w[i] \in Char
  BY LenProperties, ElementOfSeq DEF Text
<1>2. \A i \in 1..k : w[i] \in Char
  BY <1>1
<1>3. s \in Text /\ Len(s) = k /\ \A i \in 1..k : s[i] = w[i]
  <2>1. /\ s \in Seq(Char) /\ Len(s) = IF 1 <= k THEN k - 1 + 1 ELSE 0
        /\ \A i \in 1..(k - 1 + 1) : s[i] = w[1 + i - 1]
    BY <1>1, <1>2, SubSeqProperties, k \in Int, 1 \in Int
  <2>2. k \in Nat
    BY <1>1
  <2> HIDE DEF s
  <2> QED
    BY <2>1, <2>2 DEF Text
<1> HIDE DEF s
<1>4. ASSUME NEW i \in 1..(k + 1) PROVE InString(s, i) <=> InString(w, i)
  <2>1. {j \in 1..(i - 1) : s[j] = Quote} = {j \in 1..(i - 1) : w[j] = Quote}
    BY <1>1, <1>3
  <2> QED
    BY <2>1 DEF InString, Count
<1> QED
  BY <1>3, <1>4 DEF s

\* The braces that a parser sees in an object, or in its first k characters.
LEMMA BracesCut ==
  ASSUME NEW w, Enclosed(w), NEW k \in 1..(Len(w) - 1)
  PROVE  LET s == SubSeq(w, 1, k) IN Braces(s, k, Opening) = 1 /\ Braces(s, k, Closing) = 0
<1> DEFINE s == SubSeq(w, 1, k)
           sees(c) == {i \in 1..k : s[i] = c /\ ~InString(s, i)}
<1>1. w \in Text /\ Len(w) \in Nat /\ k \in 0..Len(w) /\ k \in Nat
  BY DEF Enclosed
<1>2. /\ \A i \in 1..k : s[i] = w[i]
      /\ \A i \in 1..(k + 1) : InString(s, i) <=> InString(w, i)
  BY <1>1, CutOffSame
<1> HIDE DEF s
<1>3. /\ w[1] = Opening /\ ~InString(w, 1)
      /\ \A i \in 2..k : w[i] \in {Opening, Closing} => InString(w, i)
  <2>1. \A i \in 2..k : i \in 2..(Len(w) - 1)
    BY <1>1
  <2> QED
    BY <2>1 DEF Enclosed
<1>4. \A i \in 1..k : i = 1 \/ i \in 2..k
  BY <1>1
<1>5. \A i \in 1..k : i \in 1..(k + 1)
  BY <1>1
<1>6. \A i \in 1..k : s[i] = Opening /\ ~InString(s, i) <=> i = 1
  BY <1>2, <1>3, <1>4, <1>5
<1>7. \A i \in 1..k : ~(s[i] = Closing /\ ~InString(s, i))
  BY <1>2, <1>3, <1>4, <1>5, CharsDiffer
<1>8. sees(Opening) = {1} /\ sees(Closing) = {}
  BY <1>1, <1>6, <1>7
<1>9. Cardinality({1}) = 1 /\ Cardinality({}) = 0
  BY FS_Singleton, FS_EmptySet
<1> QED
  BY <1>8, <1>9 DEF Braces, s

LEMMA SmallestOf ==
  ASSUME NEW S, S \subseteq Nat, S # {}
  PROVE  \E k \in S : \A j \in S : k <= j
<1>1. IsWellFoundedOn(Below, Nat)
  <2>1. Below = OpToRel(<, Nat)
    BY DEF Below, OpToRel
  <2> QED
    BY <2>1, NatLessThanWellFounded
<1>2. PICK m \in S : \A j \in S : ~(<<j, m>> \in Below)
  BY <1>1, WFMin
<1>3. ASSUME NEW j \in S PROVE m <= j
  <2>1. j \in Nat /\ m \in Nat
    OBVIOUS
  <2>2. ~(j < m)
    BY <1>2, <2>1 DEF Below
  <2> QED
    BY <2>1, <2>2
<1> QED
  BY <1>3

\* What is found in a text is its beginning.
LEMMA MatchedIsCut ==
  ASSUME NEW s \in Text, s # <<>>
  PROVE  \E k \in 1..Len(s) : Matched(s) = SubSeq(s, 1, k)
<1> DEFINE ends == {k \in 1..Len(s) : Closes(s, k)}
<1>1. Len(s) \in Nat \ {0} /\ SubSeq(s, 1, Len(s)) = s
  BY EmptySeq, LenProperties, SubSeqFull DEF Text
<1>2. CASE ends = {}
  <2>1. Matched(s) = s
    BY <1>2 DEF Matched
  <2>2. Matched(s) = SubSeq(s, 1, Len(s)) /\ Len(s) \in 1..Len(s)
    BY <1>1, <2>1
  <2> QED
    BY <2>2
<1>3. CASE ends # {}
  <2> DEFINE first == CHOOSE k \in ends : \A j \in ends : k <= j
  <2>1. ends \subseteq 1..Len(s) /\ ends \subseteq Nat
    BY <1>1
  <2>2. Matched(s) = SubSeq(s, 1, first)
    BY <1>3 DEF Matched
  <2>3. first \in ends
    <3> HIDE DEF ends
    <3> QED
      BY <1>3, <2>1, SmallestOf
  <2> HIDE DEF first, ends
  <2> QED
    BY <2>1, <2>2, <2>3
<1> QED
  BY <1>2, <1>3

\* A parser takes the whole object, if JSON allows its strings and numbers, and
\* none of what it begins with.
LEMMA OnlyWholeIsObject ==
  ASSUME NEW w, Enclosed(w), NEW k \in 1..Len(w)
  PROVE  IsObject(SubSeq(w, 1, k)) <=> k = Len(w) /\ Readable(w)
<1> DEFINE s == SubSeq(w, 1, k)
           n == Len(w)
<1>1. w \in Text /\ n \in Nat /\ n >= 2 /\ k \in 0..n /\ k \in Nat
  BY DEF Enclosed
<1>2. s \in Text /\ Len(s) = k
  BY <1>1, CutOffSame
<1>3. CASE k # n
  <2>1. k \in 1..(n - 1)
    BY <1>1, <1>3
  <2>2. Braces(s, k, Opening) = 1 /\ Braces(s, k, Closing) = 0
    BY <2>1, BracesCut
  <2>3. Braces(s, Len(s), Opening) # Braces(s, Len(s), Closing)
    BY <1>2, <2>2
  <2>4. ~IsObject(s)
    BY <2>3 DEF IsObject
  <2> QED
    BY <1>3, <2>4
<1>4. CASE k = n
  <2>1. s = w
    BY <1>1, <1>4, SubSeqFull DEF Text
  <2>2. ASSUME NEW j \in 1..(n - 1) PROVE Braces(w, j, Opening) > Braces(w, j, Closing)
    <3> DEFINE p == SubSeq(w, 1, j)
    <3>1. Braces(p, j, Opening) = 1 /\ Braces(p, j, Closing) = 0
      BY <2>2, BracesCut
    <3>2. /\ \A i \in 1..j : p[i] = w[i]
          /\ \A i \in 1..(j + 1) : InString(p, i) <=> InString(w, i)
      BY <1>1, CutOffSame
    <3> HIDE DEF p
    <3>3. \A i \in 1..j : i \in 1..(j + 1)
      BY <1>1
    <3>4. ASSUME NEW c PROVE Braces(p, j, c) = Braces(w, j, c)
      <4>1. {i \in 1..j : p[i] = c /\ ~InString(p, i)} = {i \in 1..j : w[i] = c /\ ~InString(w, i)}
        BY <3>2, <3>3
      <4> QED
        BY <4>1 DEF Braces
    <3>5. Braces(w, j, Opening) = 1 /\ Braces(w, j, Closing) = 0
      BY <3>1, <3>4
    <3> QED
      BY <3>5
  <2>3. Braces(w, n, Opening) = Braces(w, n, Closing)
    <3> DEFINE sees(c) == {i \in 1..n : w[i] = c /\ ~InString(w, i)}
    <3>1. /\ w[1] = Opening /\ w[n] = Closing /\ ~InString(w, 1) /\ ~InString(w, n)
          /\ \A i \in 2..(n - 1) : w[i] \in {Opening, Closing} => InString(w, i)
      BY DEF Enclosed
    <3> HIDE DEF n
    <3>2. \A i \in 1..n : i = 1 \/ i = n \/ i \in 2..(n - 1)
      BY <1>1
    <3>3. 1 \in 1..n /\ n \in 1..n /\ n # 1
      BY <1>1
    <3>4. sees(Opening) = {1}
      BY <3>1, <3>2, <3>3, CharsDiffer
    <3>5. sees(Closing) = {n}
      BY <3>1, <3>2, <3>3, CharsDiffer
    <3>6. Cardinality({1}) = Cardinality({n})
      BY FS_Singleton
    <3> QED
      BY <3>4, <3>5, <3>6 DEF Braces
  <2>4. w # <<>> /\ ~InString(w, n + 1)
    BY <1>1, EmptySeq DEF Enclosed
  <2>5. IsObject(w) <=> Readable(w)
    BY <2>2, <2>3, <2>4 DEF IsObject
  <2> QED
    BY <1>4, <2>1, <2>5
<1> QED
  BY <1>3, <1>4

LEMMA PrefixCut ==
  ASSUME NEW s \in Text, NEW w \in Text, IsPrefix(s, w)
  PROVE  Len(s) \in Nat /\ Len(w) \in Nat /\ Len(s) <= Len(w) /\ s = SubSeq(w, 1, Len(s))
BY LenProperties, SubSeqFull DEF Text, IsPrefix

\* A row is filled in for whole objects only.
LEMMA RowIsWhole ==
  ASSUME NEW s \in Text, NEW w \in Objects, IsPrefix(s, w), Row(s) # NA
  PROVE  Row(s) = s /\ s \in Objects
<1>1. s # <<>> /\ IsObject(Matched(s)) /\ Row(s) = Matched(s)
  BY DEF Row
<1>2. Enclosed(w)
  BY ObjectEnclosed
<1>3. w \in Text /\ Len(w) \in Nat /\ SubSeq(w, 1, Len(w)) = w
  BY <1>2, SubSeqFull DEF Enclosed, Text
<1>4. PICK m \in Nat : m = Len(s) /\ m <= Len(w) /\ s = SubSeq(w, 1, m)
  BY <1>3, PrefixCut
<1>5. PICK k \in 1..m : Matched(s) = SubSeq(s, 1, k)
  BY <1>1, <1>4, MatchedIsCut
<1>6. SubSeq(s, 1, k) = SubSeq(w, 1, k)
  <2>1. \A i \in 1..k : s[i] = w[i] /\ w[i] \in Char
    <3>1. \A i \in 1..m : s[i] = w[i]
      BY <1>3, <1>4, CutOffSame
    <3>2. \A i \in 1..Len(w) : w[i] \in Char
      BY <1>3, ElementOfSeq DEF Text
    <3> QED
      BY <1>3, <1>4, <3>1, <3>2
  <2>2. k \in Nat /\ k \in 0..Len(s) /\ k \in 0..Len(w)
    BY <1>3, <1>4
  <2>3. /\ SubSeq(s, 1, k) \in Seq(Char) /\ Len(SubSeq(s, 1, k)) = k
        /\ \A i \in 1..k : SubSeq(s, 1, k)[i] = s[i]
    BY <2>2, CutOffSame DEF Text
  <2>4. /\ SubSeq(w, 1, k) \in Seq(Char) /\ Len(SubSeq(w, 1, k)) = k
        /\ \A i \in 1..k : SubSeq(w, 1, k)[i] = w[i]
    BY <1>3, <2>2, CutOffSame DEF Text
  <2>5. ASSUME NEW a \in Seq(Char), NEW b \in Seq(Char), Len(a) = k, Len(b) = k,
               \A i \in 1..k : a[i] = b[i]
        PROVE  a = b
    BY <2>5, SeqEqual
  <2>6. \A i \in 1..k : SubSeq(s, 1, k)[i] = SubSeq(w, 1, k)[i]
    BY <2>1, <2>3, <2>4
  <2> QED
    BY <2>3, <2>4, <2>5, <2>6
<1>7. k = Len(w)
  <2>1. k \in 1..Len(w)
    BY <1>3, <1>4
  <2> QED
    BY <1>1, <1>2, <1>5, <1>6, <2>1, OnlyWholeIsObject
<1>8. m = Len(w) /\ s = w
  BY <1>3, <1>4, <1>7
<1> QED
  BY <1>1, <1>3, <1>5, <1>6, <1>7, <1>8

\* Every closing brace of an object but the last one leaves some open.
Balanced(w) == \A k \in 1..(Len(w) - 1) : Depth(w, k) > 0

\* A balanced object that JSON allows is found.
LEMMA BalancedRow ==
  ASSUME parser, NEW w \in Objects, Readable(w), Balanced(w)
  PROVE  Row(w) = w
<1> DEFINE n == Len(w)
           ends == {k \in 1..n : Closes(w, k)}
           first == CHOOSE k \in ends : \A j \in ends : k <= j
<1>1. Enclosed(w)
  BY ObjectEnclosed
<1>2. w \in Text /\ n \in Nat /\ n >= 2 /\ SubSeq(w, 1, n) = w
  BY <1>1, SubSeqFull DEF Enclosed, Text
<1>3. \A k \in ends : k = n
  <2>1. ASSUME NEW k \in ends, k # n PROVE FALSE
    <3>1. k \in 1..(n - 1) /\ Depth(w, k) = 0
      <4>1. k \in 1..n /\ Closes(w, k)
        BY <2>1
      <4> HIDE DEF n, ends
      <4> QED
        BY <1>2, <2>1, <4>1 DEF Closes
    <3>2. Depth(w, k) > 0
      BY <3>1 DEF Balanced
    <3> QED
      BY <3>1, <3>2
  <2> QED
    BY <2>1
<1>4. Matched(w) = w
  <2>1. Matched(w) = IF ends = {} THEN w ELSE SubSeq(w, 1, first)
    BY DEF Matched
  <2>2. ASSUME ends # {} PROVE first = n
    <3>1. ends \subseteq Nat
      BY <1>2
    <3> HIDE DEF ends
    <3>2. first \in ends
      BY <2>2, <3>1, SmallestOf
    <3> QED
      BY <1>3, <3>2
  <2> HIDE DEF ends, first
  <2> QED
    BY <1>2, <2>1, <2>2
<1>5. IsObject(SubSeq(w, 1, n))
  BY <1>1, <1>2, OnlyWholeIsObject
<1>6. w # <<>>
  BY <1>2, EmptySeq
<1> QED
  BY <1>2, <1>4, <1>5, <1>6 DEF Row

-----------------------------------------------------------------------------
(***************************************************************************)
(* The invariant.                                                          *)
(***************************************************************************)

Types == /\ job \in {"extract", "classify"}
         /\ parser \in BOOLEAN
         /\ out \in Text
         /\ rows \in Seq(Text)
         /\ made \in Seq(Text)
         /\ Len(rows) = Len(made)

\* What is generated is always the beginning of something the grammar derives.
Begun == out = <<>> \/ \E w \in Language : IsPrefix(out, w)

ExtractInv == /\ Types
              /\ Begun
              /\ FilledRowIsWhole
              /\ BalancedIsFound
              /\ AnswerIsCategoryOrCutOff

\* What the properties say of one row and what was generated for it.
Whole(row, generated) == row # NA => row = generated /\ generated \in Objects
Found(row, generated) ==
  generated \in Objects /\ Readable(generated) /\ Balanced(generated) => row = generated
IsAnswer(row) == \E category \in Categories : IsPrefix(row, category)

LEMMA CategoriesAreText == Categories \subseteq Text
<1>1. Pieces \subseteq Char
  BY DEF Char
<1>2. ASSUME NEW category \in Categories PROVE category \in Text
  BY <1>1, <1>2, GrammarAssumption, SeqMonotonic DEF Text
<1> QED
  BY <1>2

LEMMA EmptyIsPrefix ==
  ASSUME NEW w \in Text
  PROVE  IsPrefix(<<>>, w) /\ IsPrefix(w, w)
<1>1. Len(w) \in Nat /\ SubSeq(w, 1, 0) = <<>> /\ SubSeq(<<>>, 1, 0) = <<>> /\ Len(<<>>) = 0
  BY LenProperties, SubSeqEmpty, EmptySeq DEF Text
<1> QED
  BY <1>1 DEF IsPrefix

LEMMA LanguageIsText ==
  ASSUME Types, NEW w \in Language
  PROVE  w \in Text
BY CategoriesAreText, ObjectEnclosed DEF Language, Enclosed

LEMMA NoneIsText == <<>> \in Text /\ NA \in Text
<1>1. "NA" \in Char
  BY DEF Char
<1> QED
  BY <1>1, EmptySeq, OneSeq DEF Text, NA

LEMMA Appended ==
  ASSUME NEW C, NEW s \in Seq(C), NEW c \in C, NEW n \in Nat, n = Len(s)
  PROVE  /\ Append(s, c) \in Seq(C) /\ Len(Append(s, c)) = n + 1
         /\ \A i \in 1..n : Append(s, c)[i] = s[i]
         /\ Append(s, c)[n + 1] = c
BY AppendProperties, LenProperties

\* A good row for a text keeps the invariant.
LEMMA AnsweredKeeps ==
  ASSUME ExtractInv, NEW row \in Text, NEW generated \in Text,
         Answered(row, generated),
         job = "extract" => Whole(row, generated),
         job = "extract" /\ parser => Found(row, generated),
         job = "classify" => IsAnswer(row)
  PROVE  ExtractInv'
<1>1. /\ rows' = Append(rows, row) /\ made' = Append(made, generated)
      /\ out' = <<>> /\ job' = job /\ parser' = parser
  BY DEF Answered
<1>2. PICK n \in Nat : n = Len(rows) /\ n = Len(made)
  BY LenProperties DEF ExtractInv, Types
<1>3. /\ rows' \in Seq(Text) /\ Len(rows') = n + 1 /\ DOMAIN rows' = 1..(n + 1)
      /\ made' \in Seq(Text) /\ Len(made') = n + 1
      /\ DOMAIN rows = 1..n
      /\ \A i \in 1..n : rows'[i] = rows[i] /\ made'[i] = made[i]
      /\ rows'[n + 1] = row /\ made'[n + 1] = generated
  <2>1. rows \in Seq(Text) /\ made \in Seq(Text)
    BY DEF ExtractInv, Types
  <2>0. Len(rows) = n /\ Len(made) = n
    BY <1>2
  <2> DEFINE r == Append(rows, row)
             m == Append(made, generated)
  <2>2. /\ r \in Seq(Text) /\ Len(r) = n + 1
        /\ \A i \in 1..n : r[i] = rows[i]
        /\ r[n + 1] = row
    BY <2>0, <2>1, Appended
  <2>3. /\ m \in Seq(Text) /\ Len(m) = n + 1
        /\ \A i \in 1..n : m[i] = made[i]
        /\ m[n + 1] = generated
    BY <2>0, <2>1, Appended
  <2>4. rows' = r /\ made' = m
    BY <1>1
  <2> HIDE DEF r, m
  <2>5. DOMAIN r = 1..(n + 1) /\ DOMAIN rows = 1..n
    BY <1>2, <2>1, <2>2, LenProperties
  <2> QED
    BY <2>2, <2>3, <2>4, <2>5
<1>4. \A i \in 1..(n + 1) : i \in 1..n \/ i = n + 1
  BY <1>2
<1>5. Types'
  BY <1>1, <1>3, NoneIsText DEF ExtractInv, Types
<1>6. Begun'
  BY <1>1 DEF Begun
<1>7. FilledRowIsWhole'
  <2>1. ASSUME job = "extract", NEW i \in 1..(n + 1) PROVE Whole(rows'[i], made'[i])
    <3>1. CASE i = n + 1
      BY <1>3, <2>1, <3>1
    <3>2. CASE i # n + 1
      BY <1>3, <1>4, <2>1, <3>2 DEF ExtractInv, FilledRowIsWhole, Whole
    <3> QED
      BY <3>1, <3>2
  <2> QED
    BY <1>1, <1>3, <2>1 DEF FilledRowIsWhole, Whole
<1>8. BalancedIsFound'
  <2>1. ASSUME job = "extract", parser, NEW i \in 1..(n + 1) PROVE Found(rows'[i], made'[i])
    <3>1. CASE i = n + 1
      BY <1>3, <2>1, <3>1
    <3>2. CASE i # n + 1
      BY <1>3, <1>4, <2>1, <3>2 DEF ExtractInv, BalancedIsFound, Found, Balanced
    <3> QED
      BY <3>1, <3>2
  <2> QED
    BY <1>1, <1>3, <2>1 DEF BalancedIsFound, Found, Balanced
<1>9. AnswerIsCategoryOrCutOff'
  <2>1. ASSUME job = "classify", NEW i \in 1..(n + 1) PROVE IsAnswer(rows'[i])
    <3>1. CASE i = n + 1
      BY <1>3, <2>1, <3>1
    <3>2. CASE i # n + 1
      BY <1>3, <1>4, <2>1, <3>2 DEF ExtractInv, AnswerIsCategoryOrCutOff, IsAnswer
    <3> QED
      BY <3>1, <3>2
  <2> QED
    BY <1>1, <1>3, <2>1 DEF AnswerIsCategoryOrCutOff, IsAnswer
<1> QED
  BY <1>5, <1>6, <1>7, <1>8, <1>9 DEF ExtractInv

\* One more token of what the grammar derives.
LEMMA OneMore ==
  ASSUME NEW s \in Text, NEW w \in Text, IsStrictPrefix(s, w)
  PROVE  LET t == Append(s, w[Len(s) + 1]) IN t \in Text /\ IsPrefix(t, w)
<1> DEFINE t == Append(s, w[Len(s) + 1])
<1>1. IsPrefix(s, w) /\ s # w
  BY DEF IsStrictPrefix
<1>2. PICK m \in Nat : m = Len(s) /\ m <= Len(w) /\ s = SubSeq(w, 1, m)
  BY <1>1, PrefixCut
<1>3. Len(w) \in Nat /\ SubSeq(w, 1, Len(w)) = w
  BY LenProperties, SubSeqFull DEF Text
<1>4. m + 1 \in 1..Len(w)
  BY <1>1, <1>2, <1>3
<1>5. w[m + 1] \in Char
  BY <1>4, ElementOfSeq DEF Text
<1>6. t \in Text /\ Len(t) = m + 1
  BY <1>2, <1>5, AppendProperties DEF Text
<1>7. t = SubSeq(w, 1, m + 1)
  <2> DEFINE u == SubSeq(w, 1, m + 1)
  <2>1. u \in Text /\ Len(u) = m + 1 /\ \A i \in 1..(m + 1) : u[i] = w[i]
    BY <1>2, <1>4, CutOffSame, m + 1 \in 0..Len(w)
  <2>2. \A i \in 1..m : s[i] = w[i]
    BY <1>2, <1>3, CutOffSame, m \in 0..Len(w)
  <2>3. \A i \in 1..(m + 1) : t[i] = w[i]
    <3>1. (\A i \in 1..m : t[i] = s[i]) /\ t[m + 1] = w[m + 1]
      BY <1>2, <1>5, AppendProperties DEF Text
    <3> HIDE DEF t
    <3> QED
      BY <2>2, <3>1
  <2> HIDE DEF t, u
  <2>4. t = u
    BY <1>6, <2>1, <2>3, SeqEqual DEF Text
  <2> QED
    BY <2>4 DEF u
<1> HIDE DEF t
<1>8. SubSeq(t, 1, m + 1) = t
  BY <1>6, SubSeqFull DEF Text
<1>9. IsPrefix(t, w)
  BY <1>4, <1>6, <1>7, <1>8 DEF IsPrefix
<1> QED
  BY <1>6, <1>9 DEF t

LEMMA ExtractInvHolds == Spec => []ExtractInv
<1>1. ASSUME Init PROVE ExtractInv
  <2>1. <<>> \in Seq(Text) /\ Len(<<>>) = 0 /\ DOMAIN <<>> = {}
    BY EmptySeq
  <2>2. Types /\ Begun
    BY <1>1, <2>1, NoneIsText DEF Init, Types, Begun
  <2>3. DOMAIN rows = {}
    BY <1>1, <2>1 DEF Init
  <2> QED
    BY <2>2, <2>3 DEF ExtractInv, FilledRowIsWhole, BalancedIsFound, AnswerIsCategoryOrCutOff
<1>2. ASSUME ExtractInv, [Next]_vars PROVE ExtractInv'
  <2>1. CASE Generate
    <3>1. PICK w \in Language : IsStrictPrefix(out, w) /\ out' = Append(out, w[Len(out) + 1])
      BY <2>1 DEF Generate
    <3>2. out \in Text /\ w \in Text
      BY <1>2, LanguageIsText DEF ExtractInv, Types
    <3>3. out' \in Text /\ IsPrefix(out', w)
      BY <3>1, <3>2, OneMore
    <3>4. UNCHANGED <<job, parser, rows, made>>
      BY <2>1 DEF Generate
    <3>5. Types' /\ Begun'
      BY <1>2, <3>3, <3>4 DEF ExtractInv, Types, Begun, Language
    <3> QED
      BY <1>2, <3>4, <3>5
         DEF ExtractInv, FilledRowIsWhole, BalancedIsFound, AnswerIsCategoryOrCutOff
  <2>2. CASE EndOfGeneration \/ CutOff \/ ClassificationFails \/ UNCHANGED vars
    <3>1. UNCHANGED <<job, parser, out, rows, made>>
      BY <2>2 DEF EndOfGeneration, CutOff, ClassificationFails, vars
    <3> QED
      BY <1>2, <3>1 DEF ExtractInv, Types, Begun, Language, FilledRowIsWhole,
                        BalancedIsFound, AnswerIsCategoryOrCutOff
  <2>3. CASE Parse
    <3>1. job = "extract" /\ Answered(Row(out), out) /\ out \in Text
      BY <1>2, <2>3 DEF Parse, ExtractInv, Types
    <3>2. out # <<>> => \E w \in Objects : IsPrefix(out, w)
      BY <1>2, <3>1 DEF ExtractInv, Begun, Language
    <3>3. Whole(Row(out), out)
      <4>1. CASE out = <<>>
        BY <4>1 DEF Whole, Row
      <4>2. CASE out # <<>>
        BY <3>1, <3>2, <4>2, RowIsWhole DEF Whole
      <4> QED
        BY <4>1, <4>2
    <3>4. parser => Found(Row(out), out)
      BY BalancedRow DEF Found
    <3>5. Row(out) \in Text
      BY <3>1, <3>3, NoneIsText DEF Whole
    <3> QED
      BY <1>2, <3>1, <3>3, <3>4, <3>5, AnsweredKeeps
  <2>4. CASE ExtractionFails
    <3>1. job = "extract" /\ Answered(NA, <<>>)
      BY <2>4 DEF ExtractionFails
    <3>2. <<>> \notin Objects
      BY ObjectEnclosed, EmptySeq DEF Enclosed
    <3>3. Whole(NA, <<>>) /\ Found(NA, <<>>)
      BY <3>2 DEF Whole, Found
    <3> QED
      BY <1>2, <3>1, <3>3, NoneIsText, AnsweredKeeps
  <2>5. CASE Classify
    <3>1. job = "classify" /\ Answered(out, out) /\ out \in Text
      BY <1>2, <2>5 DEF Classify, ExtractInv, Types
    <3>2. IsAnswer(out)
      <4>1. CASE out = <<>>
        <5>1. PICK category \in Categories : category \in Text
          BY GrammarAssumption, CategoriesAreText
        <5> QED
          BY <4>1, <5>1, EmptyIsPrefix DEF IsAnswer
      <4>2. CASE out # <<>>
        BY <1>2, <3>1, <4>2 DEF ExtractInv, Begun, Language, IsAnswer
      <4> QED
        BY <4>1, <4>2
    <3> QED
      BY <1>2, <3>1, <3>2, AnsweredKeeps
  <2>6. CASE FallBack
    <3>1. PICK category \in Categories : Answered(category, category)
      BY <2>6 DEF FallBack
    <3>2. job = "classify" /\ category \in Text
      BY <2>6, <3>1, CategoriesAreText DEF FallBack
    <3>3. IsAnswer(category)
      BY <3>1, <3>2, EmptyIsPrefix DEF IsAnswer
    <3> QED
      BY <1>2, <3>1, <3>2, <3>3, AnsweredKeeps
  <2> QED
    BY <1>2, <2>1, <2>2, <2>3, <2>4, <2>5, <2>6 DEF Next
<1> QED
  BY <1>1, <1>2, PTL DEF Spec

\* Rows and what was generated are texts, one of each for every text answered so far.
THEOREM ExtractionTypesCorrect == Spec => []Types
<1>1. ExtractInv => Types
  BY DEF ExtractInv
<1> QED
  BY <1>1, ExtractInvHolds, PTL

\* For every schema, every length of strings and number of texts: a row that is filled
\* in is the whole object that was generated for its text, however the output was
\* cut off and whatever its strings contain.
THEOREM RowsAreWhole == Spec => []FilledRowIsWhole
<1>1. ExtractInv => FilledRowIsWhole
  BY DEF ExtractInv
<1> QED
  BY <1>1, ExtractInvHolds, PTL

\* With jsonlite, every object is found whose strings and numbers JSON allows and the
\* braces in whose strings never close more than is open (edge_extract's loop over
\* the braces, and what the parser makes of what it cuts out).
THEOREM BalancedObjectsFound == Spec => []BalancedIsFound
<1>1. ExtractInv => BalancedIsFound
  BY DEF ExtractInv
<1> QED
  BY <1>1, ExtractInvHolds, PTL

\* An answer to a classification that is no category is the beginning of one.
THEOREM AnswersAreCategories == Spec => []AnswerIsCategoryOrCutOff
<1>1. ExtractInv => AnswerIsCategoryOrCutOff
  BY DEF ExtractInv
<1> QED
  BY <1>1, ExtractInvHolds, PTL

-----------------------------------------------------------------------------
(***************************************************************************)
(* Chats.                                                                  *)
(***************************************************************************)

InAnswer == pc \in {"answer", "failed"}

\* Whole exchanges are kept, and the question that is being answered.
WholeExchanges ==
  ~system /\ window % 2 = 0 => Len(turns) % 2 = IF InAnswer THEN 1 ELSE 0

ChatInv == ChatTypeOK /\ KeepsMostRecent /\ WholeExchanges

-----------------------------------------------------------------------------
(***************************************************************************)
(* What trimming keeps.                                                    *)
(***************************************************************************)

\* tail() keeps an end of the sequence: it drops d elements from the front.
IsEnd(r, x, d) == /\ r \in Seq(Turn)
                  /\ Len(r) = Len(x) - d
                  /\ \A i \in 1..Len(r) : r[i] = x[i + d]

LEMMA SubSeqIsEnd ==
  ASSUME NEW x \in Seq(Turn), NEW d \in 0..Len(x)
  PROVE  IsEnd(SubSeq(x, d + 1, Len(x)), x, d)
<1>1. /\ Len(x) \in Nat /\ d \in Nat /\ d <= Len(x)
      /\ \A i \in 1..(Len(x) - d) : i + d \in 1..Len(x)
  OBVIOUS
<1>2. Len(SubSeq(x, d + 1, Len(x))) = Len(x) - d
  BY <1>1
<1>3. SubSeq(x, d + 1, Len(x)) \in Seq(Turn)
  BY <1>1
<1>4. \A i \in 1..(Len(x) - d) : SubSeq(x, d + 1, Len(x))[i] = x[i + d]
  BY <1>1
<1> QED
  BY <1>2, <1>3, <1>4 DEF IsEnd

LEMMA RTailIsEnd ==
  ASSUME NEW x \in Seq(Turn), NEW n \in Int
  PROVE  /\ \E d \in 0..Len(x) : IsEnd(RTail(x, n), x, d)
         /\ n >= 0 /\ n <= Len(x) => Len(RTail(x, n)) = n
         /\ n < 0 => Len(RTail(x, n)) \in {0, Len(x) + n}
<1>1. Len(x) \in Nat
  OBVIOUS
<1>2. IsEnd(x, x, 0)
  BY <1>1 DEF IsEnd
<1>3. PICK k \in Int : k = IF n >= 0 THEN Len(x) - n ELSE -n
  BY <1>1
<1>4. RTail(x, n) = IF k <= 0 THEN x ELSE SubSeq(x, k + 1, Len(x))
  BY <1>3 DEF RTail
<1>5. CASE k <= 0
  <2>1. RTail(x, n) = x
    BY <1>3, <1>4, <1>5
  <2>2. \E d \in 0..Len(x) : IsEnd(RTail(x, n), x, d)
    BY <1>1, <1>2, <2>1
  <2> QED
    BY <1>1, <1>3, <1>5, <2>1, <2>2
<1>6. CASE k > 0 /\ k <= Len(x)
  <2>1. IsEnd(RTail(x, n), x, k) /\ k \in 0..Len(x)
    BY <1>1, <1>4, <1>6, SubSeqIsEnd
  <2>2. Len(RTail(x, n)) = Len(x) - k
    BY <2>1 DEF IsEnd
  <2> QED
    BY <1>1, <1>3, <1>6, <2>1, <2>2
<1>7. CASE k > Len(x)
  <2>1. RTail(x, n) = <<>>
    BY <1>1, <1>4, <1>7
  <2>2. IsEnd(<<>>, x, Len(x))
    BY <1>1 DEF IsEnd
  <2> QED
    BY <1>1, <1>3, <1>7, <2>1, <2>2
<1> QED
  BY <1>1, <1>3, <1>5, <1>6, <1>7

LEMMA TrimmedIsEnd ==
  ASSUME NEW x \in Seq(Turn), window \in Int, system \in BOOLEAN
  PROVE  /\ \E d \in 0..Len(x) : IsEnd(Trimmed(x), x, d)
         /\ window >= SystemMsgs
              => Len(Trimmed(x)) = IF SystemMsgs + Len(x) > window
                                   THEN window - SystemMsgs ELSE Len(x)
         /\ ~system /\ window % 2 = 0 /\ Len(x) % 2 = 0 => Len(Trimmed(x)) % 2 = 0
<1>1. SystemMsgs \in {0, 1} /\ Len(x) \in Nat /\ window - SystemMsgs \in Int
  BY DEF SystemMsgs
<1>2. CASE SystemMsgs + Len(x) <= window
  <2>1. Trimmed(x) = x
    BY <1>1, <1>2 DEF Trimmed
  <2>2. IsEnd(x, x, 0) /\ 0 \in 0..Len(x)
    BY <1>1 DEF IsEnd
  <2> QED
    BY <1>1, <1>2, <2>1, <2>2
<1>3. CASE SystemMsgs + Len(x) > window
  <2>0. PICK n \in Int : n = window - SystemMsgs
    BY <1>1
  <2>1. Trimmed(x) = RTail(x, n)
    BY <1>3, <2>0 DEF Trimmed
  <2>2. ~system => SystemMsgs = 0
    BY DEF SystemMsgs
  <2>5. /\ \E d \in 0..Len(x) : IsEnd(Trimmed(x), x, d)
        /\ n >= 0 /\ n <= Len(x) => Len(Trimmed(x)) = n
        /\ n < 0 => Len(Trimmed(x)) \in {0, Len(x) + n}
    BY <2>1, RTailIsEnd
  <2>3. window >= SystemMsgs => Len(Trimmed(x)) = window - SystemMsgs
    BY <1>1, <1>3, <2>0, <2>5
  <2>4. ASSUME ~system, window % 2 = 0, Len(x) % 2 = 0
        PROVE  Len(Trimmed(x)) % 2 = 0
    <3>1. CASE window >= 0
      BY <1>1, <2>2, <2>3, <2>4, <3>1
    <3>2. CASE window < 0
      <4>1. Len(Trimmed(x)) \in {0, Len(x) + window}
        BY <1>1, <2>0, <2>2, <2>4, <2>5, <3>2
      <4> QED
        BY <1>1, <2>4, <4>1
    <3> QED
      BY <3>1, <3>2
  <2> QED
    BY <1>1, <1>3, <2>3, <2>4, <2>5
<1> QED
  BY <1>1, <1>2, <1>3

-----------------------------------------------------------------------------
(***************************************************************************)
(* The invariant.                                                          *)
(***************************************************************************)

\* x is the end of the first n turns of the chat.
EndOf(x, n) == /\ Len(x) <= n
               /\ \A i \in 1..Len(x) : x[i] = SaidTurn(n - Len(x) + i)

LEMMA EndAppend ==
  ASSUME NEW x \in Seq(Turn), NEW n \in Nat, EndOf(x, n), SaidTurn(n + 1) \in Turn
  PROVE  EndOf(Append(x, SaidTurn(n + 1)), n + 1)
<1> DEFINE y == Append(x, SaidTurn(n + 1))
<1>1. Len(x) \in Nat /\ Len(y) = Len(x) + 1
  OBVIOUS
<1>2. ASSUME NEW i \in 1..Len(y)
      PROVE  y[i] = SaidTurn(n + 1 - Len(y) + i)
  <2>1. n + 1 - Len(y) + i = n - Len(x) + i
    BY <1>1
  <2>2. CASE i = Len(y)
    <3>1. n - Len(x) + i = n + 1
      BY <1>1, <2>2
    <3> QED
      BY <1>1, <2>1, <2>2, <3>1
  <2>3. CASE i # Len(y)
    <3>1. i \in 1..Len(x) /\ y[i] = x[i]
      BY <1>1, <2>3
    <3> QED
      BY <2>1, <3>1 DEF EndOf
  <2> QED
    BY <2>2, <2>3
<1> QED
  BY <1>1, <1>2 DEF EndOf

LEMMA EndOfEnd ==
  ASSUME NEW x \in Seq(Turn), NEW n \in Int, EndOf(x, n),
         NEW d \in 0..Len(x), NEW r, IsEnd(r, x, d)
  PROVE  EndOf(r, n)
<1>1. Len(x) \in Nat /\ Len(r) = Len(x) - d
  BY DEF IsEnd
<1>2. ASSUME NEW i \in 1..Len(r)
      PROVE  r[i] = SaidTurn(n - Len(r) + i)
  <2>1. i + d \in 1..Len(x) /\ n - Len(x) + (i + d) = n - Len(r) + i
    BY <1>1
  <2>2. r[i] = x[i + d] /\ x[i + d] = SaidTurn(n - Len(x) + (i + d))
    BY <2>1 DEF IsEnd, EndOf
  <2> QED
    BY <2>1, <2>2
<1> QED
  BY <1>1, <1>2 DEF EndOf

LEMMA SaidTurns ==
  ASSUME NEW e \in Nat
  PROVE  /\ SaidTurn(2 * e + 1) = User(e + 1) /\ User(e + 1) \in Turn
         /\ SaidTurn(2 * e) = Assistant(e) /\ Assistant(e) \in Turn
<1>1. (2 * e + 1) % 2 = 1 /\ ((2 * e + 1) + 1) \div 2 = e + 1
  OBVIOUS
<1>2. (2 * e) % 2 = 0 /\ (2 * e) \div 2 = e
  OBVIOUS
<1> QED
  BY <1>1, <1>2 DEF SaidTurn, User, Assistant, Turn

LEMMA ChatInvInit == ChatInit => ChatInv
<1> SUFFICES ASSUME ChatInit PROVE ChatInv
  OBVIOUS
<1>1. ChatTypeOK
  BY ChatAssumption DEF ChatInit, ChatTypeOK
<1>2. KeepsMostRecent
  BY DEF ChatInit, KeepsMostRecent, Said
<1>3. WholeExchanges
  BY DEF ChatInit, WholeExchanges, InAnswer
<1> QED
  BY <1>1, <1>2, <1>3 DEF ChatInv

LEMMA AskPreserves == ChatInv /\ Ask => ChatInv'
<1> SUFFICES ASSUME ChatInv, Ask PROVE ChatInv'
  OBVIOUS
<1>1. /\ turns \in Seq(Turn) /\ exchange \in Nat /\ Len(turns) \in Nat
      /\ turns' = Append(turns, User(exchange + 1))
      /\ exchange' = exchange + 1 /\ pc = "ask" /\ pc' = "answer"
      /\ system' = system /\ window' = window
  BY ChatAssumption DEF ChatInv, ChatTypeOK, Ask
<1>2. Said = 2 * exchange /\ Said' = 2 * exchange + 1
  BY <1>1 DEF Said
<1>3. User(exchange + 1) \in Turn /\ SaidTurn(2 * exchange + 1) = User(exchange + 1)
  BY <1>1, SaidTurns
<1>4. Len(turns') = Len(turns) + 1
  BY <1>1, <1>3
<1>5. ChatTypeOK'
  BY <1>1, <1>3, ChatAssumption DEF ChatInv, ChatTypeOK, Ask
<1>6. KeepsMostRecent'
  <2>1. EndOf(turns, 2 * exchange)
    BY <1>2 DEF ChatInv, KeepsMostRecent, EndOf
  <2>2. EndOf(turns', 2 * exchange + 1)
    BY <1>1, <1>3, <2>1, EndAppend
  <2> QED
    BY <1>2, <2>2 DEF KeepsMostRecent, EndOf, SaidTurn, User, Assistant
<1>7. WholeExchanges'
  BY <1>1, <1>4 DEF ChatInv, WholeExchanges, InAnswer
<1> QED
  BY <1>5, <1>6, <1>7 DEF ChatInv

LEMMA AnswerPreserves == ChatInv /\ Answer => ChatInv'
<1> SUFFICES ASSUME ChatInv, Answer PROVE ChatInv'
  OBVIOUS
<1>1. /\ turns \in Seq(Turn) /\ exchange \in Nat /\ Len(turns) \in Nat
      /\ turns' = Trimmed(Append(turns, Assistant(exchange)))
      /\ exchange' = exchange /\ pc = "answer" /\ pc' = "ask"
      /\ system' = system /\ window' = window
      /\ system \in BOOLEAN /\ window \in Int
  BY ChatAssumption DEF ChatInv, ChatTypeOK, Answer
<1>2. Said = 2 * exchange - 1 /\ Said' = 2 * exchange
  BY <1>1 DEF Said
<1>3. exchange >= 1
  BY <1>1, <1>2 DEF ChatInv, KeepsMostRecent
<1>4. Assistant(exchange) \in Turn /\ SaidTurn(2 * exchange) = Assistant(exchange)
  BY <1>1, SaidTurns
<1> DEFINE x == Append(turns, Assistant(exchange))
<1>5. x \in Seq(Turn) /\ Len(x) = Len(turns) + 1
  BY <1>1, <1>4
<1>6. PICK d \in 0..Len(x) : IsEnd(turns', x, d)
  BY <1>1, <1>5, TrimmedIsEnd
<1>7. ChatTypeOK'
  BY <1>1, <1>6 DEF ChatInv, ChatTypeOK, IsEnd
<1>8. KeepsMostRecent'
  <2>1. EndOf(turns, 2 * exchange - 1)
    BY <1>2 DEF ChatInv, KeepsMostRecent, EndOf
  <2>2. PICK n \in Nat : n = 2 * exchange - 1
    BY <1>1, <1>3
  <2>3. n + 1 = 2 * exchange
    BY <1>1, <2>2
  <2>4. EndOf(x, 2 * exchange)
    BY <1>1, <1>4, <2>1, <2>2, <2>3, EndAppend
  <2>5. EndOf(turns', n + 1)
    <3>1. EndOf(x, n + 1) /\ n + 1 \in Int
      BY <2>2, <2>3, <2>4
    <3> QED
      BY <1>5, <1>6, <3>1, EndOfEnd
  <2> QED
    BY <1>2, <2>3, <2>5 DEF KeepsMostRecent, EndOf, SaidTurn, User, Assistant
<1>9. WholeExchanges'
  <2> SUFFICES ASSUME ~system, window % 2 = 0
               PROVE  Len(turns') % 2 = 0
    BY <1>1 DEF WholeExchanges, InAnswer
  <2>1. Len(turns) % 2 = 1
    BY <1>1 DEF ChatInv, WholeExchanges, InAnswer
  <2>2. Len(x) % 2 = 0
    BY <1>1, <1>5, <2>1
  <2> QED
    BY <1>1, <1>5, <2>2, TrimmedIsEnd
<1> QED
  BY <1>7, <1>8, <1>9 DEF ChatInv

\* Leaving the chat, and doing nothing, keep what the invariant speaks of.
LEMMA ChatRestPreserves ==
  ASSUME ChatInv,
         UNCHANGED <<system, window, turns, exchange>>,
         pc' \in {"ask", "answer", "ended", "failed"},
         InAnswer' = InAnswer
  PROVE  ChatInv'
<1>1. ChatTypeOK'
  BY DEF ChatInv, ChatTypeOK
<1>2. Said' = Said
  BY DEF Said, InAnswer
<1>3. KeepsMostRecent'
  BY <1>2 DEF ChatInv, KeepsMostRecent, SaidTurn, User, Assistant
<1>4. WholeExchanges'
  BY DEF ChatInv, WholeExchanges
<1> QED
  BY <1>1, <1>3, <1>4 DEF ChatInv

LEMMA ChatInvNext == ChatInv /\ [ChatNext]_chatVars => ChatInv'
<1> SUFFICES ASSUME ChatInv, [ChatNext]_chatVars PROVE ChatInv'
  OBVIOUS
<1>1. CASE Quit
  <2>1. InAnswer' = InAnswer /\ pc' = "ended"
    BY <1>1 DEF Quit, InAnswer
  <2> QED
    BY <1>1, <2>1, ChatRestPreserves DEF Quit
<1>2. CASE Ask
  BY <1>2, AskPreserves
<1>3. CASE Answer
  BY <1>3, AnswerPreserves
<1>4. CASE Fail
  <2>1. InAnswer' = InAnswer /\ pc' = "failed"
    BY <1>4 DEF Fail, InAnswer
  <2> QED
    BY <1>4, <2>1, ChatRestPreserves DEF Fail
<1>5. CASE UNCHANGED chatVars
  <2>1. InAnswer' = InAnswer /\ pc' \in {"ask", "answer", "ended", "failed"}
    BY <1>5 DEF chatVars, InAnswer, ChatInv, ChatTypeOK
  <2> QED
    BY <1>5, <2>1, ChatRestPreserves DEF chatVars
<1> QED
  BY <1>1, <1>2, <1>3, <1>4, <1>5 DEF ChatNext

LEMMA ChatInvariance == ChatSpec => []ChatInv
BY ChatInvInit, ChatInvNext, PTL DEF ChatSpec

-----------------------------------------------------------------------------
(***************************************************************************)
(* The theorems.                                                           *)
(***************************************************************************)

\* The types of the history and of the arguments of the chat (edge_chat_stream).
THEOREM ChatTypeCorrect == ChatSpec => []ChatTypeOK
<1>1. ChatInv => ChatTypeOK
  BY DEF ChatInv
<1> QED
  BY <1>1, ChatInvariance, PTL

\* What the chat sends is the end of what was said, without a gap, after any number
\* of trims (the trim of conversation_history in edge_chat_stream).
THEOREM MostRecentKept == ChatSpec => []KeepsMostRecent
<1>1. ChatInv => KeepsMostRecent
  BY DEF ChatInv
<1> QED
  BY <1>1, ChatInvariance, PTL

\* Without a system prompt the model is never shown an answer without its question
\* (the trim of conversation_history in edge_chat_stream).
THEOREM QuestionComesFirst == ChatSpec => []BeginsWithQuestion
<1>1. ChatInv => BeginsWithQuestion
  <2> SUFFICES ASSUME ChatInv, ~system, window % 2 = 0, turns # <<>>
               PROVE  turns[1].role = "user"
    BY DEF BeginsWithQuestion
  <2>1. turns \in Seq(Turn) /\ exchange \in Nat /\ Len(turns) \in Nat /\ Len(turns) >= 1
    BY ChatAssumption DEF ChatInv, ChatTypeOK
  <2>2. Len(turns) <= Said /\ Said \in Int
    BY <2>1 DEF ChatInv, KeepsMostRecent, Said
  <2>3. turns[1] = SaidTurn(Said - Len(turns) + 1)
    BY <2>1 DEF ChatInv, KeepsMostRecent
  <2>4. (Said - Len(turns) + 1) % 2 = 1
    <3>1. CASE InAnswer
      BY <2>1, <3>1 DEF ChatInv, WholeExchanges, InAnswer, Said
    <3>2. CASE ~InAnswer
      BY <2>1, <3>2 DEF ChatInv, WholeExchanges, InAnswer, Said
    <3> QED
      BY <3>1, <3>2
  <2> QED
    BY <2>3, <2>4 DEF SaidTurn, User
<1> QED
  BY <1>1, ChatInvariance, PTL

LEMMA BoundedNext == ChatTypeOK /\ HistoryBounded /\ [ChatNext]_chatVars => HistoryBounded'
<1> SUFFICES ASSUME ChatTypeOK, HistoryBounded, [ChatNext]_chatVars PROVE HistoryBounded'
  OBVIOUS
<1>1. /\ turns \in Seq(Turn) /\ exchange \in Nat /\ Len(turns) \in Nat
      /\ system \in BOOLEAN /\ window \in Int /\ SystemMsgs \in {0, 1}
  BY ChatAssumption DEF ChatTypeOK, SystemMsgs
<1>2. CASE Quit
  BY <1>2 DEF Quit, HistoryBounded, SystemMsgs, Said
<1>3. CASE Ask
  <2>1. User(exchange + 1) \in Turn
    BY <1>1 DEF User, Turn
  <2>2. /\ Len(turns') = Len(turns) + 1 /\ SystemMsgs' = SystemMsgs
        /\ Said' = Said + 1 /\ Said = 2 * exchange
    BY <1>1, <1>3, <2>1 DEF Ask, SystemMsgs, Said
  <2> QED
    BY <1>1, <1>3, <2>2 DEF Ask, HistoryBounded
<1>4. CASE Answer
  <2>0. Assistant(exchange) \in Turn
    BY <1>1 DEF Assistant, Turn
  <2>1. PICK x \in Seq(Turn) : x = Append(turns, Assistant(exchange))
    <3>1. Append(turns, Assistant(exchange)) \in Seq(Turn)
      BY <1>1, <2>0
    <3> QED
      BY <3>1, Zenon
  <2>2. Len(x) = Len(turns) + 1
    BY <1>1, <2>1
  <2>3. /\ turns' = Trimmed(x) /\ window' = window
        /\ SystemMsgs' = SystemMsgs /\ Said = 2 * exchange - 1 /\ Said' = Said + 1
    BY <1>1, <1>4, <2>1 DEF Answer, SystemMsgs, Said
  <2>4. window >= SystemMsgs
          => Len(turns') = IF SystemMsgs + Len(x) > window
                           THEN window - SystemMsgs ELSE Len(x)
    BY <1>1, <2>3, TrimmedIsEnd
  <2> QED
    BY <1>1, <1>4, <2>2, <2>3, <2>4 DEF Answer, HistoryBounded
<1>5. CASE Fail
  BY <1>5 DEF Fail, HistoryBounded, SystemMsgs, Said
<1>6. CASE UNCHANGED chatVars
  BY <1>6 DEF chatVars, HistoryBounded, SystemMsgs, Said
<1> QED
  BY <1>2, <1>3, <1>4, <1>5, <1>6 DEF ChatNext

\* The history never outgrows max_history, and is never shorter than it need be
\* (the trim of conversation_history in edge_chat_stream).
THEOREM HistoryStaysBounded == ChatSpec => []HistoryBounded
<1>1. ChatInit => HistoryBounded
  BY ChatAssumption DEF ChatInit, HistoryBounded, SystemMsgs, Said
<1> QED
  BY <1>1, BoundedNext, ChatTypeCorrect, PTL DEF ChatSpec

=============================================================================
