----------------------------- MODULE AliasProofs -----------------------------
(***************************************************************************)
(* Proofs about Alias, for words and aliases of any length.  What an       *)
(* operator computes for every sequence is shown by induction on the set   *)
(* of the sequences for which it does: SetInduction and SeqInduction,      *)
(* which follow from the well-foundedness of < on the natural numbers.     *)
(***************************************************************************)
EXTENDS Alias, SequenceTheorems, WellFoundedInduction, TLAPS

-----------------------------------------------------------------------------
(* Induction *)

\* A nonempty set of natural numbers has a least element.
LEMMA LeastNat ==
  ASSUME NEW T \in SUBSET Nat, T # {}
  PROVE \E x \in T : \A y \in T : ~(y < x)
<1>1. IsWellFoundedOn(OpToRel(<, Nat), Nat)
  BY NatLessThanWellFounded
<1>2. PICK x \in T : \A y \in T : ~ (<<y, x>> \in OpToRel(<, Nat))
  BY <1>1, WFMin
<1>3. \A y \in T : y < x => <<y, x>> \in OpToRel(<, Nat)
  BY DEF OpToRel
<1>4. QED
  BY <1>2, <1>3

\* Induction: a set with 0 that is closed under successor is Nat.
LEMMA SetInduction ==
  ASSUME NEW T \in SUBSET Nat, 0 \in T, \A n \in T : n + 1 \in T
  PROVE  T = Nat
<1> SUFFICES ASSUME Nat \ T # {} PROVE FALSE
  OBVIOUS
<1>1. PICK x \in Nat \ T : \A y \in Nat \ T : ~(y < x)
  BY LeastNat
<1>2. x - 1 \in T /\ (x - 1) + 1 = x
  BY <1>1
<1>3. QED
  BY <1>1, <1>2

\* f is what FlattenSeq computes for the first n elements of s.
FlatEq(f, n, s) == f = [i \in 1 .. n |-> IF i = 1 THEN s[i] ELSE f[i - 1] \o s[i]]

\* The recursive function of FlattenSeq exists,
LEMMA FlatExists ==
  ASSUME NEW s, NEW n \in Nat PROVE \E f : FlatEq(f, n, s)
<1> DEFINE T == {k \in Nat : \E f : FlatEq(f, k, s)}
<1>1. 0 \in T
  <2>1. FlatEq([i \in {} |-> s], 0, s)
    BY DEF FlatEq
  <2>2. QED
    BY <2>1
<1>2. ASSUME NEW k \in T PROVE k + 1 \in T
  <2>1. PICK f : FlatEq(f, k, s)
    OBVIOUS
  <2> DEFINE g == [i \in 1 .. k + 1 |-> IF i = 1 THEN s[i] ELSE f[i - 1] \o s[i]]
  <2>2. \A i \in 1 .. k : g[i] = f[i]
    <3>1. \A i \in 1 .. k : f[i] = IF i = 1 THEN s[i] ELSE f[i - 1] \o s[i]
      BY <2>1 DEF FlatEq
    <3>2. \A i \in 1 .. k : i \in 1 .. k + 1
      OBVIOUS
    <3>3. QED
      BY <3>1, <3>2
  <2>3. \A i \in 1 .. k + 1 : i # 1 => g[i - 1] = f[i - 1]
    <3>1. \A i \in 1 .. k + 1 : i # 1 => i - 1 \in 1 .. k
      OBVIOUS
    <3>2. QED
      BY <2>2, <3>1
  <2>4. g = [i \in 1 .. k + 1 |-> IF i = 1 THEN s[i] ELSE g[i - 1] \o s[i]]
    BY <2>3
  <2>5. FlatEq(g, k + 1, s)
    BY <2>4 DEF FlatEq
  <2>6. QED
    BY <2>5
<1>3. T = Nat
  BY <1>1, <1>2, SetInduction
<1>4. QED
  BY <1>3

\* s and t start with the same n elements.
Agree(s, t, n) == \A i \in 1 .. n : s[i] = t[i]

\* and depends on nothing but the elements it has used.
LEMMA FlatUnique ==
  ASSUME NEW s, NEW t, NEW n \in Nat, NEW m \in Nat, n <= m,
         Agree(s, t, n),
         NEW f, FlatEq(f, n, s), NEW g, FlatEq(g, m, t), n # 0
  PROVE  f[n] = g[n]
<1> DEFINE T == {k \in Nat : k + 1 \in 1 .. n => f[k + 1] = g[k + 1]}
<1>0. /\ \A i \in 1 .. n : f[i] = IF i = 1 THEN s[i] ELSE f[i - 1] \o s[i]
      /\ \A i \in 1 .. m : g[i] = IF i = 1 THEN t[i] ELSE g[i - 1] \o t[i]
      /\ \A i \in 1 .. n : s[i] = t[i]
  BY DEF FlatEq, Agree
<1>1. 0 \in T
  BY <1>0
<1>2. ASSUME NEW k \in T PROVE k + 1 \in T
  BY <1>0
<1>3. T = Nat
  BY <1>1, <1>2, SetInduction
<1>4. \A i \in 1 .. n : f[i] = g[i]
  <2> SUFFICES ASSUME NEW i \in 1 .. n PROVE f[i] = g[i]
    OBVIOUS
  <2> HIDE DEF T
  <2>1. i - 1 \in T /\ (i - 1) + 1 = i
    BY <1>3
  <2>2. QED
    BY <2>1 DEF T
<1>5. QED
  BY <1>4

\* The first n elements of s, concatenated.
Flat(s, n) == (CHOOSE f : FlatEq(f, n, s))[n]

\* Flat looks at n elements only;
LEMMA FlatLocal ==
  ASSUME NEW s, NEW t, NEW n \in Nat, n # 0, Agree(s, t, n)
  PROVE  Flat(s, n) = Flat(t, n)
<1>1. FlatEq(CHOOSE f : FlatEq(f, n, s), n, s) /\ FlatEq(CHOOSE f : FlatEq(f, n, t), n, t)
  BY FlatExists
<1>2. QED
  BY <1>1, FlatUnique DEF Flat

\* one element is itself,
LEMMA FlatOne ==
  ASSUME NEW s PROVE Flat(s, 1) = s[1]
<1>1. FlatEq(CHOOSE f : FlatEq(f, 1, s), 1, s)
  BY FlatExists
<1>2. QED
  BY <1>1 DEF Flat, FlatEq

\* and each further one goes to the end.
LEMMA FlatNext ==
  ASSUME NEW s, NEW n \in Nat, n # 0, NEW m \in Nat, m = n + 1
  PROVE  Flat(s, m) = Flat(s, n) \o s[m]
<1> DEFINE f == CHOOSE h : FlatEq(h, n, s)
           g == CHOOSE h : FlatEq(h, m, s)
<1>1. FlatEq(f, n, s) /\ FlatEq(g, m, s)
  BY FlatExists
<1>2. Flat(s, n) = f[n] /\ Flat(s, m) = g[m]
  BY DEF Flat
<1> HIDE DEF f, g
<1>3. n <= m /\ m \in 1 .. m /\ m # 1 /\ m - 1 = n /\ Agree(s, s, n)
  BY DEF Agree
<1>4. f[n] = g[n]
  BY <1>1, <1>3, FlatUnique
<1>5. \A i \in 1 .. m : g[i] = IF i = 1 THEN s[i] ELSE g[i - 1] \o s[i]
  BY <1>1 DEF FlatEq
<1>6. QED
  BY <1>2, <1>3, <1>4, <1>5

\* FlattenSeq is Flat of the whole sequence.
LEMMA FlatIsFlat ==
  ASSUME NEW S, NEW s \in Seq(S), s # <<>>
  PROVE  FlattenSeq(s) = Flat(s, Len(s))
  BY DEF FlattenSeq, Flat, FlatEq

\* Flattening nothing,
LEMMA FlattenEmpty == FlattenSeq(<<>>) = <<>>
  BY DEF FlattenSeq

\* and flattening one element more.
LEMMA FlattenAppend ==
  ASSUME NEW S, NEW s \in Seq(Seq(S)), NEW x \in Seq(S)
  PROVE  FlattenSeq(Append(s, x)) = FlattenSeq(s) \o x
<1>0. PICK t \in Seq(Seq(S)) : t = Append(s, x)
  BY AppendProperties
<1>1. t # <<>> /\ Len(t) = Len(s) + 1 /\ t[Len(s) + 1] = x /\ Agree(s, t, Len(s))
  BY <1>0, AppendProperties DEF Agree
<1>2. FlattenSeq(t) = Flat(t, Len(t))
  BY <1>1, FlatIsFlat
<1>3. CASE s = <<>>
  BY <1>0, <1>1, <1>2, <1>3, FlattenEmpty, FlatOne
<1>4. CASE s # <<>>
  <2>1. Len(s) \in Nat /\ Len(s) # 0
    BY <1>4
  <2>2. FlattenSeq(s) = Flat(s, Len(s))
    BY <1>4, FlatIsFlat
  <2>3. Flat(s, Len(s)) = Flat(t, Len(s))
    BY <1>1, <2>1, FlatLocal
  <2>4. Flat(t, Len(t)) = Flat(t, Len(s)) \o x
    <3>1. PICK n \in Nat, m \in Nat : n = Len(s) /\ m = Len(t) /\ n # 0 /\ m = n + 1 /\ t[m] = x
      BY <1>1, <2>1
    <3>2. Flat(t, m) = Flat(t, n) \o t[m]
      BY <3>1, FlatNext
    <3>3. QED
      BY <3>1, <3>2
  <2>5. QED
    BY <1>0, <1>1, <1>2, <2>2, <2>3, <2>4
<1>5. QED
  BY <1>3, <1>4

\* Induction: a set of sequences over S with <<>> that is closed under Append
\* is Seq(S).
LEMMA SeqInduction ==
  ASSUME NEW S, NEW T \in SUBSET Seq(S), <<>> \in T, \A t \in T, x \in S : Append(t, x) \in T
  PROVE  T = Seq(S)
<1> DEFINE N == {n \in Nat : \A s \in Seq(S) : Len(s) = n => s \in T}
<1>1. 0 \in N
  OBVIOUS
<1>2. ASSUME NEW n \in N PROVE n + 1 \in N
  <2> SUFFICES ASSUME NEW s \in Seq(S), Len(s) = n + 1 PROVE s \in T
    OBVIOUS
  <2>0. s # <<>>
    BY EmptySeq
  <2>1. PICK t \in Seq(S), x \in S : s = Append(t, x)
    BY <2>0, SequenceEmptyOrAppend
  <2>2. Len(t) = n
    BY <2>1, AppendProperties
  <2>3. QED
    BY <2>1, <2>2
<1> HIDE DEF N
<1>3. N = Nat
  <2>1. N \in SUBSET Nat
    BY DEF N
  <2>2. QED
    BY <1>1, <1>2, <2>1, SetInduction
<1>4. ASSUME NEW s \in Seq(S) PROVE s \in T
  <2>1. Len(s) \in N
    BY <1>3
  <2>2. QED
    BY <2>1 DEF N
<1>5. QED
  BY <1>4

\* Sequences over S, flattened, are a sequence over S.
LEMMA FlattenType ==
  ASSUME NEW S, NEW s \in Seq(Seq(S))
  PROVE  FlattenSeq(s) \in Seq(S)
<1> DEFINE T == {t \in Seq(Seq(S)) : FlattenSeq(t) \in Seq(S)}
<1>1. <<>> \in T
  <2>1. FlattenSeq(<<>>) \in Seq(S)
    BY FlattenEmpty, EmptySeq
  <2>2. QED
    BY <2>1, EmptySeq
<1>2. ASSUME NEW t \in T, NEW x \in Seq(S) PROVE Append(t, x) \in T
  <2>1. FlattenSeq(Append(t, x)) = FlattenSeq(t) \o x
    BY FlattenAppend
  <2>2. FlattenSeq(t) \o x \in Seq(S)
    BY ConcatProperties
  <2>3. Append(t, x) \in Seq(Seq(S))
    BY AppendProperties
  <2>4. QED
    BY <2>1, <2>2, <2>3
<1>3. T = Seq(Seq(S))
  <2> HIDE DEF T
  <2>1. T \in SUBSET Seq(Seq(S))
    BY DEF T
  <2>2. QED
    BY <1>1, <1>2, <2>1, SeqInduction
<1>4. QED
  BY <1>3

-----------------------------------------------------------------------------
(* Concatenation, as the lemmas below use it. *)

\* Append to the second half is append to the whole.
LEMMA ConcatAppend ==
  ASSUME NEW S, NEW s \in Seq(S), NEW t \in Seq(S), NEW x \in S
  PROVE  s \o Append(t, x) = Append(s \o t, x)
<1>1. <<x>> \in Seq(S) /\ s \o t \in Seq(S)
  BY ConcatProperties
<1>2. (s \o t) \o <<x>> = s \o (t \o <<x>>)
  BY <1>1, ConcatAssociative
<1>3. Append(t, x) = t \o <<x>> /\ Append(s \o t, x) = (s \o t) \o <<x>>
  BY <1>1, AppendIsConcat
<1>4. QED
  BY <1>2, <1>3

\* The elements of a sequence with one more.
LEMMA ElementsOfAppend ==
  ASSUME NEW S, NEW s \in Seq(S), NEW x \in S
  PROVE  ToSet(Append(s, x)) = ToSet(s) \union {x}
<1>0. PICK t \in Seq(S) : t = Append(s, x)
  BY AppendProperties
<1>1. PICK n \in Nat, m \in Nat :
        /\ n = Len(s) /\ m = Len(t) /\ m = n + 1 /\ t[m] = x
        /\ \A i \in 1 .. n : t[i] = s[i]
  BY <1>0, AppendProperties
<1>2. ToSet(s) = {s[i] : i \in 1 .. n} /\ ToSet(t) = {t[i] : i \in 1 .. m}
  BY <1>1, LenProperties DEF ToSet
<1>3. \A i \in 1 .. m : i = m \/ i \in 1 .. n
  BY <1>1
<1>4. \A i \in 1 .. n : i \in 1 .. m
  BY <1>1
<1>5. m \in 1 .. m
  BY <1>1
<1>6. {t[i] : i \in 1 .. m} = {s[i] : i \in 1 .. n} \union {x}
  BY <1>1, <1>3, <1>4, <1>5
<1>7. QED
  BY <1>0, <1>2, <1>6

\* Associativity, with a name: cited as such it starts no chain of instances.
Assoc(s, t, u) == (s \o t) \o u = s \o (t \o u)

\* Concatenation is associative.
LEMMA Associative ==
  ASSUME NEW S, NEW s \in Seq(S), NEW t \in Seq(S), NEW u \in Seq(S)
  PROVE  Assoc(s, t, u)
  BY ConcatAssociative DEF Assoc

\* k is m, of length n, with y appended.
Extended(k, m, n, y) ==
    k = [i \in 1 .. n + 1 |-> k[i]] /\ (\A i \in 1 .. n : k[i] = m[i]) /\ k[n + 1] = y

\* A function that extends m by y is m with y appended,
LEMMA ExtendedIsAppend ==
  ASSUME NEW S, NEW m \in Seq(S), NEW y \in S, NEW n \in Nat, n = Len(m),
         NEW k, Extended(k, m, n, y)
  PROVE  k = Append(m, y)
<1> USE DEF Extended
<1>1. k \in Seq(S) /\ Len(k) = n + 1
  <2>1. \A i \in 1 .. n + 1 : k[i] \in S
    <3>1. \A i \in 1 .. n : m[i] \in S
      BY ElementOfSeq
    <3>2. \A i \in 1 .. n + 1 : i \in 1 .. n \/ i = n + 1
      OBVIOUS
    <3>3. QED
      BY <3>1, <3>2
  <2>2. QED
    BY <2>1, SeqDef
<1>2. PICK t \in Seq(S) : t = Append(m, y)
  BY AppendProperties
<1>3. Len(t) = n + 1 /\ (\A i \in 1 .. n : t[i] = m[i]) /\ t[n + 1] = y
  BY <1>2, AppendProperties
<1>4. \A i \in 1 .. Len(k) : k[i] = t[i]
  <2>1. \A i \in 1 .. n + 1 : i \in 1 .. n \/ i = n + 1
    OBVIOUS
  <2>2. QED
    BY <1>1, <1>3, <2>1
<1>5. QED
  BY <1>1, <1>2, <1>3, <1>4, SeqEqual

\* and flattens to what m flattens to, with y at the end.
LEMMA FlattenExtended ==
  ASSUME NEW S, NEW m \in Seq(Seq(S)), NEW y \in Seq(S), NEW n \in Nat, n = Len(m),
         NEW k, Extended(k, m, n, y)
  PROVE  FlattenSeq(k) = FlattenSeq(m) \o y
<1>1. k = Append(m, y)
  BY ExtendedIsAppend
<1>2. QED
  BY <1>1, FlattenAppend

\* t is s, of length n, with x at the end: position by position.
Longer(S, s, x, n, t) ==
    /\ t = Append(s, x) /\ n = Len(s)
    /\ DOMAIN s = 1 .. n /\ DOMAIN t = 1 .. n + 1
    /\ \A i \in 1 .. n : t[i] = s[i] /\ s[i] \in S
    /\ t[n + 1] = x

\* Append(s, x) is such a t.
LEMMA Positions ==
  ASSUME NEW S, NEW s \in Seq(S), NEW x \in S
  PROVE  \E n \in Nat, t \in Seq(S) : Longer(S, s, x, n, t)
<1>1. PICK n \in Nat, t \in Seq(S) : n = Len(s) /\ t = Append(s, x)
  BY LenProperties, AppendProperties
<1>2. QED
  BY <1>1, AppendProperties, LenProperties, ElementOfSeq DEF Longer

\* Strip (resolve.go:128): on the empty line,
LEMMA StripEmpty == Strip(<<>>) = <<>>
  BY FlattenEmpty, EmptySeq DEF Strip

\* and on one symbol more, which stays unless it is an escape sequence.
LEMMA StripAppend ==
  ASSUME NEW S, NEW s \in Seq(S), NEW x \in S
  PROVE  Strip(Append(s, x)) = Strip(s) \o (IF x = CSI THEN <<>> ELSE <<x>>)
<1>1. PICK n \in Nat, t \in Seq(S) : Longer(S, s, x, n, t)
  BY Positions
<1> DEFINE m == [i \in DOMAIN s |-> IF s[i] = CSI THEN <<>> ELSE <<s[i]>>]
           k == [i \in DOMAIN t |-> IF t[i] = CSI THEN <<>> ELSE <<t[i]>>]
           y == IF x = CSI THEN <<>> ELSE <<x>>
<1>2. y \in Seq(S) /\ \A i \in 1 .. n : m[i] \in Seq(S)
  BY <1>1, EmptySeq DEF Longer
<1>3. m \in Seq(Seq(S)) /\ Len(m) = n
  BY <1>1, <1>2, SeqDef DEF Longer
<1>4. Extended(k, m, n, y)
  BY <1>1 DEF Extended, Longer
<1>5. Strip(s) = FlattenSeq(m) /\ Strip(t) = FlattenSeq(k)
  BY DEF Strip
<1> HIDE DEF m, k, y
<1>6. FlattenSeq(k) = FlattenSeq(m) \o y
  BY <1>2, <1>3, <1>4, FlattenExtended
<1>7. QED
  BY <1>1, <1>5, <1>6 DEF y, Longer

\* Escape, the shell's: on the empty text,
LEMMA EscapeEmpty == Escape(<<>>) = <<>>
  BY FlattenEmpty, EmptySeq DEF Escape

\* and on one symbol more that is no quote.
LEMMA EscapeAppend ==
  ASSUME NEW s \in Seq(Symbols), NEW x \in Symbols, x # SQ
  PROVE  Escape(Append(s, x)) = Escape(s) \o <<x>>
<1> DEFINE S == Symbols
<1>0. SQ \in S /\ Backslash \in S
  BY DEF Symbols, SQ, Backslash
<1> HIDE DEF S
<1>1. PICK n \in Nat, t \in Seq(S) : Longer(S, s, x, n, t)
  BY Positions DEF S
<1> DEFINE m == [i \in DOMAIN s |->
                     IF s[i] = SQ THEN <<SQ, Backslash, SQ, SQ>> ELSE <<s[i]>>]
           k == [i \in DOMAIN t |->
                     IF t[i] = SQ THEN <<SQ, Backslash, SQ, SQ>> ELSE <<t[i]>>]
<1>2. <<x>> \in Seq(S) /\ \A i \in 1 .. n : m[i] \in Seq(S)
  BY <1>0, <1>1 DEF S, Longer
<1>3. m \in Seq(Seq(S)) /\ Len(m) = n
  BY <1>1, <1>2, SeqDef DEF Longer
<1>4. Extended(k, m, n, <<x>>)
  BY <1>1 DEF Extended, Longer
<1>5. Escape(s) = FlattenSeq(m) /\ Escape(t) = FlattenSeq(k)
  BY DEF Escape
<1> HIDE DEF m, k
<1>6. FlattenSeq(k) = FlattenSeq(m) \o <<x>>
  BY <1>2, <1>3, <1>4, FlattenExtended
<1>7. QED
  BY <1>1, <1>5, <1>6 DEF Longer

\* A piece and its text are symbols.
LEMMA PieceType ==
  ASSUME NEW p \in Pieces
  PROVE  p.text \in Seq(Symbols) /\ WrittenPiece(p) \in Seq(Symbols)
<1>1. p.text \in Seq(Symbols) /\ p.quote \in {"none", SQ, DQ}
  BY AliasAssumption
<1>2. p.quote # "none" => <<p.quote>> \in Seq(Symbols)
  <2>1. p.quote # "none" => p.quote \in Symbols
    BY <1>1 DEF Symbols
  <2>2. QED
    BY <2>1
<1>3. p.quote # "none" => <<p.quote>> \o p.text \o <<p.quote>> \in Seq(Symbols)
  BY <1>1, <1>2, ConcatProperties
<1>4. QED
  BY <1>1, <1>3 DEF WrittenPiece

\* Meaning, symbol for symbol: on no piece,
LEMMA MeaningEmpty == Meaning(<<>>) = <<>>
  BY FlattenEmpty, EmptySeq DEF Meaning

\* and on one piece more.
LEMMA MeaningAppend ==
  ASSUME NEW s \in Seq(Pieces), NEW x \in Pieces
  PROVE  Meaning(Append(s, x)) = Meaning(s) \o x.text
<1>1. PICK n \in Nat, t \in Seq(Pieces) : Longer(Pieces, s, x, n, t)
  BY Positions
<1> DEFINE m == [i \in DOMAIN s |-> s[i].text]
           k == [i \in DOMAIN t |-> t[i].text]
           y == x.text
<1>2. y \in Seq(Symbols) /\ \A i \in 1 .. n : m[i] \in Seq(Symbols)
  BY <1>1, PieceType DEF Longer
<1>3. m \in Seq(Seq(Symbols)) /\ Len(m) = n
  BY <1>1, <1>2, SeqDef DEF Longer
<1>4. Extended(k, m, n, y)
  BY <1>1 DEF Extended, Longer
<1>5. Meaning(s) = FlattenSeq(m) /\ Meaning(t) = FlattenSeq(k)
  BY DEF Meaning
<1> HIDE DEF m, k, y
<1>6. FlattenSeq(k) = FlattenSeq(m) \o y
  BY <1>2, <1>3, <1>4, FlattenExtended
<1>7. QED
  BY <1>1, <1>5, <1>6 DEF y, Longer

\* Written: on no piece,
LEMMA WrittenEmpty == Written(<<>>) = <<>>
  BY FlattenEmpty, EmptySeq DEF Written

\* and on one piece more.
LEMMA WrittenAppend ==
  ASSUME NEW s \in Seq(Pieces), NEW x \in Pieces
  PROVE  Written(Append(s, x)) = Written(s) \o WrittenPiece(x)
<1>1. PICK n \in Nat, t \in Seq(Pieces) : Longer(Pieces, s, x, n, t)
  BY Positions
<1> DEFINE m == [i \in DOMAIN s |-> WrittenPiece(s[i])]
           k == [i \in DOMAIN t |-> WrittenPiece(t[i])]
           y == WrittenPiece(x)
<1>2. y \in Seq(Symbols) /\ \A i \in 1 .. n : m[i] \in Seq(Symbols)
  BY <1>1, PieceType DEF Longer
<1>3. m \in Seq(Seq(Symbols)) /\ Len(m) = n
  BY <1>1, <1>2, SeqDef DEF Longer
<1>4. Extended(k, m, n, y)
  BY <1>1 DEF Extended, Longer
<1>5. Written(s) = FlattenSeq(m) /\ Written(t) = FlattenSeq(k)
  BY DEF Written
<1> HIDE DEF m, k, y
<1>6. FlattenSeq(k) = FlattenSeq(m) \o y
  BY <1>2, <1>3, <1>4, FlattenExtended
<1>7. QED
  BY <1>1, <1>5, <1>6 DEF y, Longer

\* A word, written or meant, is symbols.
LEMMA WrittenType ==
  ASSUME NEW w \in Seq(Pieces)
  PROVE  Written(w) \in Seq(Symbols) /\ Meaning(w) \in Seq(Symbols)
<1>1. DOMAIN w = 1 .. Len(w) /\ Len(w) \in Nat /\ \A i \in 1 .. Len(w) : w[i] \in Pieces
  BY LenProperties, ElementOfSeq
<1>2. [i \in DOMAIN w |-> WrittenPiece(w[i])] \in Seq(Seq(Symbols))
  BY <1>1, PieceType, SeqDef
<1>3. [i \in DOMAIN w |-> w[i].text] \in Seq(Seq(Symbols))
  BY <1>1, PieceType, SeqDef
<1>4. QED
  BY <1>2, <1>3, FlattenType DEF Written, Meaning

\* Strip changes nothing where there is no escape sequence;
LEMMA StripKeeps ==
  ASSUME NEW S, NEW s \in Seq(S), CSI \notin ToSet(s)
  PROVE  Strip(s) = s
<1> DEFINE T == {u \in Seq(S) : CSI \notin ToSet(u) => Strip(u) = u}
<1>1. <<>> \in T
  BY StripEmpty, EmptySeq
<1>2. ASSUME NEW u \in T, NEW x \in S PROVE Append(u, x) \in T
  <2>1. ToSet(Append(u, x)) = ToSet(u) \union {x}
    BY ElementsOfAppend
  <2>2. Strip(Append(u, x)) = Strip(u) \o (IF x = CSI THEN <<>> ELSE <<x>>)
    BY StripAppend
  <2>3. Append(u, x) = u \o <<x>> /\ Append(u, x) \in Seq(S)
    BY AppendIsConcat, AppendProperties
  <2>4. QED
    BY <2>1, <2>2, <2>3
<1> HIDE DEF T
<1>3. T = Seq(S)
  <2>1. T \in SUBSET Seq(S)
    BY DEF T
  <2>2. QED
    BY <1>1, <1>2, <2>1, SeqInduction
<1>4. s \in T
  BY <1>3
<1>5. QED
  BY <1>4 DEF T

\* Escape nothing where there is no quote.
LEMMA EscapeKeeps ==
  ASSUME NEW s \in Seq(Symbols), SQ \notin ToSet(s)
  PROVE  Escape(s) = s
<1> DEFINE T == {u \in Seq(Symbols) : SQ \notin ToSet(u) => Escape(u) = u}
<1>1. <<>> \in T
  BY EscapeEmpty, EmptySeq
<1>2. ASSUME NEW u \in T, NEW x \in Symbols PROVE Append(u, x) \in T
  <2>1. ToSet(Append(u, x)) = ToSet(u) \union {x}
    BY ElementsOfAppend
  <2>2. x # SQ => Escape(Append(u, x)) = Escape(u) \o <<x>>
    BY EscapeAppend
  <2>3. Append(u, x) = u \o <<x>> /\ Append(u, x) \in Seq(Symbols)
    BY AppendIsConcat, AppendProperties
  <2>4. QED
    BY <2>1, <2>2, <2>3
<1> HIDE DEF T
<1>3. T = Seq(Symbols)
  <2>1. T \in SUBSET Seq(Symbols)
    BY DEF T
  <2>2. QED
    BY <1>1, <1>2, <2>1, SeqInduction
<1>4. s \in T
  BY <1>3
<1>5. QED
  BY <1>4 DEF T

\* Strip returns text over the symbols of its argument;
LEMMA StripType ==
  ASSUME NEW S, NEW s \in Seq(S)
  PROVE  Strip(s) \in Seq(S)
<1>1. DOMAIN s = 1 .. Len(s) /\ Len(s) \in Nat /\ \A i \in 1 .. Len(s) : s[i] \in S
  BY LenProperties, ElementOfSeq
<1>2. \A i \in 1 .. Len(s) : (IF s[i] = CSI THEN <<>> ELSE <<s[i]>>) \in Seq(S)
  BY <1>1, EmptySeq
<1>3. [i \in DOMAIN s |-> IF s[i] = CSI THEN <<>> ELSE <<s[i]>>] \in Seq(Seq(S))
  BY <1>1, <1>2, SeqDef
<1>4. QED
  BY <1>3, FlattenType DEF Strip

\* and for a concatenation the two halves, stripped.
LEMMA StripConcat ==
  ASSUME NEW S, NEW s \in Seq(S), NEW u \in Seq(S)
  PROVE  Strip(s \o u) = Strip(s) \o Strip(u)
<1> DEFINE T == {v \in Seq(S) : Strip(s \o v) = Strip(s) \o Strip(v)}
<1>0. Strip(s) \in Seq(S)
  BY StripType
<1>1. <<>> \in T
  BY <1>0, StripEmpty, EmptySeq, ConcatEmptySeq
<1>2. ASSUME NEW v \in T, NEW x \in S PROVE Append(v, x) \in T
  <2>0. v \in Seq(S) /\ Strip(s \o v) = Strip(s) \o Strip(v)
    OBVIOUS
  <2> HIDE DEF T
  <2>1. s \o Append(v, x) = Append(s \o v, x) /\ s \o v \in Seq(S) /\ Append(v, x) \in Seq(S)
    BY <2>0, ConcatAppend, ConcatProperties, AppendProperties
  <2>2. PICK y \in Seq(S) : y = IF x = CSI THEN <<>> ELSE <<x>>
    <3>1. (IF x = CSI THEN <<>> ELSE <<x>>) \in Seq(S)
      BY EmptySeq
    <3>2. QED
      BY <3>1
  <2>3. Strip(Append(s \o v, x)) = Strip(s \o v) \o y
    BY <2>1, <2>2, StripAppend
  <2>4. Strip(Append(v, x)) = Strip(v) \o y
    BY <2>0, <2>2, StripAppend
  <2>5. Assoc(Strip(s), Strip(v), y)
    BY <1>0, <2>0, StripType, Associative
  <2>6. QED
    BY <2>0, <2>1, <2>3, <2>4, <2>5 DEF Assoc, T
<1> HIDE DEF T
<1>3. T = Seq(S)
  <2>1. T \in SUBSET Seq(S)
    BY DEF T
  <2>2. QED
    BY <1>1, <1>2, <2>1, SeqInduction
<1>4. u \in T
  BY <1>3
<1>5. QED
  BY <1>4 DEF T

-----------------------------------------------------------------------------
(* The loop of splitArgs reads one symbol after the other. *)

\* f holds the states of the loop after 0 to n symbols of s.
ReadEq(f, n, s) == f = [i \in 0 .. n |-> IF i = 0 THEN Start ELSE Read(f[i - 1], s[i])]

\* The recursive function of ReadAll exists,
LEMMA ReadExists ==
  ASSUME NEW s, NEW n \in Nat PROVE \E f : ReadEq(f, n, s)
<1> DEFINE T == {k \in Nat : \E f : ReadEq(f, k, s)}
<1>1. 0 \in T
  <2>1. ReadEq([i \in 0 .. 0 |-> Start], 0, s)
    BY DEF ReadEq
  <2>2. QED
    BY <2>1
<1>2. ASSUME NEW k \in T PROVE k + 1 \in T
  <2>1. PICK f : ReadEq(f, k, s)
    OBVIOUS
  <2> DEFINE g == [i \in 0 .. k + 1 |-> IF i = 0 THEN Start ELSE Read(f[i - 1], s[i])]
  <2>2. \A i \in 0 .. k : g[i] = f[i]
    <3>1. \A i \in 0 .. k : f[i] = IF i = 0 THEN Start ELSE Read(f[i - 1], s[i])
      BY <2>1 DEF ReadEq
    <3>2. \A i \in 0 .. k : i \in 0 .. k + 1
      OBVIOUS
    <3>3. QED
      BY <3>1, <3>2
  <2>3. \A i \in 0 .. k + 1 : i # 0 => g[i - 1] = f[i - 1]
    <3>1. \A i \in 0 .. k + 1 : i # 0 => i - 1 \in 0 .. k
      OBVIOUS
    <3>2. QED
      BY <2>2, <3>1
  <2>4. g = [i \in 0 .. k + 1 |-> IF i = 0 THEN Start ELSE Read(g[i - 1], s[i])]
    BY <2>3
  <2>5. ReadEq(g, k + 1, s)
    BY <2>4 DEF ReadEq
  <2>6. QED
    BY <2>5
<1>3. T = Nat
  BY <1>1, <1>2, SetInduction
<1>4. QED
  BY <1>3

\* and depends on nothing but the symbols it has read.
LEMMA ReadUnique ==
  ASSUME NEW s, NEW t, NEW n \in Nat, NEW m \in Nat, n <= m, Agree(s, t, n),
         NEW f, ReadEq(f, n, s), NEW g, ReadEq(g, m, t)
  PROVE  f[n] = g[n]
<1> DEFINE T == {k \in Nat : k \in 0 .. n => f[k] = g[k]}
<1>0. /\ \A i \in 0 .. n : f[i] = IF i = 0 THEN Start ELSE Read(f[i - 1], s[i])
      /\ \A i \in 0 .. m : g[i] = IF i = 0 THEN Start ELSE Read(g[i - 1], t[i])
      /\ \A i \in 1 .. n : s[i] = t[i]
  BY DEF ReadEq, Agree
<1>1. 0 \in T
  BY <1>0
<1>2. ASSUME NEW k \in T PROVE k + 1 \in T
  <2> SUFFICES ASSUME k + 1 \in 0 .. n PROVE f[k + 1] = g[k + 1]
    OBVIOUS
  <2>1. PICK j \in Nat : j = k + 1
    OBVIOUS
  <2>2. j \in 0 .. n /\ j \in 0 .. m /\ j \in 1 .. n /\ j # 0 /\ j - 1 = k
    BY <2>1
  <2>3. f[j] = Read(f[k], s[j]) /\ g[j] = Read(g[k], t[j]) /\ s[j] = t[j]
    BY <1>0, <2>2
  <2>4. f[k] = g[k]
    BY <2>2
  <2>5. QED
    BY <2>1, <2>3, <2>4
<1> HIDE DEF T
<1>3. T = Nat
  <2>1. T \in SUBSET Nat
    BY DEF T
  <2>2. QED
    BY <1>1, <1>2, <2>1, SetInduction
<1>4. QED
  BY <1>3 DEF T

\* The state after n symbols of s.
ReadSome(s, n) == (CHOOSE f : ReadEq(f, n, s))[n]

\* ReadSome looks at n symbols only,
LEMMA ReadLocal ==
  ASSUME NEW s, NEW t, NEW n \in Nat, Agree(s, t, n)
  PROVE  ReadSome(s, n) = ReadSome(t, n)
<1>1. ReadEq(CHOOSE f : ReadEq(f, n, s), n, s) /\ ReadEq(CHOOSE f : ReadEq(f, n, t), n, t)
  BY ReadExists
<1>2. QED
  BY <1>1, ReadUnique DEF ReadSome

\* and each further one is read from the state before it.
LEMMA ReadNext ==
  ASSUME NEW s, NEW n \in Nat, NEW m \in Nat, m = n + 1
  PROVE  ReadSome(s, m) = Read(ReadSome(s, n), s[m])
<1> DEFINE f == CHOOSE h : ReadEq(h, n, s)
           g == CHOOSE h : ReadEq(h, m, s)
<1>1. ReadEq(f, n, s) /\ ReadEq(g, m, s)
  BY ReadExists
<1>2. ReadSome(s, n) = f[n] /\ ReadSome(s, m) = g[m]
  BY DEF ReadSome
<1> HIDE DEF f, g
<1>3. n <= m /\ m \in 0 .. m /\ m # 0 /\ m - 1 = n /\ Agree(s, s, n)
  BY DEF Agree
<1>4. f[n] = g[n]
  BY <1>1, <1>3, ReadUnique
<1>5. \A i \in 0 .. m : g[i] = IF i = 0 THEN Start ELSE Read(g[i - 1], s[i])
  BY <1>1 DEF ReadEq
<1>6. QED
  BY <1>2, <1>3, <1>4, <1>5

\* ReadAll is ReadSome of the whole text:
LEMMA ReadAllIsReadSome ==
  ASSUME NEW s PROVE ReadAll(s) = ReadSome(s, Len(s))
  BY DEF ReadAll, ReadSome, ReadEq

\* it starts in Start,
LEMMA ReadEmpty == ReadAll(<<>>) = Start
<1>1. ReadAll(<<>>) = ReadSome(<<>>, 0)
  BY ReadAllIsReadSome
<1>2. ReadEq(CHOOSE f : ReadEq(f, 0, <<>>), 0, <<>>)
  BY ReadExists
<1>3. QED
  BY <1>1, <1>2 DEF ReadSome, ReadEq

\* and one symbol more is read from the state before it.
LEMMA ReadAppend ==
  ASSUME NEW S, NEW s \in Seq(S), NEW c \in S
  PROVE  ReadAll(Append(s, c)) = Read(ReadAll(s), c)
<1>1. PICK n \in Nat, t \in Seq(S) : Longer(S, s, c, n, t)
  BY Positions
<1>2. PICK m \in Nat : m = n + 1 /\ m = Len(t) /\ t[m] = c /\ Agree(s, t, n)
  BY <1>1, AppendProperties DEF Longer, Agree
<1>3. ReadAll(t) = ReadSome(t, m) /\ ReadAll(s) = ReadSome(s, n)
  BY <1>1, <1>2, ReadAllIsReadSome DEF Longer
<1>4. ReadSome(t, m) = Read(ReadSome(t, n), t[m])
  BY <1>2, ReadNext
<1>5. ReadSome(s, n) = ReadSome(t, n)
  BY <1>2, ReadLocal
<1>6. QED
  BY <1>1, <1>2, <1>3, <1>4, <1>5 DEF Longer

-----------------------------------------------------------------------------
(* What the loop makes of the text of a piece, a word, an alias.            *)

\* The states of the loop: the words read, the one being read, the open quote.
ReaderStates ==
    [tokens : Seq(Seq(Symbols)), cur : Seq(Symbols), quote : {"none", SQ, DQ}, inToken : BOOLEAN]

\* The marks of the shell are symbols.
LEMMA SymbolsAreSymbols ==
    {SQ, DQ, Space, Prefix, Token, CSI, Backslash} \subseteq Symbols
  BY DEF Symbols

\* Flush keeps the type, and a second Flush changes nothing.
LEMMA FlushType ==
  ASSUME NEW x \in ReaderStates
  PROVE  Flush(x) \in ReaderStates /\ Flush(Flush(x)) = Flush(x)
<1>1. x.cur \in Seq(Symbols) /\ x.tokens \in Seq(Seq(Symbols))
  BY DEF ReaderStates
<1>2. Append(x.tokens, x.cur) \in Seq(Seq(Symbols)) /\ <<>> \in Seq(Symbols)
  BY <1>1, AppendProperties, EmptySeq
<1>3. QED
  BY <1>2 DEF ReaderStates, Flush

\* A step of the loop keeps the type,
LEMMA ReadType ==
  ASSUME NEW x \in ReaderStates, NEW c \in Symbols
  PROVE  Read(x, c) \in ReaderStates
<1>1. x.cur \in Seq(Symbols) /\ Flush(x) \in ReaderStates
  BY FlushType DEF ReaderStates
<1>2. Append(x.cur, c) \in Seq(Symbols)
  BY <1>1, AppendProperties
<1>3. QED
  BY <1>1, <1>2 DEF ReaderStates, Read

\* so does the loop,
LEMMA ReadAllType ==
  ASSUME NEW s \in Seq(Symbols)
  PROVE  ReadAll(s) \in ReaderStates
<1> DEFINE T == {u \in Seq(Symbols) : ReadAll(u) \in ReaderStates}
<1>1. <<>> \in T
  <2>1. Start \in ReaderStates
    BY EmptySeq DEF Start, ReaderStates
  <2>2. QED
    BY <2>1, ReadEmpty, EmptySeq
<1>2. ASSUME NEW u \in T, NEW x \in Symbols PROVE Append(u, x) \in T
  <2>1. ReadAll(Append(u, x)) = Read(ReadAll(u), x)
    BY ReadAppend
  <2>2. Append(u, x) \in Seq(Symbols)
    BY AppendProperties
  <2>3. QED
    BY <2>1, <2>2, ReadType
<1> HIDE DEF T
<1>3. T = Seq(Symbols)
  <2>1. T \in SUBSET Seq(Symbols)
    BY DEF T
  <2>2. QED
    BY <1>1, <1>2, <2>1, SeqInduction
<1>4. QED
  BY <1>3 DEF T

\* and what splitArgs returns is a sequence of words.
LEMMA SplitArgsType ==
  ASSUME NEW s \in Seq(Symbols)
  PROVE  SplitArgs(s) \in Seq(Seq(Symbols))
  BY ReadAllType, FlushType DEF SplitArgs, ReaderStates

\* x with u at the end of its word.
Grown(x, u) == [x EXCEPT !.cur = @ \o u, !.inToken = TRUE]

\* A word that grows twice grows by both texts.
LEMMA GrownTwice ==
  ASSUME NEW x \in ReaderStates, NEW u \in Seq(Symbols), NEW v \in Seq(Symbols)
  PROVE  /\ Grown(x, u) \in ReaderStates
         /\ Grown(Grown(x, u), v) = Grown(x, u \o v)
<1>1. x.cur \in Seq(Symbols)
  BY DEF ReaderStates
<1>2. x.cur \o u \in Seq(Symbols) /\ (x.cur \o u) \o v = x.cur \o (u \o v)
  <2>1. PICK w \in Seq(Symbols) : w = x.cur
    BY <1>1
  <2>2. w \o u \in Seq(Symbols) /\ Assoc(w, u, v)
    BY ConcatProperties, Associative
  <2>3. QED
    BY <2>1, <2>2 DEF Assoc
<1>3. Grown(x, u) \in ReaderStates
  BY <1>2 DEF ReaderStates, Grown
<1>4. Grown(Grown(x, u), v) = Grown(x, u \o v)
  BY <1>2 DEF ReaderStates, Grown
<1>5. QED
  BY <1>3, <1>4

\* Unquoted text without a quote or a space goes to the end of the word.
LEMMA PlainRun ==
  ASSUME NEW s \in Seq(Symbols), NEW v \in Seq(Symbols), ReadAll(s).quote = "none",
         v # <<>>, ToSet(v) \intersect {SQ, DQ, Space} = {}
  PROVE  ReadAll(s \o v) = Grown(ReadAll(s), v)
<1> DEFINE x == ReadAll(s)
           T == {u \in Seq(Symbols) :
                    ToSet(u) \intersect {SQ, DQ, Space} = {} =>
                        ReadAll(s \o u) = IF u = <<>> THEN x ELSE Grown(x, u)}
<1>0. x \in ReaderStates
  BY ReadAllType
<1>1. <<>> \in T
  BY EmptySeq, ConcatEmptySeq
<1>2. ASSUME NEW u \in T, NEW c \in Symbols PROVE Append(u, c) \in T
  <2> SUFFICES ASSUME ToSet(Append(u, c)) \intersect {SQ, DQ, Space} = {}
               PROVE  ReadAll(s \o Append(u, c)) = Grown(x, Append(u, c))
    BY AppendProperties
  <2>1. ToSet(Append(u, c)) = ToSet(u) \union {c} /\ Append(u, c) = u \o <<c>>
    BY ElementsOfAppend, AppendIsConcat
  <2>2. c \notin {SQ, DQ, Space}
        /\ ReadAll(s \o u) = IF u = <<>> THEN x ELSE Grown(x, u)
    BY <2>1
  <2>3. s \o Append(u, c) = Append(s \o u, c) /\ s \o u \in Seq(Symbols)
    BY ConcatAppend, ConcatProperties
  <2>4. ReadAll(s \o Append(u, c)) = Read(ReadAll(s \o u), c)
    BY <2>3, ReadAppend
  <2>5. ReadAll(s \o u) \in ReaderStates /\ ReadAll(s \o u).quote = "none"
    BY <2>2, <2>3, ReadAllType DEF Grown, ReaderStates
  <2>6. ReadAll(s \o Append(u, c)) = Grown(ReadAll(s \o u), <<c>>)
    <3>1. Append(ReadAll(s \o u).cur, c) = ReadAll(s \o u).cur \o <<c>>
      BY <2>5, AppendIsConcat DEF ReaderStates
    <3>2. QED
      BY <2>2, <2>4, <2>5, <3>1 DEF Read, Grown
  <2>7. CASE u = <<>>
    <3>1. u \o <<c>> = <<c>>
      BY <2>7
    <3>2. QED
      BY <2>1, <2>2, <2>6, <2>7, <3>1
  <2>8. CASE u # <<>>
    <3>1. <<c>> \in Seq(Symbols)
      OBVIOUS
    <3>2. Grown(Grown(x, u), <<c>>) = Grown(x, u \o <<c>>)
      BY <1>0, <3>1, GrownTwice
    <3>3. QED
      BY <2>1, <2>2, <2>6, <2>8, <3>2
  <2>9. QED
    BY <2>7, <2>8
<1> HIDE DEF T
<1>3. T = Seq(Symbols)
  <2>1. T \in SUBSET Seq(Symbols)
    BY DEF T
  <2>2. QED
    BY <1>1, <1>2, <2>1, SeqInduction
<1>4. QED
  BY <1>3 DEF T

\* So does quoted text without its own quote.
LEMMA QuotedRun ==
  ASSUME NEW s \in Seq(Symbols), NEW v \in Seq(Symbols), ReadAll(s).quote # "none",
         ReadAll(s).inToken, ReadAll(s).quote \notin ToSet(v)
  PROVE  ReadAll(s \o v) = Grown(ReadAll(s), v)
<1> DEFINE x == ReadAll(s)
           T == {u \in Seq(Symbols) :
                    x.quote \notin ToSet(u) => ReadAll(s \o u) = Grown(x, u)}
<1>0. x \in ReaderStates
  BY ReadAllType
<1>1. <<>> \in T
  <2>1. x.cur \o <<>> = x.cur
    BY <1>0, ConcatEmptySeq DEF ReaderStates
  <2>2. Grown(x, <<>>) = x
    BY <1>0, <2>1 DEF ReaderStates, Grown
  <2>3. QED
    BY <2>2, EmptySeq, ConcatEmptySeq
<1>2. ASSUME NEW u \in T, NEW c \in Symbols PROVE Append(u, c) \in T
  <2> SUFFICES ASSUME x.quote \notin ToSet(Append(u, c))
               PROVE  ReadAll(s \o Append(u, c)) = Grown(x, Append(u, c))
    BY AppendProperties
  <2>1. ToSet(Append(u, c)) = ToSet(u) \union {c} /\ Append(u, c) = u \o <<c>>
    BY ElementsOfAppend, AppendIsConcat
  <2>2. c # x.quote /\ ReadAll(s \o u) = Grown(x, u)
    BY <2>1
  <2>3. s \o Append(u, c) = Append(s \o u, c) /\ s \o u \in Seq(Symbols)
    BY ConcatAppend, ConcatProperties
  <2>4. ReadAll(s \o Append(u, c)) = Read(ReadAll(s \o u), c)
    BY <2>3, ReadAppend
  <2>5. /\ ReadAll(s \o u) \in ReaderStates
        /\ ReadAll(s \o u).quote = x.quote /\ ReadAll(s \o u).inToken = TRUE
    BY <1>0, <2>2, <2>3, ReadAllType DEF Grown, ReaderStates
  <2>6. ReadAll(s \o Append(u, c)) = Grown(ReadAll(s \o u), <<c>>)
    <3>1. Append(ReadAll(s \o u).cur, c) = ReadAll(s \o u).cur \o <<c>>
      BY <2>5, AppendIsConcat DEF ReaderStates
    <3>2. QED
      BY <2>2, <2>4, <2>5, <3>1 DEF Read, Grown, ReaderStates
  <2>7. <<c>> \in Seq(Symbols)
    OBVIOUS
  <2>8. Grown(Grown(x, u), <<c>>) = Grown(x, u \o <<c>>)
    BY <1>0, <2>7, GrownTwice
  <2>9. QED
    BY <2>1, <2>2, <2>6, <2>8
<1> HIDE DEF T
<1>3. T = Seq(Symbols)
  <2>1. T \in SUBSET Seq(Symbols)
    BY DEF T
  <2>2. QED
    BY <1>1, <1>2, <2>1, SeqInduction
<1>4. QED
  BY <1>3 DEF T

\* A quoted text after s, symbol for symbol.
LEMMA QuotedConcat ==
  ASSUME NEW s \in Seq(Symbols), NEW u \in Seq(Symbols), NEW c \in Symbols
  PROVE  s \o (<<c>> \o u \o <<c>>) = Append(Append(s, c) \o u, c)
<1>1. PICK q \in Seq(Symbols) : q = <<c>>
  <2>1. <<c>> \in Seq(Symbols)
    OBVIOUS
  <2>2. QED
    BY <2>1
<1>2. PICK qu \in Seq(Symbols), sq \in Seq(Symbols) : qu = q \o u /\ sq = s \o q
  BY ConcatProperties
<1>3. Assoc(s, q, u) /\ Assoc(s, qu, q)
  BY Associative
<1>4. sq = Append(s, c) /\ sq \o u \in Seq(Symbols)
  BY <1>1, <1>2, AppendIsConcat, ConcatProperties
<1>5. Append(sq \o u, c) = (sq \o u) \o q
  BY <1>1, <1>4, AppendIsConcat
<1>6. QED
  BY <1>1, <1>2, <1>3, <1>4, <1>5 DEF Assoc

\* A piece, written, adds its text to the word and leaves no quote open.
LEMMA PieceRead ==
  ASSUME PlainAliases, NEW s \in Seq(Symbols), NEW p \in Pieces, ReadAll(s).quote = "none"
  PROVE  ReadAll(s \o WrittenPiece(p)) = Grown(ReadAll(s), p.text)
<1> DEFINE x == ReadAll(s)
<1>1. /\ p.quote \in {"none", SQ, DQ} /\ p.quote # SQ /\ p.text \in Seq(Symbols)
      /\ ToSet(p.text) \intersect {SQ, DQ, Backslash, CSI} = {}
      /\ p.quote = "none" => p.text # <<>> /\ ToSet(p.text) \intersect {Space, Prefix} = {}
  BY AliasAssumption DEF PlainAliases
<1>2. CASE p.quote = "none"
  <2>1. ToSet(p.text) \intersect {SQ, DQ, Space} = {}
    BY <1>1, <1>2
  <2>2. WrittenPiece(p) = p.text
    BY <1>2 DEF WrittenPiece
  <2>3. QED
    BY <1>1, <1>2, <2>1, <2>2, PlainRun
<1>3. CASE p.quote # "none"
  <2>1. p.quote = DQ /\ DQ \in Symbols
    BY <1>1, <1>3, SymbolsAreSymbols
  <2>2. PICK u \in Seq(Symbols) : u = p.text
    BY <1>1
  <2>3. PICK s1 \in Seq(Symbols) : s1 = Append(s, DQ)
    BY <2>1, AppendProperties
  <2>4. PICK s2 \in Seq(Symbols) : s2 = s1 \o u
    BY ConcatProperties
  <2>5. s \o WrittenPiece(p) = Append(s2, DQ)
    <3>1. s \o (<<DQ>> \o u \o <<DQ>>) = Append(Append(s, DQ) \o u, DQ)
      BY <2>1, QuotedConcat
    <3>2. WrittenPiece(p) = <<DQ>> \o u \o <<DQ>>
      BY <1>3, <2>1, <2>2 DEF WrittenPiece
    <3>3. QED
      BY <2>3, <2>4, <3>1, <3>2
  <2>6. x \in ReaderStates
    BY ReadAllType
  <2>7. ReadAll(s1) = [x EXCEPT !.quote = DQ, !.inToken = TRUE]
    <3>1. ReadAll(s1) = Read(x, DQ)
      BY <2>1, <2>3, ReadAppend
    <3>2. QED
      BY <3>1 DEF Read, Space, DQ, SQ
  <2>8. ReadAll(s1).quote = DQ /\ ReadAll(s1).inToken /\ DQ \notin ToSet(u) /\ DQ # "none"
    BY <1>1, <2>2, <2>6, <2>7 DEF ReaderStates, DQ
  <2>9. ReadAll(s2) = Grown(ReadAll(s1), u)
    BY <2>4, <2>8, QuotedRun
  <2>10. ReadAll(Append(s2, DQ)) = Read(ReadAll(s2), DQ)
    BY <2>1, ReadAppend
  <2>11. Read(ReadAll(s2), DQ) = [ReadAll(s2) EXCEPT !.quote = "none"]
    <3>1. ReadAll(s2).quote = DQ
      BY <2>6, <2>7, <2>9 DEF Grown, ReaderStates
    <3>2. QED
      BY <2>8, <3>1 DEF Read
  <2>12. [ReadAll(s2) EXCEPT !.quote = "none"] = Grown(x, u)
    BY <2>6, <2>7, <2>9 DEF Grown, ReaderStates
  <2>13. QED
    BY <2>2, <2>5, <2>10, <2>11, <2>12
<1>4. QED
  BY <1>2, <1>3

\* A word, written, adds what it means.
LEMMA WordRead ==
  ASSUME PlainAliases, NEW s \in Seq(Symbols), NEW w \in Seq(Pieces), w # <<>>,
         ReadAll(s).quote = "none"
  PROVE  ReadAll(s \o Written(w)) = Grown(ReadAll(s), Meaning(w))
<1> DEFINE x == ReadAll(s)
           T == {v \in Seq(Pieces) :
                    ReadAll(s \o Written(v)) = IF v = <<>> THEN x ELSE Grown(x, Meaning(v))}
<1>0. x \in ReaderStates
  BY ReadAllType
<1>1. <<>> \in T
  BY EmptySeq, ConcatEmptySeq, WrittenEmpty
<1>2. ASSUME NEW v \in T, NEW p \in Pieces PROVE Append(v, p) \in T
  <2>0. v \in Seq(Pieces) /\ ReadAll(s \o Written(v)) = IF v = <<>> THEN x ELSE Grown(x, Meaning(v))
    OBVIOUS
  <2> HIDE DEF T
  <2>1. PICK r \in Seq(Symbols), a \in Seq(Symbols), m \in Seq(Symbols), b \in Seq(Symbols) :
            r = Written(v) /\ a = WrittenPiece(p) /\ m = Meaning(v) /\ b = p.text
    BY <2>0, WrittenType, PieceType
  <2>2. Written(Append(v, p)) = r \o a /\ Meaning(Append(v, p)) = m \o b
    BY <2>0, <2>1, WrittenAppend, MeaningAppend
  <2>3. PICK s1 \in Seq(Symbols) : s1 = s \o r
    BY ConcatProperties
  <2>4. s1 \o a = s \o (r \o a)
    <3>1. Assoc(s, r, a)
      BY Associative
    <3>2. QED
      BY <2>3, <3>1 DEF Assoc
  <2>5. ReadAll(s1) = IF v = <<>> THEN x ELSE Grown(x, m)
    BY <2>0, <2>1, <2>3
  <2>6. ReadAll(s1).quote = "none"
    BY <1>0, <2>5 DEF Grown, ReaderStates
  <2>7. ReadAll(s1 \o a) = Grown(ReadAll(s1), b)
    BY <2>1, <2>6, PieceRead
  <2>8. Append(v, p) \in Seq(Pieces) /\ Append(v, p) # <<>>
    <3>1. v \in Seq(Pieces)
      BY <2>0
    <3>2. QED
      BY <3>1, AppendProperties
  <2>9. CASE v = <<>>
    <3>1. m = <<>> /\ m \o b = b
      BY <2>1, <2>9, MeaningEmpty, ConcatEmptySeq
    <3>2. ReadAll(s1 \o a) = Grown(x, m \o b)
      BY <2>5, <2>7, <2>9, <3>1
    <3>3. QED
      BY <2>2, <2>4, <2>8, <3>2 DEF T
  <2>10. CASE v # <<>>
    <3>1. Grown(Grown(x, m), b) = Grown(x, m \o b)
      BY <1>0, GrownTwice
    <3>2. ReadAll(s1 \o a) = Grown(x, m \o b)
      BY <2>5, <2>7, <2>10, <3>1
    <3>3. QED
      BY <2>2, <2>4, <2>8, <3>2 DEF T
  <2>11. QED
    BY <2>9, <2>10
<1> HIDE DEF T
<1>3. T = Seq(Pieces)
  <2>1. T \in SUBSET Seq(Pieces)
    BY DEF T
  <2>2. QED
    BY <1>1, <1>2, <2>1, SeqInduction
<1>4. QED
  BY <1>3 DEF T

\* Spaces are symbols.
LEMMA BlanksType ==
  ASSUME NEW n \in Nat \ {0}
  PROVE  Blanks(n) \in Seq(Symbols) /\ Blanks(n) # <<>> /\ ToSet(Blanks(n)) \subseteq {Space}
<1>1. Space \in Symbols
  BY SymbolsAreSymbols
<1>2. Blanks(n) \in Seq(Symbols) /\ Len(Blanks(n)) = n
  BY <1>1, SeqDef DEF Blanks
<1>3. QED
  BY <1>2, EmptySeq DEF Blanks, ToSet

\* Spaces end the word, once.
LEMMA BlankRun ==
  ASSUME NEW s \in Seq(Symbols), NEW v \in Seq(Symbols), ReadAll(s).quote = "none",
         v # <<>>, ToSet(v) \subseteq {Space}
  PROVE  ReadAll(s \o v) = Flush(ReadAll(s))
<1> DEFINE x == ReadAll(s)
           T == {u \in Seq(Symbols) :
                    ToSet(u) \subseteq {Space} =>
                        ReadAll(s \o u) = IF u = <<>> THEN x ELSE Flush(x)}
<1>0. x \in ReaderStates /\ Flush(x) \in ReaderStates /\ Flush(Flush(x)) = Flush(x)
  BY ReadAllType, FlushType
<1>1. <<>> \in T
  BY EmptySeq, ConcatEmptySeq
<1>2. ASSUME NEW u \in T, NEW c \in Symbols PROVE Append(u, c) \in T
  <2> SUFFICES ASSUME ToSet(Append(u, c)) \subseteq {Space}
               PROVE  ReadAll(s \o Append(u, c)) = Flush(x)
    BY AppendProperties
  <2>1. ToSet(Append(u, c)) = ToSet(u) \union {c}
    BY ElementsOfAppend
  <2>2. c = Space /\ ReadAll(s \o u) = IF u = <<>> THEN x ELSE Flush(x)
    BY <2>1
  <2>3. s \o Append(u, c) = Append(s \o u, c) /\ s \o u \in Seq(Symbols)
    BY ConcatAppend, ConcatProperties
  <2>4. ReadAll(s \o Append(u, c)) = Read(ReadAll(s \o u), c)
    BY <2>3, ReadAppend
  <2>5. ReadAll(s \o u).quote = "none"
    BY <2>2 DEF Flush
  <2>6. Read(ReadAll(s \o u), Space) = Flush(ReadAll(s \o u))
    BY <2>5 DEF Read, Space, SQ, DQ
  <2>7. QED
    BY <1>0, <2>2, <2>4, <2>6
<1> HIDE DEF T
<1>3. T = Seq(Symbols)
  <2>1. T \in SUBSET Seq(Symbols)
    BY DEF T
  <2>2. QED
    BY <1>1, <1>2, <2>1, SeqInduction
<1>4. QED
  BY <1>3 DEF T

\* An alias without words is empty,
LEMMA SpacedEmpty == ASSUME NEW n \in Nat PROVE Spaced(<<>>, n) = <<>>
  BY FlattenEmpty, EmptySeq DEF Spaced

\* What stands between the words s and the next one.
Separator(ws, n) == IF ws = <<>> THEN <<>> ELSE Blanks(n)

\* and one with one word more is longer by a separator and the word.
LEMMA SpacedAppend ==
  ASSUME NEW n \in Nat \ {0}, NEW s \in Seq(Seq(Pieces)), NEW x \in Seq(Pieces)
  PROVE  Spaced(Append(s, x), n) = Spaced(s, n) \o (Separator(s, n) \o Written(x))
<1>1. PICK l \in Nat, t \in Seq(Seq(Pieces)) : Longer(Seq(Pieces), s, x, l, t)
  BY Positions
<1> DEFINE m == [i \in DOMAIN s |->
                     (IF i = 1 THEN <<>> ELSE Blanks(n)) \o Written(s[i])]
           k == [i \in DOMAIN t |->
                     (IF i = 1 THEN <<>> ELSE Blanks(n)) \o Written(t[i])]
           y == Separator(s, n) \o Written(x)
<1>2. y \in Seq(Symbols) /\ \A i \in 1 .. l : m[i] \in Seq(Symbols)
  <2>1. <<>> \in Seq(Symbols) /\ Blanks(n) \in Seq(Symbols)
    BY EmptySeq, BlanksType
  <2>2. y \in Seq(Symbols)
    BY <2>1, WrittenType, ConcatProperties DEF Separator
  <2>3. ASSUME NEW i \in 1 .. l PROVE m[i] \in Seq(Symbols)
    <3>1. Written(s[i]) \in Seq(Symbols)
      BY <1>1, WrittenType DEF Longer
    <3>2. (IF i = 1 THEN <<>> ELSE Blanks(n)) \in Seq(Symbols)
      BY <2>1
    <3>3. (IF i = 1 THEN <<>> ELSE Blanks(n)) \o Written(s[i]) \in Seq(Symbols)
      BY <3>1, <3>2, ConcatProperties
    <3>4. QED
      BY <1>1, <3>3 DEF Longer
  <2>4. QED
    BY <2>2, <2>3
<1>3. m \in Seq(Seq(Symbols)) /\ Len(m) = l
  BY <1>1, <1>2, SeqDef DEF Longer
<1>4. Extended(k, m, l, y)
  <2>1. DOMAIN t = 1 .. l + 1 /\ DOMAIN s = 1 .. l /\ t[l + 1] = x
        /\ \A i \in 1 .. l : t[i] = s[i]
    BY <1>1 DEF Longer
  <2>2. k = [i \in 1 .. l + 1 |-> k[i]]
    BY <2>1
  <2>3. ASSUME NEW i \in 1 .. l PROVE k[i] = m[i]
    <3>1. i \in DOMAIN s /\ i \in DOMAIN t /\ t[i] = s[i]
      BY <2>1
    <3>2. k[i] = (IF i = 1 THEN <<>> ELSE Blanks(n)) \o Written(t[i])
      BY <3>1
    <3>3. m[i] = (IF i = 1 THEN <<>> ELSE Blanks(n)) \o Written(s[i])
      BY <3>1
    <3>4. QED
      BY <3>1, <3>2, <3>3
  <2>4. k[l + 1] = y
    <3>1. PICK j \in Nat : j = l + 1 /\ j \in 1 .. l + 1 /\ t[j] = x
      BY <2>1
    <3>2. j = 1 <=> s = <<>>
      BY <1>1, <3>1, EmptySeq DEF Longer
    <3>3. k[j] = (IF j = 1 THEN <<>> ELSE Blanks(n)) \o Written(t[j])
      BY <2>1, <3>1
    <3>4. QED
      BY <3>1, <3>2, <3>3 DEF Separator
  <2>5. QED
    BY <2>2, <2>3, <2>4 DEF Extended
<1>5. Spaced(s, n) = FlattenSeq(m) /\ Spaced(t, n) = FlattenSeq(k)
  BY DEF Spaced
<1> HIDE DEF m, k, y
<1>6. FlattenSeq(k) = FlattenSeq(m) \o y
  BY <1>2, <1>3, <1>4, FlattenExtended
<1>7. QED
  BY <1>1, <1>5, <1>6 DEF y, Longer

\* An alias is symbols.
LEMMA SpacedType ==
  ASSUME NEW n \in Nat \ {0}, NEW ws \in Seq(Seq(Pieces))
  PROVE  Spaced(ws, n) \in Seq(Symbols)
<1>1. DOMAIN ws = 1 .. Len(ws) /\ Len(ws) \in Nat
      /\ \A i \in 1 .. Len(ws) : ws[i] \in Seq(Pieces)
  BY LenProperties, ElementOfSeq
<1>2. ASSUME NEW i \in 1 .. Len(ws)
      PROVE  (IF i = 1 THEN <<>> ELSE Blanks(n)) \o Written(ws[i]) \in Seq(Symbols)
  <2>1. (IF i = 1 THEN <<>> ELSE Blanks(n)) \in Seq(Symbols)
    BY EmptySeq, BlanksType
  <2>2. Written(ws[i]) \in Seq(Symbols)
    BY <1>1, WrittenType
  <2>3. QED
    BY <2>1, <2>2, ConcatProperties
<1>3. [i \in DOMAIN ws |-> (IF i = 1 THEN <<>> ELSE Blanks(n)) \o Written(ws[i])]
          \in Seq(Seq(Symbols))
  BY <1>1, <1>2, SeqDef
<1>4. QED
  BY <1>3, FlattenType DEF Spaced

\* The words that the loop has read, when it has just read a separator.
Done(words) == [tokens |-> words, cur |-> <<>>, quote |-> "none", inToken |-> FALSE]

\* What words mean.
Meanings(words) == [i \in DOMAIN words |-> Meaning(words[i])]

\* One word more means one meaning more.
LEMMA MeaningsAppend ==
  ASSUME NEW s \in Seq(Seq(Pieces)), NEW x \in Seq(Pieces)
  PROVE  /\ Meanings(s) \in Seq(Seq(Symbols))
         /\ Meanings(Append(s, x)) = Append(Meanings(s), Meaning(x))
<1>1. PICK l \in Nat, t \in Seq(Seq(Pieces)) : Longer(Seq(Pieces), s, x, l, t)
  BY Positions
<1>2. DOMAIN t = 1 .. l + 1 /\ DOMAIN s = 1 .. l /\ t[l + 1] = x
      /\ \A i \in 1 .. l : t[i] = s[i] /\ s[i] \in Seq(Pieces)
  BY <1>1 DEF Longer
<1>3. Meaning(x) \in Seq(Symbols) /\ \A i \in 1 .. l : Meaning(s[i]) \in Seq(Symbols)
  BY <1>2, WrittenType
<1>4. Meanings(s) \in Seq(Seq(Symbols)) /\ Len(Meanings(s)) = l
  BY <1>2, <1>3, SeqDef DEF Meanings
<1>5. Extended(Meanings(t), Meanings(s), l, Meaning(x))
  BY <1>2 DEF Extended, Meanings
<1>6. Meanings(t) = Append(Meanings(s), Meaning(x))
  BY <1>3, <1>4, <1>5, ExtendedIsAppend
<1>7. QED
  BY <1>1, <1>4, <1>6 DEF Longer

\* States of the loop with the same fields are the same.
LEMMA SameState ==
  ASSUME NEW y \in ReaderStates, NEW z \in ReaderStates,
         y.tokens = z.tokens, y.cur = z.cur, y.quote = z.quote, y.inToken = z.inToken
  PROVE  y = z
  BY DEF ReaderStates

\* A word read after a separator, and the separator after it.
LEMMA DoneGrown ==
  ASSUME NEW words \in Seq(Seq(Symbols)), NEW m \in Seq(Symbols)
  PROVE  /\ Grown(Done(words), m).quote = "none"
         /\ Flush(Grown(Done(words), m)) = Done(Append(words, m))
<1>1. PICK x \in ReaderStates : x = Done(words)
  <2>1. Done(words) \in ReaderStates
    BY EmptySeq DEF Done, ReaderStates
  <2>2. QED
    BY <2>1
<1>2. x.tokens = words /\ x.cur = <<>> /\ x.quote = "none"
  BY <1>1 DEF Done
<1>3. x.cur \o m = m
  BY <1>2, ConcatEmptySeq
<1>4. PICK y \in ReaderStates : y = Grown(x, m)
  BY GrownTwice
<1>5. y.tokens = words /\ y.cur = m /\ y.quote = "none" /\ y.inToken = TRUE
  BY <1>2, <1>3, <1>4 DEF Grown, ReaderStates
<1>6. PICK z \in ReaderStates : z = Flush(y)
  BY FlushType
<1>7. z.tokens = Append(words, m) /\ z.cur = <<>> /\ z.quote = "none" /\ z.inToken = FALSE
  BY <1>5, <1>6 DEF Flush, ReaderStates
<1>8. Append(words, m) \in Seq(Seq(Symbols))
  BY AppendProperties
<1>9. Done(Append(words, m)) \in ReaderStates
  BY <1>8, EmptySeq DEF Done, ReaderStates
<1>10. z = Done(Append(words, m))
  <2>1. PICK d \in ReaderStates : d = Done(Append(words, m))
    BY <1>9
  <2>2. d.tokens = Append(words, m) /\ d.cur = <<>> /\ d.quote = "none" /\ d.inToken = FALSE
    BY <2>1 DEF Done
  <2>3. z = d
    BY <1>7, <2>2, SameState
  <2>4. QED
    BY <2>1, <2>3
<1>11. QED
  BY <1>1, <1>4, <1>5, <1>6, <1>10

\* An alias, read to its end, is the meanings of its words.
LEMMA SpacedRead ==
  ASSUME PlainAliases, NEW n \in Nat \ {0}, NEW ws \in Seq(Seq(Pieces) \ {<<>>})
  PROVE  Flush(ReadAll(Spaced(ws, n))) = Done(Meanings(ws))
<1> DEFINE Ws == Seq(Pieces) \ {<<>>}
           Good(v) == /\ ReadAll(Spaced(v, n)).quote = "none"
                      /\ Flush(ReadAll(Spaced(v, n))) = Done(Meanings(v))
           T == {v \in Seq(Ws) : Good(v)}
<1>0. \A v \in Seq(Ws) : v \in Seq(Seq(Pieces))
  BY SeqMonotonic
<1>1. <<>> \in T
  <2>1. ReadAll(Spaced(<<>>, n)) = Start
    BY SpacedEmpty, ReadEmpty
  <2>2. Meanings(<<>>) = <<>>
    BY DEF Meanings
  <2>3. Flush(Start) = Start /\ Start.quote = "none" /\ Start = Done(<<>>)
    BY DEF Flush, Start, Done
  <2>4. Good(<<>>)
    BY <2>1, <2>2, <2>3
  <2>5. QED
    BY <2>4, EmptySeq
<1> HIDE DEF Good
<1>2. ASSUME NEW v \in T, NEW w \in Ws PROVE Append(v, w) \in T
  <2>0. v \in Seq(Ws) /\ v \in Seq(Seq(Pieces)) /\ w \in Seq(Pieces) /\ w # <<>> /\ Good(v)
    BY <1>0
  <2> HIDE DEF T
  <2>1. PICK r \in Seq(Symbols), e \in Seq(Symbols), a \in Seq(Symbols), m \in Seq(Symbols) :
            r = Spaced(v, n) /\ e = Separator(v, n) /\ a = Written(w) /\ m = Meaning(w)
    BY <2>0, SpacedType, BlanksType, EmptySeq, WrittenType DEF Separator
  <2>2. PICK re \in Seq(Symbols) : re = r \o e
    BY ConcatProperties
  <2>3. Spaced(Append(v, w), n) = re \o a
    <3>1. Assoc(r, e, a)
      BY Associative
    <3>2. Spaced(Append(v, w), n) = r \o (e \o a)
      BY <2>0, <2>1, SpacedAppend
    <3>3. QED
      BY <2>2, <3>1, <3>2 DEF Assoc
  <2>4. ReadAll(re) = Done(Meanings(v))
    <3>1. ReadAll(r).quote = "none" /\ Flush(ReadAll(r)) = Done(Meanings(v))
      BY <2>0, <2>1 DEF Good
    <3>2. CASE v = <<>>
      <4>1. r = <<>> /\ e = <<>>
        BY <2>1, <3>2, SpacedEmpty DEF Separator
      <4>2. re = <<>>
        BY <2>2, <4>1, ConcatEmptySeq
      <4>3. ReadAll(r) = Start /\ ReadAll(re) = Start
        BY <4>1, <4>2, ReadEmpty
      <4>4. Flush(Start) = Start
        BY DEF Flush, Start
      <4>5. QED
        BY <3>1, <4>3, <4>4
    <3>3. CASE v # <<>>
      <4>1. e # <<>> /\ ToSet(e) \subseteq {Space}
        BY <2>1, <3>3, BlanksType DEF Separator
      <4>2. ReadAll(r \o e) = Flush(ReadAll(r))
        BY <3>1, <4>1, BlankRun
      <4>3. QED
        BY <2>2, <3>1, <4>2
    <3>4. QED
      BY <3>2, <3>3
  <2>5. ReadAll(re \o a) = Grown(Done(Meanings(v)), m)
    <3>1. ReadAll(re).quote = "none"
      BY <2>4 DEF Done
    <3>2. ReadAll(re \o Written(w)) = Grown(ReadAll(re), Meaning(w))
      BY <2>0, <3>1, WordRead
    <3>3. QED
      BY <2>1, <2>4, <3>2
  <2>6. /\ Grown(Done(Meanings(v)), m).quote = "none"
        /\ Flush(Grown(Done(Meanings(v)), m)) = Done(Append(Meanings(v), m))
    <3>1. Meanings(v) \in Seq(Seq(Symbols))
      BY <2>0, MeaningsAppend
    <3>2. QED
      BY <3>1, DoneGrown
  <2>7. Meanings(Append(v, w)) = Append(Meanings(v), m)
    BY <2>0, <2>1, MeaningsAppend
  <2>8. Good(Append(v, w))
    BY <2>3, <2>5, <2>6, <2>7 DEF Good
  <2>9. Append(v, w) \in Seq(Ws)
    BY <2>0, AppendProperties
  <2>10. QED
    BY <2>8, <2>9 DEF T
<1> HIDE DEF T, Ws
<1>3. T = Seq(Ws)
  <2>1. T \in SUBSET Seq(Ws)
    BY DEF T
  <2>2. QED
    BY <1>1, <1>2, <2>1, SeqInduction
<1>4. QED
  BY <1>3 DEF T, Ws, Good

-----------------------------------------------------------------------------
(* The line that the shell prints, and what the runner takes from it.       *)

\* The minimum of a nonempty set of numbers is in it.
LEMMA MinIsLeast ==
  ASSUME NEW I \in SUBSET Nat, I # {}
  PROVE  Min(I) \in I /\ \A y \in I : Min(I) <= y
<1>1. PICK x \in I : \A y \in I : ~(y < x)
  BY LeastNat
<1>2. \A y \in I : x <= y
  BY <1>1
<1>3. QED
  BY <1>1, <1>2 DEF Min

\* What ends in something is not empty.
LEMMA ConcatNonempty ==
  ASSUME NEW S, NEW s \in Seq(S), NEW t \in Seq(S), t # <<>>
  PROVE  s \o t # <<>>
  BY ConcatEqualIffEmpty

\* What an alias is written with under PlainAliases.
Clean == Symbols \ {SQ, CSI}

\* Under PlainAliases neither a piece,
LEMMA CleanPiece ==
  ASSUME PlainAliases, NEW p \in Pieces
  PROVE  WrittenPiece(p) \in Seq(Clean) /\ WrittenPiece(p) # <<>>
<1>1. /\ p.quote \in {"none", SQ, DQ} /\ p.quote # SQ /\ p.text \in Seq(Symbols)
      /\ ToSet(p.text) \intersect {SQ, DQ, Backslash, CSI} = {}
      /\ p.quote = "none" => p.text # <<>>
  BY AliasAssumption DEF PlainAliases
<1>2. PICK u \in Seq(Clean) : u = p.text
  <2>1. PICK n \in Nat : n = Len(p.text) /\ DOMAIN p.text = 1 .. n /\ p.text \in [1 .. n -> Symbols]
    BY <1>1, LenProperties
  <2>2. \A i \in 1 .. n : p.text[i] \in Clean
    BY <1>1, <2>1 DEF Clean, ToSet
  <2>3. p.text \in [1 .. n -> Clean]
    BY <2>1, <2>2
  <2>4. p.text \in Seq(Clean)
    BY <2>3, SeqDef
  <2>5. QED
    BY <2>4
<1>3. CASE p.quote = "none"
  BY <1>1, <1>2, <1>3 DEF WrittenPiece
<1>4. CASE p.quote # "none"
  <2>1. DQ \in Clean
    BY DEF Clean, Symbols, DQ, SQ, CSI
  <2>2. PICK q \in Seq(Clean) : q = <<DQ>> /\ q # <<>>
    <3>1. <<DQ>> \in Seq(Clean) /\ <<DQ>> # <<>>
      BY <2>1
    <3>2. QED
      BY <3>1
  <2>3. PICK qu \in Seq(Clean) : qu = q \o u
    BY ConcatProperties
  <2>4. qu \o q \in Seq(Clean) /\ qu \o q # <<>>
    BY <2>2, ConcatProperties, ConcatNonempty
  <2>5. WrittenPiece(p) = (q \o u) \o q
    BY <1>1, <1>2, <1>4, <2>2 DEF WrittenPiece
  <2>6. QED
    BY <2>3, <2>4, <2>5
<1>5. QED
  BY <1>3, <1>4

\* nor a word,
LEMMA CleanWord ==
  ASSUME PlainAliases, NEW w \in Seq(Pieces)
  PROVE  Written(w) \in Seq(Clean) /\ (w # <<>> => Written(w) # <<>>)
<1>1. DOMAIN w = 1 .. Len(w) /\ Len(w) \in Nat /\ \A i \in 1 .. Len(w) : w[i] \in Pieces
  BY LenProperties, ElementOfSeq
<1>2. [i \in DOMAIN w |-> WrittenPiece(w[i])] \in Seq(Seq(Clean))
  BY <1>1, CleanPiece, SeqDef
<1>3. Written(w) \in Seq(Clean)
  BY <1>2, FlattenType DEF Written
<1>4. ASSUME w # <<>> PROVE Written(w) # <<>>
  <2>1. PICK v \in Seq(Pieces), p \in Pieces : w = Append(v, p)
    BY <1>4, SequenceEmptyOrAppend
  <2>2. Written(w) = Written(v) \o WrittenPiece(p)
    BY <2>1, WrittenAppend
  <2>3. Written(v) \in Seq(Symbols) /\ WrittenPiece(p) \in Seq(Symbols) /\ WrittenPiece(p) # <<>>
    BY WrittenType, PieceType, CleanPiece
  <2>4. QED
    BY <2>2, <2>3, ConcatNonempty
<1>5. QED
  BY <1>3, <1>4

\* nor an alias holds a single quote or an escape sequence, or is empty.
LEMMA CleanSpaced ==
  ASSUME PlainAliases, NEW n \in Nat \ {0}, NEW ws \in Seq(Seq(Pieces) \ {<<>>})
  PROVE  Spaced(ws, n) \in Seq(Clean) /\ (ws # <<>> => Spaced(ws, n) # <<>>)
<1>1. DOMAIN ws = 1 .. Len(ws) /\ Len(ws) \in Nat
      /\ \A i \in 1 .. Len(ws) : ws[i] \in Seq(Pieces)
  BY LenProperties, ElementOfSeq
<1>2. Space \in Clean
  BY DEF Clean, Symbols, Space, SQ, CSI
<1>3. Blanks(n) \in Seq(Clean) /\ <<>> \in Seq(Clean)
  BY <1>2, SeqDef, EmptySeq DEF Blanks
<1>4. ASSUME NEW i \in 1 .. Len(ws)
      PROVE  (IF i = 1 THEN <<>> ELSE Blanks(n)) \o Written(ws[i]) \in Seq(Clean)
  <2>1. (IF i = 1 THEN <<>> ELSE Blanks(n)) \in Seq(Clean)
    BY <1>3
  <2>2. Written(ws[i]) \in Seq(Clean)
    BY <1>1, CleanWord
  <2>3. QED
    BY <2>1, <2>2, ConcatProperties
<1>5. [i \in DOMAIN ws |-> (IF i = 1 THEN <<>> ELSE Blanks(n)) \o Written(ws[i])]
          \in Seq(Seq(Clean))
  BY <1>1, <1>4, SeqDef
<1>6. Spaced(ws, n) \in Seq(Clean)
  BY <1>5, FlattenType DEF Spaced
<1>7. ASSUME ws # <<>> PROVE Spaced(ws, n) # <<>>
  <2>1. PICK v \in Seq(Seq(Pieces) \ {<<>>}), w \in Seq(Pieces) \ {<<>>} : ws = Append(v, w)
    BY <1>7, SequenceEmptyOrAppend
  <2>2. v \in Seq(Seq(Pieces))
    BY SeqMonotonic
  <2>3. Spaced(ws, n) = Spaced(v, n) \o (Separator(v, n) \o Written(w))
    BY <2>1, <2>2, SpacedAppend
  <2>4. PICK a \in Seq(Symbols) : a = Written(w) /\ a # <<>>
    BY WrittenType, CleanWord
  <2>5. PICK e \in Seq(Symbols) : e = Separator(v, n)
    BY BlanksType, EmptySeq DEF Separator
  <2>6. PICK r \in Seq(Symbols) : r = Spaced(v, n)
    BY <2>2, SpacedType
  <2>7. e \o a \in Seq(Symbols) /\ e \o a # <<>>
    BY <2>4, ConcatProperties, ConcatNonempty
  <2>8. r \o (e \o a) # <<>>
    BY <2>7, ConcatNonempty
  <2>9. QED
    BY <2>3, <2>4, <2>5, <2>6, <2>8
<1>8. QED
  BY <1>6, <1>7

\* What Clean says of a text.
LEMMA CleanText ==
  ASSUME NEW s \in Seq(Clean)
  PROVE  s \in Seq(Symbols) /\ SQ \notin ToSet(s) /\ CSI \notin ToSet(s)
<1>1. s \in Seq(Symbols)
  BY SeqMonotonic DEF Clean
<1>2. \A i \in DOMAIN s : s[i] \in Clean
  BY LenProperties, ElementOfSeq
<1>3. QED
  BY <1>1, <1>2 DEF Clean, ToSet

\* Escape returns text,
LEMMA EscapeType ==
  ASSUME NEW s \in Seq(Symbols)
  PROVE  Escape(s) \in Seq(Symbols)
<1>1. DOMAIN s = 1 .. Len(s) /\ Len(s) \in Nat /\ \A i \in 1 .. Len(s) : s[i] \in Symbols
  BY LenProperties, ElementOfSeq
<1>2. <<SQ, Backslash, SQ, SQ>> \in Seq(Symbols)
  BY SymbolsAreSymbols
<1>3. \A i \in 1 .. Len(s) :
        (IF s[i] = SQ THEN <<SQ, Backslash, SQ, SQ>> ELSE <<s[i]>>) \in Seq(Symbols)
  BY <1>1, <1>2
<1>4. [i \in DOMAIN s |-> IF s[i] = SQ THEN <<SQ, Backslash, SQ, SQ>> ELSE <<s[i]>>]
        \in Seq(Seq(Symbols))
  BY <1>1, <1>3, SeqDef
<1>5. QED
  BY <1>4, FlattenType DEF Escape

\* so does SingleQuote,
LEMMA SingleQuoteType ==
  ASSUME NEW s \in Seq(Symbols)
  PROVE  SingleQuote(s) \in Seq(Symbols)
<1>1. <<SQ>> \in Seq(Symbols)
  BY SymbolsAreSymbols
<1>2. PICK q \in Seq(Symbols), e \in Seq(Symbols) : q = <<SQ>> /\ e = Escape(s)
  BY <1>1, EscapeType
<1>3. q \o e \in Seq(Symbols)
  BY ConcatProperties
<1>4. (q \o e) \o q \in Seq(Symbols)
  BY <1>3, ConcatProperties
<1>5. QED
  BY <1>2, <1>4 DEF SingleQuote

\* and Unquote.
LEMMA UnquoteType ==
  ASSUME NEW S, NEW s \in Seq(S)
  PROVE  Unquote(s) \in Seq(S)
<1>1. Len(s) \in Nat /\ \A i \in 2 .. Len(s) - 1 : s[i] \in S
  BY LenProperties, ElementOfSeq
<1>2. SubSeq(s, 2, Len(s) - 1) \in Seq(S)
  BY <1>1, SubSeqProperties
<1>3. QED
  BY <1>2 DEF Unquote

\* A subsequence, position by position.
LEMMA SubSeqIs ==
  ASSUME NEW S, NEW t \in Seq(S), NEW u \in Seq(S), NEW m \in Nat, NEW n \in Nat,
         1 <= m, m <= n, n <= Len(t), Len(u) = n - m + 1,
         \A i \in 1 .. Len(u) : u[i] = t[m + i - 1]
  PROVE  SubSeq(t, m, n) = u
<1>1. \A i \in m .. n : t[i] \in S
  <2>1. \A i \in m .. n : i \in 1 .. Len(t)
    BY LenProperties
  <2>2. QED
    BY <2>1, ElementOfSeq
<1>2. /\ SubSeq(t, m, n) \in Seq(S) /\ Len(SubSeq(t, m, n)) = n - m + 1
      /\ \A i \in 1 .. n - m + 1 : SubSeq(t, m, n)[i] = t[m + i - 1]
  BY <1>1, SubSeqProperties
<1>3. PICK v \in Seq(S) : v = SubSeq(t, m, n)
  BY <1>2
<1>4. Len(v) = Len(u) /\ \A i \in 1 .. Len(v) : v[i] = u[i]
  BY <1>2, <1>3
<1>5. v = u
  BY <1>4, SeqEqual
<1>6. QED
  BY <1>3, <1>5

\* Unquote takes off the quotes around a text,
LEMMA UnquoteQuoted ==
  ASSUME NEW s \in Seq(Symbols)
  PROVE  Unquote(<<SQ>> \o s \o <<SQ>>) = s
<1>1. PICK q \in Seq(Symbols) : q = <<SQ>> /\ Len(q) = 1 /\ q[1] = SQ
  <2>1. <<SQ>> \in Seq(Symbols) /\ Len(<<SQ>>) = 1 /\ <<SQ>>[1] = SQ
    BY SymbolsAreSymbols
  <2>2. QED
    BY <2>1
<1>2. PICK qs \in Seq(Symbols) : qs = q \o s
  BY ConcatProperties
<1>3. PICK n \in Nat : n = Len(s)
  BY LenProperties
<1>4. Len(qs) = n + 1 /\ qs[1] = SQ /\ \A i \in 1 .. n : qs[i + 1] = s[i]
  BY <1>1, <1>2, <1>3, ConcatProperties
<1>5. PICK t \in Seq(Symbols) : t = qs \o q
  BY ConcatProperties
<1>6. Len(t) = n + 2 /\ t[1] = SQ /\ t[n + 2] = SQ
  BY <1>1, <1>4, <1>5, ConcatProperties
<1>7. \A i \in 1 .. n : t[i + 1] = s[i]
  BY <1>1, <1>4, <1>5, ConcatProperties
<1>8. Unquote(t) = SubSeq(t, 2, n + 1)
  BY <1>6 DEF Unquote, Last
<1>9. SubSeq(t, 2, n + 1) = s
  <2>1. CASE n = 0
    <3>1. s = <<>>
      BY <1>3, <2>1, EmptySeq
    <3>2. SubSeq(t, 2, 1) = <<>>
      BY SubSeqEmpty
    <3>3. QED
      BY <2>1, <3>1, <3>2
  <2>2. CASE n # 0
    <3>1. PICK k \in Nat, m \in Nat : m = 2 /\ k = n + 1
      OBVIOUS
    <3>2. 1 <= m /\ m <= k /\ k <= Len(t) /\ Len(s) = k - m + 1
      BY <1>3, <1>6, <2>2, <3>1
    <3>3. \A i \in 1 .. Len(s) : s[i] = t[m + i - 1]
      BY <1>3, <1>7, <3>1
    <3>4. SubSeq(t, m, k) = s
      BY <3>2, <3>3, SubSeqIs
    <3>5. QED
      BY <3>1, <3>4
  <2>3. QED
    BY <2>1, <2>2
<1>10. QED
  BY <1>1, <1>2, <1>5, <1>8, <1>9

\* and nothing from a text without quotes.
LEMMA UnquotePlain ==
  ASSUME NEW s \in Seq(Symbols), ToSet(s) \intersect {SQ, DQ} = {}
  PROVE  Unquote(s) = s
<1>1. Len(s) \in Nat /\ DOMAIN s = 1 .. Len(s)
  BY LenProperties
<1>2. Len(s) >= 2 => s[1] \in ToSet(s)
  BY <1>1 DEF ToSet
<1>3. QED
  BY <1>2 DEF Unquote

\* The maximum of a nonempty set of numbers up to n is in it.
LEMMA MaxIsThere ==
  ASSUME NEW n \in Nat, NEW I \in SUBSET (1 .. n), I # {}
  PROVE  Max(I) \in I /\ \A y \in I : y <= Max(I)
<1> DEFINE J == {n - y : y \in I}
<1>1. J \in SUBSET Nat /\ J # {}
  <2>1. \A y \in I : n - y \in Nat
    OBVIOUS
  <2>2. QED
    BY <2>1
<1>2. PICK j \in J : \A k \in J : ~(k < j)
  BY <1>1, LeastNat
<1>3. PICK x \in I : j = n - x
  OBVIOUS
<1>4. ASSUME NEW y \in I PROVE x >= y
  <2>1. n - y \in J
    OBVIOUS
  <2> HIDE DEF J
  <2>2. ~(n - y < n - x)
    BY <1>2, <1>3, <2>1
  <2>3. QED
    BY <2>2
<1>5. Max(I) \in I /\ \A y \in I : Max(I) >= y
  BY <1>3, <1>4 DEF Max
<1>6. QED
  BY <1>5

\* Trim returns text,
LEMMA TrimType ==
  ASSUME NEW S, NEW s \in Seq(S)
  PROVE  Trim(s) \in Seq(S)
<1>1. PICK n \in Nat : n = Len(s) /\ \A i \in 1 .. n : s[i] \in S
  BY LenProperties, ElementOfSeq
<1> DEFINE I == {i \in 1 .. n : s[i] # Space}
<1>2. Trim(s) = IF I = {} THEN <<>> ELSE SubSeq(s, Min(I), Max(I))
  BY <1>1 DEF Trim
<1>3. I \in SUBSET (1 .. n) /\ I \in SUBSET Nat
  OBVIOUS
<1> HIDE DEF I
<1>4. ASSUME I # {} PROVE SubSeq(s, Min(I), Max(I)) \in Seq(S)
  <2>1. Min(I) \in 1 .. n /\ Max(I) \in 1 .. n
    BY <1>3, <1>4, MinIsLeast, MaxIsThere
  <2>2. \A i \in Min(I) .. Max(I) : s[i] \in S
    BY <1>1, <2>1
  <2>3. QED
    BY <2>1, <2>2, SubSeqProperties
<1>5. QED
  BY <1>2, <1>4, EmptySeq

\* and takes off nothing but the spaces around a text.
LEMMA TrimKeeps ==
  ASSUME NEW S, Space \in S, NEW z \in Seq({Space}), NEW a \in Seq(S), a # <<>>,
         a[1] # Space, a[Len(a)] # Space
  PROVE  Trim(z \o a) = a
<1>1. PICK zs \in Seq(S) : zs = z
  BY SeqMonotonic
<1>2. PICK n \in Nat, k \in Nat \ {0} : n = Len(z) /\ k = Len(a)
  BY LenProperties, EmptySeq
<1>3. \A i \in 1 .. n : z[i] = Space
  BY <1>2, ElementOfSeq
<1>4. PICK t \in Seq(S) : t = zs \o a
  BY ConcatProperties
<1>5. /\ Len(t) = n + k
      /\ \A i \in 1 .. n + k : t[i] = IF i <= n THEN zs[i] ELSE a[i - n]
  BY <1>1, <1>2, <1>4, ConcatProperties
<1> DEFINE I == {i \in 1 .. Len(t) : t[i] # Space}
<1>6. n + 1 \in I /\ n + k \in I /\ \A y \in I : n + 1 <= y /\ y <= n + k
  <2>1. t[n + 1] = a[1] /\ t[n + k] = a[k]
    <3>1. PICK p \in Nat, q \in Nat : p = n + 1 /\ q = n + k
      OBVIOUS
    <3>2. p \in 1 .. n + k /\ ~(p <= n) /\ p - n = 1 /\ q \in 1 .. n + k /\ ~(q <= n) /\ q - n = k
      BY <3>1
    <3>3. t[p] = a[1] /\ t[q] = a[k]
      BY <1>5, <3>2
    <3>4. QED
      BY <3>1, <3>3
  <2>2. \A i \in 1 .. n : t[i] = Space
    BY <1>1, <1>3, <1>5
  <2>3. QED
    BY <1>2, <1>5, <2>1, <2>2
<1>7. I \in SUBSET (1 .. n + k) /\ I \in SUBSET Nat /\ I # {}
  <2>1. I \in SUBSET (1 .. n + k) /\ I \in SUBSET Nat
    BY <1>5
  <2>2. I # {}
    BY <1>6
  <2>3. QED
    BY <2>1, <2>2
<1>8. Trim(t) = SubSeq(t, Min(I), Max(I))
  BY <1>7 DEF Trim
<1> HIDE DEF I
<1>9. Min(I) = n + 1 /\ Max(I) = n + k
  <2>1. Min(I) \in I /\ \A y \in I : Min(I) <= y
    BY <1>7, MinIsLeast
  <2>2. Max(I) \in I /\ \A y \in I : y <= Max(I)
    <3>1. n + k \in Nat
      OBVIOUS
    <3>2. QED
      BY <1>7, <3>1, MaxIsThere
  <2>3. Min(I) <= n + 1 /\ n + 1 <= Min(I) /\ Min(I) \in Nat
    BY <1>6, <1>7, <2>1
  <2>4. n + k <= Max(I) /\ Max(I) <= n + k /\ Max(I) \in Nat
    BY <1>6, <1>7, <2>2
  <2>5. Min(I) = n + 1
    BY <2>3
  <2>6. Max(I) = n + k
    <3>1. n + k \in Nat
      BY <1>2
    <3>2. PICK u \in Nat : u = n + k
      BY <3>1
    <3>3. PICK x \in Nat : x = Max(I)
      BY <2>4
    <3>4. u <= x /\ x <= u
      BY <2>4, <3>2, <3>3
    <3>5. u = x
      BY <3>4
    <3>6. QED
      BY <3>2, <3>3, <3>5
  <2>7. QED
    BY <2>5, <2>6
<1>10. SubSeq(t, n + 1, n + k) = a
  <2>1. PICK m \in Nat, l \in Nat : m = n + 1 /\ l = n + k
    OBVIOUS
  <2>2. Len(a) = l - m + 1 /\ 1 <= m /\ m <= l /\ l <= Len(t)
    BY <1>2, <1>5, <2>1
  <2>3. ASSUME NEW i \in 1 .. Len(a) PROVE a[i] = t[m + i - 1]
    <3>1. i \in Nat /\ 1 <= i /\ i <= k
      BY <1>2
    <3>2. PICK p \in Nat : p = n + i
      BY <3>1
    <3>3. p \in 1 .. n + k /\ ~(p <= n) /\ p - n = i /\ p = m + i - 1
      BY <2>1, <3>1, <3>2
    <3>4. t[p] = a[i]
      BY <1>5, <3>3
    <3>5. QED
      BY <3>3, <3>4
  <2>4. SubSeq(t, m, l) = a
    BY <2>2, <2>3, SubSeqIs
  <2>5. QED
    BY <2>1, <2>4
<1>11. QED
  BY <1>1, <1>4, <1>8, <1>9, <1>10

\* What a line defines is text,
LEMMA LineDefinitionType ==
  ASSUME NEW raw \in Seq(Symbols)
  PROVE  LineDefinition(raw) \in Seq(Symbols)
<1> DEFINE clean == Trim(Strip(raw))
           line == Trim(IF clean # <<>> /\ clean[1] = Prefix THEN Tail(clean) ELSE clean)
           I == {i \in 1 .. Len(line) : line[i] = Token}
           idx == IF I # {} THEN Min(I) ELSE 0
<1>1. line \in Seq(Symbols)
  <2>1. clean \in Seq(Symbols)
    BY StripType, TrimType
  <2> HIDE DEF clean
  <2>2. (IF clean # <<>> /\ clean[1] = Prefix THEN Tail(clean) ELSE clean) \in Seq(Symbols)
    BY <2>1, HeadTailProperties
  <2>3. QED
    BY <2>2, TrimType
<1>2. idx \in Nat
  <2>1. I \in SUBSET Nat
    OBVIOUS
  <2> HIDE DEF I
  <2>2. QED
    BY <2>1, MinIsLeast
<1>3. SubSeq(line, idx + 1, Len(line)) \in Seq(Symbols)
  <2> HIDE DEF line, idx
  <2>1. Len(line) \in Nat /\ \A i \in idx + 1 .. Len(line) : line[i] \in Symbols
    BY <1>1, <1>2, LenProperties, ElementOfSeq
  <2>2. QED
    BY <1>2, <2>1, SubSeqProperties
<1>4. Unquote(SubSeq(line, idx + 1, Len(line))) \in Seq(Symbols) /\ <<>> \in Seq(Symbols)
  BY <1>3, UnquoteType, EmptySeq
<1>5. QED
  BY <1>4 DEF LineDefinition, SelectInSeq

\* and so is what the output defines.
LEMMA ParseType ==
  ASSUME NEW lines \in Seq(Seq(Symbols))
  PROVE  ParseAliasDefinition(lines) \in Seq(Symbols)
<1> DEFINE I == {i \in 1 .. Len(lines) : LineDefinition(lines[i]) # <<>>}
           first == IF I # {} THEN Min(I) ELSE 0
<1>1. I \in SUBSET Nat
  BY LenProperties
<1>2. first # 0 => first \in 1 .. Len(lines)
  BY <1>1, MinIsLeast
<1>3. first # 0 => LineDefinition(lines[first]) \in Seq(Symbols)
  <2> HIDE DEF first
  <2>1. first # 0 => lines[first] \in Seq(Symbols)
    BY <1>2, ElementOfSeq
  <2>2. QED
    BY <2>1, LineDefinitionType
<1>4. QED
  BY <1>3, EmptySeq DEF ParseAliasDefinition, SelectInSeq

\* Escape sequences and spaces leave spaces.
LEMMA StripSpaces ==
  ASSUME NEW g \in Seq(Symbols), ToSet(g) \subseteq {CSI, Space}
  PROVE  Strip(g) \in Seq({Space})
<1>1. DOMAIN g = 1 .. Len(g) /\ Len(g) \in Nat /\ \A i \in 1 .. Len(g) : g[i] \in {CSI, Space}
  BY LenProperties DEF ToSet
<1>2. \A i \in 1 .. Len(g) : (IF g[i] = CSI THEN <<>> ELSE <<g[i]>>) \in Seq({Space})
  <2>1. <<Space>> \in Seq({Space}) /\ <<>> \in Seq({Space})
    BY EmptySeq
  <2>2. QED
    BY <1>1, <2>1
<1>3. [i \in DOMAIN g |-> IF g[i] = CSI THEN <<>> ELSE <<g[i]>>] \in Seq(Seq({Space}))
  BY <1>1, <1>2, SeqDef
<1>4. QED
  BY <1>3, FlattenType DEF Strip

\* The shell's answer, with and without bash's prefix: what the search for the
\* name starts from.
LEMMA AnswerText ==
  ASSUME NEW v \in Seq(Symbols), CSI \notin ToSet(v), v # <<>>, v[Len(v)] # Space,
         NEW head \in {<<Prefix, Token>>, <<Token>>}
  PROVE  \E n \in Nat, a \in Seq(Symbols), l \in Seq(Symbols) :
            /\ n = Len(v) /\ a = head \o v /\ CSI \notin ToSet(a) /\ a # <<>>
            /\ a[1] # Space /\ a[Len(a)] # Space
            /\ l = IF a[1] = Prefix THEN Tail(a) ELSE a
            /\ Len(l) = n + 1 /\ l[1] = Token
            /\ \A i \in 1 .. n : l[i + 1] = v[i]
<1>0. Space \notin {Prefix, Token}
  BY DEF Space, Prefix, Token
<1>1. PICK n \in Nat : n = Len(v) /\ DOMAIN v = 1 .. n /\ \A i \in 1 .. n : v[i] # CSI
  BY LenProperties DEF ToSet
<1>2. head \in Seq(Symbols) /\ Len(head) \in {1, 2}
  <2>1. <<Prefix, Token>> \in Seq(Symbols) /\ <<Token>> \in Seq(Symbols)
    BY SymbolsAreSymbols
  <2>2. QED
    BY <2>1
<1>3. /\ head = <<Prefix, Token>> => Len(head) = 2 /\ head[1] = Prefix /\ head[2] = Token
      /\ head = <<Token>> => Len(head) = 1 /\ head[1] = Token
  OBVIOUS
<1>4. PICK k \in Nat : k = Len(head)
  BY <1>2
<1>5. PICK a \in Seq(Symbols) : a = head \o v
  BY <1>2, ConcatProperties
<1>6. /\ Len(a) = k + n
      /\ \A i \in 1 .. k + n : a[i] = IF i <= k THEN head[i] ELSE v[i - k]
  BY <1>1, <1>2, <1>4, <1>5, ConcatProperties
<1>7. a # <<>> /\ CSI \notin ToSet(a)
  <2>1. DOMAIN a = 1 .. k + n
    BY <1>6, LenProperties
  <2>2. \A i \in 1 .. k : head[i] \in {Prefix, Token}
    BY <1>3, <1>4
  <2>3. \A i \in 1 .. k + n : a[i] # CSI
    <3>1. CSI \notin {Prefix, Token}
      BY DEF CSI, Prefix, Token
    <3>2. QED
      BY <1>1, <1>6, <2>2, <3>1
  <2>4. QED
    BY <1>2, <1>4, <1>6, <2>1, <2>3 DEF ToSet
<1>8. a[Len(a)] # Space
  <2>1. n # 0
    BY <1>1, EmptySeq
  <2>2. PICK p \in Nat : p = k + n
    OBVIOUS
  <2>3. p \in 1 .. k + n /\ ~(p <= k) /\ p - k = n
    BY <2>1, <2>2
  <2>4. a[p] = v[n] /\ Len(a) = p
    BY <1>6, <2>2, <2>3
  <2>5. QED
    BY <1>1, <2>4
<1>9. CASE head = <<Prefix, Token>>
  <2>1. k = 2 /\ a[1] = Prefix /\ a[2] = Token
    BY <1>3, <1>4, <1>6, <1>9
  <2>2. PICK l \in Seq(Symbols) : l = Tail(a) /\ Len(l) = n + 1
                                  /\ \A i \in 1 .. n + 1 : l[i] = a[i + 1]
    <3>1. /\ Tail(a) \in Seq(Symbols) /\ Len(Tail(a)) = Len(a) - 1
          /\ \A i \in 1 .. Len(Tail(a)) : Tail(a)[i] = a[i + 1]
      BY <1>7, HeadTailProperties
    <3>2. Len(a) - 1 = n + 1
      BY <1>6, <2>1
    <3>3. QED
      BY <3>1, <3>2
  <2>3. l[1] = Token /\ \A i \in 1 .. n : l[i + 1] = v[i]
    BY <1>6, <2>1, <2>2
  <2>4. a[1] # Space /\ l = IF a[1] = Prefix THEN Tail(a) ELSE a
    BY <1>0, <2>1, <2>2
  <2>5. QED
    BY <1>1, <1>5, <1>7, <1>8, <2>2, <2>3, <2>4
<1>10. CASE head = <<Token>>
  <2>1. k = 1 /\ a[1] = Token
    BY <1>3, <1>4, <1>6, <1>10
  <2>2. a[1] # Prefix
    BY <2>1 DEF Token, Prefix
  <2>3. Len(a) = n + 1 /\ \A i \in 1 .. n : a[i + 1] = v[i]
    BY <1>6, <2>1
  <2>4. QED
    BY <1>0, <1>1, <1>5, <1>7, <1>8, <2>1, <2>2, <2>3
<1>11. QED
  BY <1>9, <1>10

\* A line that is the shell's answer defines its value, unquoted.
LEMMA AnswerLine ==
  ASSUME NEW g \in Seq(Symbols), ToSet(g) \subseteq {CSI, Space},
         NEW v \in Seq(Symbols), CSI \notin ToSet(v), v # <<>>, v[Len(v)] # Space,
         NEW head \in {<<Prefix, Token>>, <<Token>>}
  PROVE  LineDefinition(g \o (head \o v)) = Unquote(v)
<1>1. PICK n \in Nat, a \in Seq(Symbols), l \in Seq(Symbols) :
            /\ n = Len(v) /\ a = head \o v /\ CSI \notin ToSet(a) /\ a # <<>>
            /\ a[1] # Space /\ a[Len(a)] # Space
            /\ l = IF a[1] = Prefix THEN Tail(a) ELSE a
            /\ Len(l) = n + 1 /\ l[1] = Token
            /\ \A i \in 1 .. n : l[i + 1] = v[i]
  BY AnswerText
<1>2. Trim(Strip(g \o a)) = a
  <2>1. Strip(a) = a
    BY <1>1, StripKeeps
  <2>2. Strip(g \o a) = Strip(g) \o Strip(a)
    BY StripConcat
  <2>3. Strip(g) \in Seq({Space})
    BY StripSpaces
  <2>4. Trim(Strip(g) \o a) = a
    BY <1>1, <2>3, SymbolsAreSymbols, TrimKeeps
  <2>5. QED
    BY <2>1, <2>2, <2>4
<1>3. Trim(l) = l
  <2>1. l # <<>> /\ l[1] # Space
    <3>1. Len(l) # 0
      BY <1>1
    <3>2. l # <<>>
      BY <3>1, EmptySeq
    <3>3. Token # Space
      BY DEF Token, Space
    <3>4. QED
      BY <1>1, <3>2, <3>3
  <2>2. l[Len(l)] # Space
    <3>1. n \in 1 .. n
      BY <1>1, EmptySeq
    <3>2. l[n + 1] = v[n]
      BY <1>1, <3>1
    <3>3. QED
      BY <1>1, <3>2
  <2>3. <<>> \in Seq({Space}) /\ <<>> \o l = l
    BY EmptySeq, ConcatEmptySeq
  <2>4. Trim(<<>> \o l) = l
    BY <2>1, <2>2, <2>3, SymbolsAreSymbols, TrimKeeps
  <2>5. QED
    BY <2>3, <2>4
<1> DEFINE I == {i \in 1 .. Len(l) : l[i] = Token}
           idx == IF I # {} THEN Min(I) ELSE 0
<1>4. idx = 1
  <2>1. I \in SUBSET Nat /\ 1 \in I /\ \A i \in I : 1 <= i
    BY <1>1
  <2> HIDE DEF I
  <2>2. I # {} /\ Min(I) \in I /\ Min(I) <= 1
    BY <2>1, MinIsLeast
  <2>3. Min(I) \in Nat /\ 1 <= Min(I)
    BY <2>1, <2>2
  <2>4. Min(I) = 1
    BY <2>2, <2>3
  <2>5. QED
    BY <2>2, <2>4
<1>5. LineDefinition(g \o a) = Unquote(SubSeq(l, 2, n + 1))
  <2> DEFINE c == Trim(Strip(g \o a))
             line == Trim(IF c # <<>> /\ c[1] = Prefix THEN Tail(c) ELSE c)
             J == {i \in 1 .. Len(line) : line[i] = Token}
             j == IF J # {} THEN Min(J) ELSE 0
  <2>1. LineDefinition(g \o a) =
            IF j = 0 \/ (j > 1 /\ IsWordByte(line[j - 1])) THEN <<>>
            ELSE Unquote(SubSeq(line, j + 1, Len(line)))
    BY DEF LineDefinition, SelectInSeq
  <2>2. line = l
    BY <1>1, <1>2, <1>3
  <2> HIDE DEF line
  <2>3. j = idx
    BY <2>2
  <2> HIDE DEF j, idx
  <2>4. QED
    BY <1>1, <1>4, <2>1, <2>2, <2>3
<1>6. SubSeq(l, 2, n + 1) = v
  <2>1. PICK k \in Nat, m \in Nat : m = 2 /\ k = n + 1
    OBVIOUS
  <2>2. 1 <= m /\ m <= k /\ k <= Len(l) /\ Len(v) = k - m + 1
    BY <1>1, <2>1, EmptySeq
  <2>3. \A i \in 1 .. Len(v) : v[i] = l[m + i - 1]
    BY <1>1, <2>1
  <2>4. SubSeq(l, m, k) = v
    BY <2>2, <2>3, SubSeqIs
  <2>5. QED
    BY <2>1, <2>4
<1>7. QED
  BY <1>1, <1>5, <1>6

\* The first line that defines the name decides.
LEMMA ParseAnswer ==
  ASSUME NEW lines \in Seq(Seq(Symbols)), NEW raw \in Seq(Symbols),
         \A i \in DOMAIN lines : LineDefinition(lines[i]) = <<>>,
         LineDefinition(raw) # <<>>
  PROVE  ParseAliasDefinition(Append(lines, raw)) = LineDefinition(raw)
<1>1. PICK n \in Nat, t \in Seq(Seq(Symbols)) : Longer(Seq(Symbols), lines, raw, n, t)
  BY Positions
<1>2. /\ t = Append(lines, raw) /\ Len(t) = n + 1 /\ t[n + 1] = raw
      /\ \A i \in 1 .. n : LineDefinition(t[i]) = <<>>
  <2>1. /\ t = Append(lines, raw) /\ n = Len(lines) /\ t[n + 1] = raw
        /\ DOMAIN lines = 1 .. n /\ \A i \in 1 .. n : t[i] = lines[i]
    BY <1>1 DEF Longer
  <2>2. Len(t) = n + 1
    BY <2>1, AppendProperties
  <2>3. QED
    BY <2>1, <2>2
<1> DEFINE I == {i \in 1 .. Len(t) : LineDefinition(t[i]) # <<>>}
           first == IF I # {} THEN Min(I) ELSE 0
<1>3. first = n + 1
  <2>1. I \in SUBSET Nat /\ n + 1 \in I
    BY <1>2
  <2>2. \A i \in I : i = n + 1
    BY <1>2
  <2> HIDE DEF I
  <2>3. Min(I) \in I
    BY <2>1, MinIsLeast
  <2>4. QED
    BY <2>1, <2>2, <2>3
<1>4. ParseAliasDefinition(t) = IF first = 0 THEN <<>> ELSE LineDefinition(t[first])
  BY DEF ParseAliasDefinition, SelectInSeq
<1> HIDE DEF first
<1>5. QED
  BY <1>2, <1>3, <1>4

-----------------------------------------------------------------------------
(* The answer of the shell. *)

\* Bounded sequences are sequences.
LEMMA BoundedSeqType ==
  ASSUME NEW S, NEW n \in Nat
  PROVE  BoundedSeq(S, n) \subseteq Seq(S)
  BY SeqDef DEF BoundedSeq, SeqOf

\* The user's world, typed.
LEMMA WorldType ==
  ASSUME world \in World
  PROVE  /\ world.words \in Seq(Seq(Pieces) \ {<<>>}) /\ world.gap \in Nat \ {0}
         /\ world.style \in {"bash", "zsh", "none"}
         /\ world.chatter \in Chatter /\ world.onPath \in BOOLEAN
         /\ world.chatter.lines \in Seq(Seq(Symbols)) /\ world.chatter.glued \in Seq(Symbols)
<1>1. /\ world.words \in BoundedSeq(Word, MaxWords) /\ world.gap \in 1 .. 2
      /\ world.style \in {"bash", "zsh", "none"}
      /\ world.chatter \in Chatter /\ world.onPath \in BOOLEAN
  BY DEF World
<1>2. Word \subseteq Seq(Pieces) \ {<<>>}
  BY BoundedSeqType, AliasAssumption DEF Word
<1>3. world.words \in Seq(Word)
  BY <1>1, BoundedSeqType, AliasAssumption
<1>4. world.words \in Seq(Seq(Pieces) \ {<<>>})
  BY <1>2, <1>3, SeqMonotonic
<1>5. world.chatter.lines \in Seq(Seq(Symbols)) /\ world.chatter.glued \in Seq(Symbols)
  BY <1>1, AliasAssumption
<1>6. QED
  BY <1>1, <1>4, <1>5

\* What the shell writes is lines of symbols.
LEMMA OutputType ==
  ASSUME world \in World
  PROVE  /\ Value \in Seq(Symbols)
         /\ world.chatter.glued \o Answer \in Seq(Symbols)
         /\ Output \in Seq(Seq(Symbols))
<1>1. world.words \in Seq(Seq(Pieces)) /\ world.gap \in Nat \ {0}
  BY WorldType, SeqMonotonic
<1>2. Body \in Seq(Symbols)
  BY <1>1, SpacedType DEF Body
<1>3. Value \in Seq(Symbols)
  BY <1>2, SingleQuoteType DEF Value
<1>4. <<Prefix, Token>> \in Seq(Symbols) /\ <<Token>> \in Seq(Symbols)
  BY SymbolsAreSymbols
<1>5. Answer \in Seq(Symbols)
  BY <1>3, <1>4, ConcatProperties DEF Answer
<1>6. world.chatter.glued \o Answer \in Seq(Symbols)
  BY <1>5, WorldType, ConcatProperties
<1>7. Output \in Seq(Seq(Symbols))
  BY <1>6, WorldType, AppendProperties DEF Output
<1>8. QED
  BY <1>3, <1>6, <1>7

\* The parser takes the alias's text out of what the shell writes.
LEMMA OutputParsed ==
  ASSUME PlainAliases, world \in World, world.words # <<>>
  PROVE  ParseAliasDefinition(Output) = Body
<1>1. PICK b \in Seq(Symbols) :
        b = Body /\ b # <<>> /\ SQ \notin ToSet(b) /\ CSI \notin ToSet(b)
  BY WorldType, CleanSpaced, CleanText DEF Body
<1>2. PICK v \in Seq(Symbols) : v = Value
  BY OutputType
<1>3. CSI \notin ToSet(v) /\ Unquote(v) = b
  <2>1. CASE v = b /\ ToSet(b) \intersect {SQ, DQ} = {}
    BY <1>1, <2>1, UnquotePlain
  <2>2. CASE v = SingleQuote(b)
    <3>1. v = <<SQ>> \o b \o <<SQ>>
      BY <1>1, <2>2, EscapeKeeps DEF SingleQuote
    <3>2. Unquote(v) = b
      BY <1>1, <3>1, UnquoteQuoted
    <3>3. CSI \notin ToSet(v)
      <4>1. SQ \in Symbols \ {CSI}
        BY DEF Symbols, SQ, CSI
      <4>2. <<SQ>> \in Seq(Symbols \ {CSI})
        BY <4>1
      <4>3. b \in Seq(Symbols \ {CSI})
        BY WorldType, CleanSpaced, <1>1, SeqMonotonic DEF Body, Clean
      <4>4. v \in Seq(Symbols \ {CSI})
        <5>1. <<SQ>> \o b \in Seq(Symbols \ {CSI})
          BY <4>2, <4>3, ConcatProperties
        <5>2. (<<SQ>> \o b) \o <<SQ>> \in Seq(Symbols \ {CSI})
          BY <4>2, <5>1, ConcatProperties
        <5>3. QED
          BY <3>1, <5>2
      <4>5. \A i \in DOMAIN v : v[i] \in Symbols \ {CSI}
        BY <4>4, LenProperties, ElementOfSeq
      <4>6. QED
        BY <4>5 DEF ToSet
    <3>4. QED
      BY <3>2, <3>3
  <2>3. QED
    BY <1>1, <1>2, <2>1, <2>2 DEF Value
<1>4. v # <<>> /\ v[Len(v)] # Space
  <2>1. CASE v = b /\ Space \notin ToSet(b)
    <3>1. DOMAIN b = 1 .. Len(b) /\ Len(b) \in Nat \ {0}
      BY <1>1, LenProperties, EmptySeq
    <3>2. Len(b) \in DOMAIN b
      BY <3>1
    <3>3. b[Len(b)] \in ToSet(b)
      BY <3>2 DEF ToSet
    <3>4. QED
      BY <1>1, <2>1, <3>3
  <2>2. CASE v = SingleQuote(b)
    <3>1. PICK q \in Seq(Symbols), e \in Seq(Symbols) : q = <<SQ>> /\ e = <<SQ>> \o Escape(b)
      <4>1. <<SQ>> \in Seq(Symbols)
        BY SymbolsAreSymbols
      <4>2. <<SQ>> \o Escape(b) \in Seq(Symbols)
        BY <4>1, EscapeType, ConcatProperties
      <4>3. QED
        BY <4>1, <4>2
    <3>2. v = e \o q
      BY <2>2, <3>1 DEF SingleQuote
    <3>3. Len(q) = 1 /\ q[1] = SQ
      BY <3>1
    <3>4. PICK n \in Nat : n = Len(e)
      BY LenProperties
    <3>5. Len(v) = n + 1 /\ v[n + 1] = SQ
      <4>1. PICK w \in Seq(Symbols) : w = e \o q
        BY ConcatProperties
      <4>2. Len(w) = n + 1 /\ \A i \in 1 .. n + 1 : w[i] = IF i <= n THEN e[i] ELSE q[i - n]
        <5>1. /\ Len(w) = Len(e) + Len(q)
              /\ \A i \in 1 .. Len(e) + Len(q) : w[i] = IF i <= Len(e) THEN e[i] ELSE q[i - Len(e)]
          BY <4>1, ConcatProperties
        <5>2. QED
          BY <3>3, <3>4, <5>1
      <4>3. PICK m \in Nat : m = n + 1
        OBVIOUS
      <4>4. m \in 1 .. n + 1 /\ ~(m <= n) /\ m - n = 1
        BY <4>3
      <4>5. w[m] = SQ
        BY <3>3, <4>2, <4>4
      <4>6. QED
        BY <3>2, <4>1, <4>2, <4>3, <4>5
    <3>6. v # <<>> /\ SQ # Space
      BY <3>5, EmptySeq DEF SQ, Space
    <3>7. QED
      BY <3>5, <3>6
  <2>3. QED
    BY <1>1, <1>2, <2>1, <2>2 DEF Value
<1>5. PICK head \in {<<Prefix, Token>>, <<Token>>} : Answer = head \o v
  BY <1>2 DEF Answer
<1>6. PICK g \in Seq(Symbols) : g = world.chatter.glued /\ ToSet(g) \subseteq {CSI, Space}
  BY WorldType DEF PlainAliases
<1>7. LineDefinition(g \o (head \o v)) = b
  BY <1>3, <1>6, <1>4, AnswerLine
<1>8. PICK raw \in Seq(Symbols) : raw = world.chatter.glued \o Answer
  BY OutputType
<1>9. LineDefinition(raw) = b
  BY <1>5, <1>6, <1>7, <1>8
<1>10. PICK lines \in Seq(Seq(Symbols)) :
        lines = world.chatter.lines /\ \A i \in DOMAIN lines : LineDefinition(lines[i]) = <<>>
  BY WorldType DEF PlainAliases
<1>11. ParseAliasDefinition(Append(lines, raw)) = b
  BY <1>1, <1>9, <1>10, ParseAnswer
<1>12. QED
  BY <1>1, <1>8, <1>10, <1>11 DEF Output

\* resolve.go:85-190 on an answer of the shell: whatever the words of the
\* alias, however long and however they are spaced and double-quoted, what the
\* runner reads from the printed text is the words, one by one.
THEOREM AliasTextSurvives ==
  ASSUME PlainAliases, world \in World, world.words # <<>>
  PROVE  SplitArgs(ParseAliasDefinition(Output)) =
            [i \in DOMAIN world.words |-> Meaning(world.words[i])]
<1>1. ParseAliasDefinition(Output) = Spaced(world.words, world.gap)
  BY OutputParsed DEF Body
<1>2. Flush(ReadAll(Spaced(world.words, world.gap))) = Done(Meanings(world.words))
  BY WorldType, SpacedRead
<1>3. QED
  BY <1>1, <1>2 DEF SplitArgs, Done, Meanings

-----------------------------------------------------------------------------
(* The lookup. *)

\* resolve.go:42-60: when the shell is asked at all.
ShellIsAsked == ~ world.onPath /\ world.style # "none"

\* What an answered lookup expands to.
Expands == Tokens # <<>> /\ Tokens[1] \in Programs

\* The types.
LookupTypes ==
    /\ world \in World
    /\ pc \in {"lookPath", "asked", "answered", "found", "failed"}
    /\ shell \in {"off", "running", "exited", "killed"}
    /\ program \in BOOLEAN
    /\ out \in Seq(Seq(Symbols))

\* The shell is asked for a name that is not on PATH, and what it wrote stays
\* as it was when it exited.
ShellHistory ==
    /\ pc = "lookPath" => shell = "off"
    /\ pc \in {"asked", "answered"} => shell # "off"
    /\ shell = "running" => pc = "asked"
    /\ shell # "off" => ShellIsAsked
    /\ shell = "exited" =>
        out = IF world.words = <<>> THEN world.chatter.lines ELSE Output

\* The shell has told what the alias is.
Answered == shell = "exited" /\ world.words # <<>>

\* How a lookup ended.
Outcome ==
    /\ pc = "answered" => Answered
    /\ pc = "found" /\ world.onPath => argv = <<<<Token>>>> \o OwnArgs
    /\ pc = "found" /\ ~ world.onPath => Answered /\ Expands /\ argv = Tokens \o OwnArgs
    /\ pc = "failed" =>
        /\ ~ world.onPath
        /\ \/ world.style = "none" \/ world.words = <<>> \/ shell = "killed"
           \/ Answered /\ ~ Expands

\* The inductive invariant.
LookupInv == LookupTypes /\ ShellHistory /\ Outcome

\* It holds when the lookup starts,
LEMMA LookupInit ==
  ASSUME Init PROVE LookupInv
  BY EmptySeq DEF Init, LookupInv, LookupTypes, ShellHistory, Outcome

\* and every step keeps it.
LEMMA LookupStep ==
  ASSUME LookupInv, [Next]_vars PROVE LookupInv'
<1> USE DEF LookupInv, LookupTypes, ShellHistory, ShellIsAsked, Outcome, Answered
<1>0. /\ out' = out => Tokens' = Tokens /\ (Expands' <=> Expands)
      /\ world' = world => Output' = Output
  BY DEF Tokens, Expands, Output, Answer, Value, Body
<1>1. CASE LookPath
  BY <1>0, <1>1 DEF LookPath
<1>2. CASE NoShell
  BY <1>0, <1>2 DEF NoShell
<1>3. CASE Ask
  BY <1>0, <1>3 DEF Ask
<1>4. CASE ShellExits
  <2>1. out' \in Seq(Seq(Symbols))
    BY <1>4, OutputType, WorldType DEF ShellExits
  <2>2. QED
    BY <1>0, <1>4, <2>1 DEF ShellExits
<1>5. CASE ProgramExits
  BY <1>0, <1>5 DEF ProgramExits
<1>6. CASE Timeout
  BY <1>0, <1>6 DEF Timeout
<1>7. CASE Return
  BY <1>0, <1>7 DEF Return
<1>8. CASE Expand
  BY <1>0, <1>8 DEF Expand, Expands
<1>9. CASE Resolved \/ UNCHANGED vars
  BY <1>0, <1>9 DEF Resolved, vars
<1>10. QED
  BY <1>1, <1>2, <1>3, <1>4, <1>5, <1>6, <1>7, <1>8, <1>9 DEF Next

\* In every state the lookup, the shell and what it wrote agree.
THEOREM LookupIsKept == Spec => []LookupInv
<1>1. Init => LookupInv
  BY LookupInit
<1>2. LookupInv /\ [Next]_vars => LookupInv'
  BY LookupStep
<1>3. QED
  BY <1>1, <1>2, PTL DEF Spec

\* The expansion is a sequence of words.
LEMMA TokensType ==
  ASSUME LookupInv PROVE Tokens \in Seq(Seq(Symbols))
<1>1. ParseAliasDefinition(out) \in Seq(Symbols)
  BY ParseType DEF LookupInv, LookupTypes
<1>2. QED
  BY <1>1, SplitArgsType DEF Tokens

\* resolve.go:40-69: the types; what is started was looked up, on PATH or as the
\* first word of the alias, whatever the shell wrote.
THEOREM TypeCorrect == Spec => []TypeOK
<1>1. LookupInv => TypeOK
  <2> SUFFICES ASSUME LookupInv PROVE TypeOK
    OBVIOUS
  <2>1. ASSUME pc = "found", world.onPath PROVE argv[1] = <<Token>>
    <3>1. <<<<Token>>>> \in Seq(Seq(Symbols)) /\ OwnArgs \in Seq(Seq(Symbols))
      BY SymbolsAreSymbols, AliasAssumption
    <3>2. (<<<<Token>>>> \o OwnArgs)[1] = <<<<Token>>>>[1]
      BY <3>1, ConcatProperties
    <3>3. QED
      BY <2>1, <3>2 DEF LookupInv, Outcome
  <2>2. ASSUME pc = "found", ~ world.onPath PROVE argv[1] \in Programs
    <3>1. Tokens # <<>> /\ Tokens[1] \in Programs /\ argv = Tokens \o OwnArgs
      BY <2>2 DEF LookupInv, Outcome, Expands
    <3>2. (Tokens \o OwnArgs)[1] = Tokens[1]
      BY <3>1, TokensType, AliasAssumption, ConcatProperties, EmptySeq
    <3>3. QED
      BY <3>1, <3>2
  <2>3. QED
    BY <2>1, <2>2 DEF LookupInv, LookupTypes, TypeOK
<1>2. QED
  BY <1>1, LookupIsKept, PTL

\* Once the shell has answered, the expansion is the alias as it is meant.
LEMMA AnsweredTokens ==
  ASSUME PlainAliases, LookupInv, Answered
  PROVE  /\ Tokens = [i \in DOMAIN world.words |-> Meaning(world.words[i])]
         /\ Tokens # <<>>
<1>1. Tokens = [i \in DOMAIN world.words |-> Meaning(world.words[i])]
  BY AliasTextSurvives DEF LookupInv, LookupTypes, ShellHistory, Answered, Tokens
<1>2. DOMAIN world.words # {}
  <2>1. PICK ws \in Seq(Seq(Pieces) \ {<<>>}) : ws = world.words /\ ws # <<>>
    BY WorldType DEF Answered, LookupInv, LookupTypes
  <2>2. DOMAIN ws = 1 .. Len(ws) /\ Len(ws) \in Nat \ {0}
    BY <2>1, LenProperties, EmptySeq
  <2>3. 1 \in DOMAIN ws
    BY <2>2
  <2>4. QED
    BY <2>1, <2>3
<1>3. QED
  BY <1>1, <1>2

\* README.md:295, resolve.go:152-155: what is started for an alias is what the
\* user means by it, whatever its words and however many, if the alias is one
\* of those that the quoting of the runner can read.
THEOREM StartsWhatIsMeant == ASSUME PlainAliases PROVE Spec => []RunsTheAlias
<1>1. LookupInv => RunsTheAlias
  BY AnsweredTokens DEF LookupInv, Outcome, RunsTheAlias, Meant
<1>2. QED
  BY <1>1, LookupIsKept, PTL

\* resolve.go:42-69: the runner gives a name up for one of the reasons it has.
THEOREM GivesUpForAReason == ASSUME PlainAliases PROVE Spec => []FailsOnlyWhenMust
<1>1. LookupInv => FailsOnlyWhenMust
  <2> SUFFICES ASSUME LookupInv, pc = "failed", Answered, ~ Expands PROVE Meant[1] \notin Programs
    BY DEF LookupInv, Outcome, FailsOnlyWhenMust
  <2>1. Tokens # <<>> /\ Meant = Tokens \o OwnArgs /\ Tokens[1] \notin Programs
    BY AnsweredTokens DEF Meant, Expands
  <2>2. (Tokens \o OwnArgs)[1] = Tokens[1]
    BY <2>1, TokensType, AliasAssumption, ConcatProperties, EmptySeq
  <2>3. QED
    BY <2>1, <2>2
<1>2. QED
  BY <1>1, LookupIsKept, PTL
=============================================================================
