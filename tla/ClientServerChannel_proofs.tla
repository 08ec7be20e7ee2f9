----------------------- MODULE ClientServerChannel_proofs -----------------------
(***************************************************************************)
(* The connection is a channel of whole messages, however its stream is    *)
(* cut.  Most of this is about data: lengths as varints, and messages in a *)
(* stream of bytes, which are defined by recursion.  So the module begins  *)
(* with recursion and induction themselves, for a domain with a size.  The *)
(* library has them with operators as parameters, which the provers cannot *)
(* instantiate; here they have functions and sets.                         *)
(***************************************************************************)
EXTENDS ClientServerChannel, SequenceTheorems, WellFoundedInduction, TLAPS

(* A non-empty set of naturals has a least element. *)
LEMMA LeastOf ==
    ASSUME NEW T, T \subseteq Nat, T # {}
    PROVE  \E x \in T : \A y \in T : x <= y
<1>1. \E x \in T : \A y \in T : ~ (<<y, x>> \in OpToRel(<, Nat))
  BY WFMin, NatLessThanWellFounded
<1>2. PICK x \in T : \A y \in T : ~ (<<y, x>> \in OpToRel(<, Nat))
  BY <1>1
<1>3. \A y \in T : ~ (y < x)
  BY <1>2 DEF OpToRel
<1> QED BY <1>3

(* P holds of an argument if it holds of all smaller ones. *)
Inductive(D, size, P) ==
    /\ size \in [D -> Nat]
    /\ \A x \in D : (\A y \in D : size[y] < size[x] => y \in P) => x \in P

LEMMA SizeInduction ==
    ASSUME NEW D, NEW size, NEW P, Inductive(D, size, P)
    PROVE  \A x \in D : x \in P
<1>1. SUFFICES ASSUME D \ P # {} PROVE FALSE
  OBVIOUS
<1> DEFINE sizes == {size[x] : x \in D \ P}
<1>2. sizes \subseteq Nat /\ sizes # {}
  BY <1>1 DEF Inductive
<1>3. PICK n \in sizes : \A m \in sizes : n <= m
  <2> HIDE DEF sizes
  <2> QED BY <1>2, LeastOf
<1>4. PICK x \in D \ P : size[x] = n
  BY <1>3
<1>5. ASSUME NEW y \in D, size[y] < size[x], y \notin P PROVE FALSE
  <2>1. size[y] \in sizes /\ size[y] \in Nat /\ size[x] \in Nat
    BY <1>5 DEF Inductive
  <2>2. n <= size[y]
    <3> HIDE DEF sizes
    <3> QED BY <1>3, <2>1
  <2> HIDE DEF sizes
  <2> QED BY <1>4, <1>5, <2>1, <2>2
<1> QED BY <1>4, <1>5 DEF Inductive

(* The equation f = step[f] defines f by its values for smaller arguments. *)
Recursion(D, T, size, step) ==
    /\ T # {}
    /\ size \in [D -> Nat]
    /\ step \in [[D -> T] -> [D -> T]]
    /\ \A f, g \in [D -> T], x \in D :
          (\A y \in D : size[y] < size[x] => f[y] = g[y]) => step[f][x] = step[g][x]

LEMMA RecursionDefines ==
    ASSUME NEW D, NEW T, NEW size, NEW step, Recursion(D, T, size, step)
    PROVE  \E f \in [D -> T] : f = step[f]
<1>0. /\ T # {}
      /\ size \in [D -> Nat]
      /\ step \in [[D -> T] -> [D -> T]]
      /\ \A f, g \in [D -> T], x \in D :
            (\A y \in D : size[y] < size[x] => f[y] = g[y]) => step[f][x] = step[g][x]
  BY DEF Recursion
<1> USE <1>0
<1> DEFINE Good(f, n) == \A x \in D : size[x] < n => f[x] = step[f][x]
<1>1. \A n \in Nat, f, g \in [D -> T] :
         Good(f, n) /\ Good(g, n) => \A x \in D : size[x] < n => f[x] = g[x]
  <2> SUFFICES ASSUME NEW n \in Nat, NEW f \in [D -> T], NEW g \in [D -> T],
                      Good(f, n), Good(g, n)
               PROVE  \A x \in D : size[x] < n => f[x] = g[x]
    OBVIOUS
  <2> DEFINE P == {x \in D : size[x] < n => f[x] = g[x]}
  <2>1. ASSUME NEW x \in D, \A y \in D : size[y] < size[x] => y \in P
        PROVE  x \in P
    <3> SUFFICES ASSUME size[x] < n PROVE f[x] = g[x]
      OBVIOUS
    <3>1. \A y \in D : size[y] < size[x] => f[y] = g[y]
      BY <2>1
    <3>2. step[f][x] = step[g][x]
      BY <3>1
    <3> QED BY <3>2
  <2>2. Inductive(D, size, P)
    <3> HIDE DEF P
    <3> QED BY <2>1 DEF Inductive
  <2>3. \A x \in D : x \in P
    <3> HIDE DEF P
    <3> QED BY <2>2, SizeInduction
  <2> QED BY <2>3
<1>2. \A n \in Nat : \E f \in [D -> T] : Good(f, n)
  <2> DEFINE Q == {n \in Nat : \E f \in [D -> T] : Good(f, n)}
             id == [n \in Nat |-> n]
  <2>1. 0 \in Q
    <3>1. PICK t \in T : TRUE
      OBVIOUS
    <3>2. [x \in D |-> t] \in [D -> T] /\ Good([x \in D |-> t], 0)
      OBVIOUS
    <3> QED BY <3>2
  <2>2. ASSUME NEW n \in Nat, n \in Q PROVE n + 1 \in Q
    <3>1. PICK f \in [D -> T] : Good(f, n)
      BY <2>2
    <3>2. step[f] \in [D -> T]
      OBVIOUS
    <3>3. ASSUME NEW x \in D, size[x] < n + 1
          PROVE  step[f][x] = step[step[f]][x]
      <4>1. \A y \in D : size[y] < size[x] => f[y] = step[f][y]
        BY <3>1, <3>3
      <4> QED BY <3>2, <4>1
    <3>4. Good(step[f], n + 1)
      BY <3>3
    <3> QED BY <3>2, <3>4
  <2>3. ASSUME NEW n \in Nat, \A m \in Nat : id[m] < id[n] => m \in Q
        PROVE  n \in Q
    <3>1. CASE n = 0
      BY <2>1, <3>1
    <3>2. CASE n # 0
      <4>1. n - 1 \in Nat /\ n - 1 < n /\ (n - 1) + 1 = n
        BY <3>2
      <4>2. n - 1 \in Q
        <5> HIDE DEF Q
        <5> QED BY <2>3, <4>1
      <4> HIDE DEF Q
      <4> QED BY <2>2, <4>1, <4>2
    <3> QED BY <3>1, <3>2
  <2>4. id \in [Nat -> Nat]
    OBVIOUS
  <2>5. Inductive(Nat, id, Q)
    <3> HIDE DEF Q, id
    <3> QED BY <2>3, <2>4 DEF Inductive
  <2>6. \A n \in Nat : n \in Q
    <3> HIDE DEF Q, id
    <3> QED BY <2>5, SizeInduction
  <2> QED BY <2>6
<1> DEFINE approx(n) == CHOOSE f \in [D -> T] : Good(f, n)
           h == [x \in D |-> approx(size[x] + 1)[x]]
<1>3. \A n \in Nat : approx(n) \in [D -> T] /\ Good(approx(n), n)
  BY <1>2
<1>4. h \in [D -> T]
  <2> HIDE DEF approx
  <2> QED BY <1>3
<1>5. ASSUME NEW x \in D PROVE h[x] = step[h][x]
  <2> DEFINE f == approx(size[x] + 1)
  <2>1. f \in [D -> T] /\ Good(f, size[x] + 1)
    <3> HIDE DEF approx, Good
    <3> QED BY <1>3
  <2>2. \A y \in D : size[y] < size[x] => f[y] = h[y]
    <3> SUFFICES ASSUME NEW y \in D, size[y] < size[x] PROVE f[y] = h[y]
      OBVIOUS
    <3> DEFINE g == approx(size[y] + 1)
    <3>1. g \in [D -> T] /\ Good(g, size[y] + 1)
      <4> HIDE DEF approx, Good
      <4> QED BY <1>3
    <3>2. Good(f, size[y] + 1)
      BY <2>1
    <3>3. size[y] + 1 \in Nat /\ size[y] < size[y] + 1
      OBVIOUS
    <3>4. f[y] = g[y]
      <4> HIDE DEF approx, Good, f, g
      <4> QED BY <1>1, <2>1, <3>1, <3>2, <3>3
    <3>5. h[y] = g[y]
      <4> HIDE DEF approx
      <4> QED OBVIOUS
    <3> QED BY <3>4, <3>5
  <2>3. f[x] = step[f][x]
    <3> HIDE DEF approx, f
    <3> QED BY <2>1
  <2>4. step[f][x] = step[h][x]
    <3> HIDE DEF approx, f, h, Good
    <3> QED BY <1>4, <2>1, <2>2
  <2>5. h[x] = f[x]
    <3> HIDE DEF approx
    <3> QED OBVIOUS
  <2> QED BY <2>3, <2>4, <2>5
<1>6. step[h] \in [D -> T]
  <2> HIDE DEF h
  <2> QED BY <1>4
<1>7. h = step[h]
  <2> HIDE DEF h
  <2> QED BY <1>4, <1>5, <1>6
<1> QED BY <1>4, <1>7
-----------------------------------------------------------------------------
(***************************************************************************)
(* Lengths.                                                                *)
(***************************************************************************)
LEMMA Division ==
    ASSUME NEW n \in Nat
    PROVE  /\ n \div Radix \in Nat
           /\ n % Radix \in 0 .. Radix - 1
           /\ n = Radix * (n \div Radix) + (n % Radix)
           /\ n >= Radix => n \div Radix < n
           /\ n < Radix => n % Radix = n
BY RadixAssumption

LEMMA Remainder ==
    ASSUME NEW n \in 0 .. Radix - 1
    PROVE  n % Radix = n /\ (Radix + n) % Radix = n
BY RadixAssumption

LEMMA Weighted == ASSUME NEW a \in Nat, NEW b \in Nat PROVE a + Radix * b \in Nat
BY RadixAssumption

LEMMA ByteOf ==
    ASSUME NEW n \in 0 .. Radix - 1
    PROVE  /\ n \in Byte /\ Radix + n \in Byte
           /\ <<n>> \in Seq(Byte) /\ <<Radix + n>> \in Seq(Byte)
<1>1. n \in Byte /\ Radix + n \in Byte
  BY RadixAssumption DEF Byte
<1> QED BY <1>1

VarintStep ==
    [f \in [Nat -> Seq(Byte)] |-> [n \in Nat |->
        IF n < Radix THEN <<n>> ELSE <<Radix + (n % Radix)>> \o f[n \div Radix]]]

(* The definition of Varint defines something. *)
LEMMA VarintDef ==
    /\ Varint \in [Nat -> Seq(Byte)]
    /\ \A n \in Nat :
          Varint[n] = IF n < Radix THEN <<n>>
                      ELSE <<Radix + (n % Radix)>> \o Varint[n \div Radix]
<1> DEFINE id == [n \in Nat |-> n]
<1>1. ASSUME NEW f \in [Nat -> Seq(Byte)], NEW n \in Nat
      PROVE  (IF n < Radix THEN <<n>> ELSE <<Radix + (n % Radix)>> \o f[n \div Radix])
                \in Seq(Byte)
  <2>1. CASE n < Radix
    <3>1. n \in 0 .. Radix - 1
      BY <2>1, RadixAssumption
    <3> QED BY <2>1, <3>1, ByteOf
  <2>2. CASE ~ (n < Radix)
    <3>1. <<Radix + (n % Radix)>> \in Seq(Byte) /\ f[n \div Radix] \in Seq(Byte)
      BY Division, ByteOf
    <3> QED BY <2>2, <3>1, ConcatProperties
  <2> QED BY <2>1, <2>2
<1>2. VarintStep \in [[Nat -> Seq(Byte)] -> [Nat -> Seq(Byte)]]
  BY <1>1 DEF VarintStep
<1>3. \A f, g \in [Nat -> Seq(Byte)], n \in Nat :
         (\A m \in Nat : id[m] < id[n] => f[m] = g[m]) => VarintStep[f][n] = VarintStep[g][n]
  <2> SUFFICES ASSUME NEW f \in [Nat -> Seq(Byte)], NEW g \in [Nat -> Seq(Byte)],
                      NEW n \in Nat, \A m \in Nat : m < n => f[m] = g[m]
               PROVE  VarintStep[f][n] = VarintStep[g][n]
    OBVIOUS
  <2>1. n >= Radix => f[n \div Radix] = g[n \div Radix]
    BY Division
  <2>2. n < Radix \/ n >= Radix
    BY RadixAssumption
  <2> QED BY <2>1, <2>2 DEF VarintStep
<1>4. \E f \in [Nat -> Seq(Byte)] : f = VarintStep[f]
  <2>1. Seq(Byte) # {} /\ id \in [Nat -> Nat]
    BY EmptySeq
  <2> HIDE DEF id
  <2>2. Recursion(Nat, Seq(Byte), id, VarintStep)
    BY <1>2, <1>3, <2>1 DEF Recursion
  <2> QED BY <2>2, RecursionDefines
<1>5. PICK f \in [Nat -> Seq(Byte)] : f = VarintStep[f]
  BY <1>4
<1>6. f = [n \in Nat |->
             IF n < Radix THEN <<n>> ELSE <<Radix + (n % Radix)>> \o f[n \div Radix]]
  BY <1>5 DEF VarintStep
<1>7. Varint = [n \in Nat |->
                  IF n < Radix THEN <<n>>
                  ELSE <<Radix + (n % Radix)>> \o Varint[n \div Radix]]
  BY <1>6, Zenon DEF Varint
<1>8. \A n \in Nat :
         Varint[n] = IF n < Radix THEN <<n>>
                     ELSE <<Radix + (n % Radix)>> \o Varint[n \div Radix]
  BY <1>7
<1> DEFINE P == {n \in Nat : Varint[n] \in Seq(Byte)}
<1>9. \A n \in Nat : n \in P
  <2>1. ASSUME NEW n \in Nat, \A m \in Nat : id[m] < id[n] => m \in P
        PROVE  n \in P
    <3>1. CASE n < Radix
      <4>1. n \in 0 .. Radix - 1
        BY <3>1, RadixAssumption
      <4> QED BY <1>8, <3>1, <4>1, ByteOf
    <3>2. CASE ~ (n < Radix)
      <4>1. n \div Radix \in Nat /\ n \div Radix < n
        BY <3>2, Division, RadixAssumption
      <4>2. Varint[n \div Radix] \in Seq(Byte)
        BY <2>1, <4>1
      <4>3. <<Radix + (n % Radix)>> \in Seq(Byte)
        BY Division, ByteOf
      <4>4. Varint[n] = <<Radix + (n % Radix)>> \o Varint[n \div Radix]
        BY <1>8, <3>2
      <4>5. Varint[n] \in Seq(Byte)
        BY <4>2, <4>3, <4>4, ConcatProperties
      <4> QED BY <4>5
    <3> QED BY <3>1, <3>2
  <2>2. id \in [Nat -> Nat]
    OBVIOUS
  <2> HIDE DEF P, id
  <2>3. Inductive(Nat, id, P)
    BY <2>1, <2>2 DEF Inductive
  <2> QED BY <2>3, SizeInduction
<1>10. Varint \in [Nat -> Seq(Byte)]
  <2>1. \A n \in Nat : Varint[n] \in Seq(Byte)
    BY <1>9
  <2>2. Varint = [n \in Nat |-> Varint[n]]
    BY <1>7
  <2> QED BY <2>1, <2>2
<1> QED BY <1>8, <1>10

ValueStep ==
    [f \in [Seq(Byte) -> Nat] |-> [bytes \in Seq(Byte) |->
        IF bytes = << >> THEN 0 ELSE (Head(bytes) % Radix) + Radix * f[Tail(bytes)]]]

Length(S) == [s \in Seq(S) |-> Len(s)]

LEMMA LengthType == ASSUME NEW S PROVE Length(S) \in [Seq(S) -> Nat]
BY LenProperties DEF Length

(* The definition of ValueOf defines something. *)
LEMMA ValueOfDef ==
    /\ ValueOf \in [Seq(Byte) -> Nat]
    /\ \A bytes \in Seq(Byte) :
          ValueOf[bytes] = IF bytes = << >> THEN 0
                           ELSE (Head(bytes) % Radix) + Radix * ValueOf[Tail(bytes)]
<1>1. ASSUME NEW bytes \in Seq(Byte), bytes # << >>
      PROVE  /\ Head(bytes) % Radix \in Nat
             /\ Tail(bytes) \in Seq(Byte)
             /\ Length(Byte)[Tail(bytes)] < Length(Byte)[bytes]
  <2>1. /\ Head(bytes) \in Byte /\ Tail(bytes) \in Seq(Byte)
        /\ Len(Tail(bytes)) = Len(bytes) - 1 /\ Len(bytes) \in Nat
    BY <1>1, HeadTailProperties, LenProperties
  <2>2. Head(bytes) \in Nat
    BY <2>1, RadixAssumption DEF Byte
  <2>3. Head(bytes) % Radix \in 0 .. Radix - 1
    BY <2>2, Division
  <2>4. Head(bytes) % Radix \in Nat
    BY <2>3, RadixAssumption
  <2> QED BY <2>1, <2>4 DEF Length
<1>2. ASSUME NEW f \in [Seq(Byte) -> Nat], NEW bytes \in Seq(Byte)
      PROVE  (IF bytes = << >> THEN 0
              ELSE (Head(bytes) % Radix) + Radix * f[Tail(bytes)]) \in Nat
  <2>1. CASE bytes # << >>
    <3> DEFINE a == Head(bytes) % Radix
               b == f[Tail(bytes)]
    <3>1. a \in Nat /\ b \in Nat
      BY <1>1, <2>1
    <3>2. a + Radix * b \in Nat
      <4> HIDE DEF a, b
      <4> QED BY <3>1, Weighted
    <3> QED BY <2>1, <3>2
  <2> QED BY <2>1
<1>3. ValueStep \in [[Seq(Byte) -> Nat] -> [Seq(Byte) -> Nat]]
  BY <1>2 DEF ValueStep
<1>4. \A f, g \in [Seq(Byte) -> Nat], x \in Seq(Byte) :
         (\A y \in Seq(Byte) : Length(Byte)[y] < Length(Byte)[x] => f[y] = g[y])
            => ValueStep[f][x] = ValueStep[g][x]
  <2> SUFFICES ASSUME NEW f \in [Seq(Byte) -> Nat], NEW g \in [Seq(Byte) -> Nat],
                      NEW x \in Seq(Byte),
                      \A y \in Seq(Byte) :
                         Length(Byte)[y] < Length(Byte)[x] => f[y] = g[y]
               PROVE  ValueStep[f][x] = ValueStep[g][x]
    OBVIOUS
  <2>1. x # << >> => f[Tail(x)] = g[Tail(x)]
    BY <1>1
  <2> QED BY <2>1 DEF ValueStep
<1>5. PICK f \in [Seq(Byte) -> Nat] : f = ValueStep[f]
  <2>1. Recursion(Seq(Byte), Nat, Length(Byte), ValueStep)
    BY <1>3, <1>4, LengthType DEF Recursion
  <2> QED BY <2>1, RecursionDefines
<1>6. f = [bytes \in Seq(Byte) |->
             IF bytes = << >> THEN 0 ELSE (Head(bytes) % Radix) + Radix * f[Tail(bytes)]]
  BY <1>5 DEF ValueStep
<1>7. ValueOf = [bytes \in Seq(Byte) |->
                   IF bytes = << >> THEN 0
                   ELSE (Head(bytes) % Radix) + Radix * ValueOf[Tail(bytes)]]
  BY <1>6, Zenon DEF ValueOf
<1>8. \A bytes \in Seq(Byte) :
         ValueOf[bytes] = IF bytes = << >> THEN 0
                          ELSE (Head(bytes) % Radix) + Radix * ValueOf[Tail(bytes)]
  BY <1>7
<1> DEFINE P == {bytes \in Seq(Byte) : ValueOf[bytes] \in Nat}
<1>9. \A bytes \in Seq(Byte) : bytes \in P
  <2>1. ASSUME NEW x \in Seq(Byte),
               \A y \in Seq(Byte) : Length(Byte)[y] < Length(Byte)[x] => y \in P
        PROVE  x \in P
    <3>1. CASE x = << >>
      <4>1. ValueOf[x] = 0
        BY <1>8, <3>1, Zenon
      <4> QED BY <4>1
    <3>2. CASE x # << >>
      <4> DEFINE a == Head(x) % Radix
                 b == ValueOf[Tail(x)]
      <4>1. a \in Nat /\ b \in Nat
        BY <1>1, <2>1, <3>2
      <4>2. a + Radix * b \in Nat
        <5> HIDE DEF a, b
        <5> QED BY <4>1, Weighted
      <4>3. ValueOf[x] = a + Radix * b
        BY <1>8, <3>2, Zenon
      <4>4. ValueOf[x] \in Nat
        BY <4>2, <4>3
      <4> QED BY <4>4
    <3> QED BY <3>1, <3>2
  <2> HIDE DEF P
  <2>2. Inductive(Seq(Byte), Length(Byte), P)
    BY <2>1, LengthType DEF Inductive
  <2> QED BY <2>2, SizeInduction
<1>10. ValueOf \in [Seq(Byte) -> Nat]
  <2>1. \A bytes \in Seq(Byte) : ValueOf[bytes] \in Nat
    BY <1>9
  <2>2. ValueOf = [bytes \in Seq(Byte) |-> ValueOf[bytes]]
    BY <1>7
  <2> QED BY <2>1, <2>2
<1> QED BY <1>8, <1>10
-----------------------------------------------------------------------------
(***************************************************************************)
(* Sequences.                                                              *)
(***************************************************************************)
LEMMA Cons ==
    ASSUME NEW S, NEW e \in S, NEW s \in Seq(S)
    PROVE  /\ <<e>> \o s \in Seq(S)
           /\ <<e>> \o s # << >>
           /\ Head(<<e>> \o s) = e
           /\ Tail(<<e>> \o s) = s
           /\ Len(<<e>> \o s) = Len(s) + 1
           /\ (<<e>> \o s)[1] = e
           /\ \A i \in 1 .. Len(s) : (<<e>> \o s)[i + 1] = s[i]
<1> DEFINE t == <<e>> \o s
<1>1. <<e>> \in Seq(S) /\ Len(<<e>>) = 1 /\ <<e>>[1] = e /\ Len(s) \in Nat
  BY LenProperties
<1>2. /\ t \in Seq(S) /\ Len(t) = Len(s) + 1
      /\ \A i \in 1 .. Len(s) + 1 : t[i] = IF i <= 1 THEN <<e>>[i] ELSE s[i - 1]
  BY <1>1, ConcatProperties
<1>3. t # << >> /\ t[1] = e /\ \A i \in 1 .. Len(s) : t[i + 1] = s[i]
  BY <1>1, <1>2
<1> HIDE DEF t
<1>4. /\ Tail(t) \in Seq(S) /\ Len(Tail(t)) = Len(s)
      /\ \A i \in 1 .. Len(s) : Tail(t)[i] = s[i]
  BY <1>1, <1>2, <1>3, HeadTailProperties
<1>5. Tail(t) = s
  BY <1>4, SeqEqual
<1>6. Head(t) = e
  BY <1>3
<1> QED BY <1>1, <1>2, <1>3, <1>5, <1>6 DEF t

LEMMA Uncons ==
    ASSUME NEW S, NEW s \in Seq(S), s # << >>
    PROVE  /\ Head(s) \in S /\ Tail(s) \in Seq(S)
           /\ s = <<Head(s)>> \o Tail(s)
           /\ Head(s) = s[1]
           /\ Len(s) \in Nat /\ Len(Tail(s)) = Len(s) - 1
           /\ \A i \in 1 .. Len(s) - 1 : Tail(s)[i] = s[i + 1]
<1>1. /\ Head(s) \in S /\ Tail(s) \in Seq(S) /\ Len(Tail(s)) = Len(s) - 1
      /\ \A i \in 1 .. Len(Tail(s)) : Tail(s)[i] = s[i + 1]
      /\ Len(s) \in Nat \ {0} /\ Head(s) = s[1]
  BY HeadTailProperties, LenProperties, EmptySeq
<1> DEFINE t == <<Head(s)>> \o Tail(s)
<1>2. /\ t \in Seq(S) /\ Len(t) = Len(s) /\ t[1] = s[1]
      /\ \A i \in 1 .. Len(s) - 1 : t[i + 1] = s[i + 1]
  BY <1>1, Cons
<1>3. \A i \in 1 .. Len(s) : t[i] = s[i]
  <2> HIDE DEF t
  <2> SUFFICES ASSUME NEW i \in 1 .. Len(s), i # 1 PROVE t[i] = s[i]
    BY <1>2
  <2>1. i - 1 \in 1 .. Len(s) - 1 /\ (i - 1) + 1 = i
    BY <1>1
  <2> QED BY <1>2, <2>1
<1>4. t = s
  <2> HIDE DEF t
  <2> QED BY <1>1, <1>2, <1>3, SeqEqual
<1> QED BY <1>1, <1>4

(* The provers expand an equation between concatenations, and then do not  *)
(* recognise it; this one they take as it is.                              *)
Joined(x, a, b) == x = a \o b

(* Two ways to cut a sequence. *)
LEMMA TwoCuts ==
    ASSUME NEW S, NEW a \in Seq(S), NEW b \in Seq(S), NEW c \in Seq(S), NEW d \in Seq(S),
           NEW x, Joined(x, a, b), Joined(x, c, d), Len(c) <= Len(a)
    PROVE  \E e \in Seq(S) : Joined(a, c, e) /\ Joined(d, e, b)
<1>0. a \o b = c \o d
  BY Zenon DEF Joined
<1>1. /\ Len(a) \in Nat /\ Len(b) \in Nat /\ Len(c) \in Nat /\ Len(d) \in Nat
      /\ \A i \in 1 .. Len(a) : a[i] \in S
  BY LenProperties, ElementOfSeq
<1>2. /\ a \o b \in Seq(S)
      /\ Len(a) + Len(b) = Len(c) + Len(d)
      /\ \A i \in 1 .. Len(a) + Len(b) :
            /\ (a \o b)[i] = IF i <= Len(a) THEN a[i] ELSE b[i - Len(a)]
            /\ (a \o b)[i] = IF i <= Len(c) THEN c[i] ELSE d[i - Len(c)]
  <2>1. /\ a \o b \in Seq(S) /\ Len(a \o b) = Len(a) + Len(b)
        /\ \A i \in 1 .. Len(a) + Len(b) :
              (a \o b)[i] = IF i <= Len(a) THEN a[i] ELSE b[i - Len(a)]
    BY ConcatProperties
  <2>2. /\ Len(c \o d) = Len(c) + Len(d)
        /\ \A i \in 1 .. Len(c) + Len(d) :
              (c \o d)[i] = IF i <= Len(c) THEN c[i] ELSE d[i - Len(c)]
    BY ConcatProperties
  <2> DEFINE s == a \o b
  <2>3. /\ s = c \o d /\ Len(s) = Len(a) + Len(b)
        /\ \A i \in 1 .. Len(a) + Len(b) :
              s[i] = IF i <= Len(a) THEN a[i] ELSE b[i - Len(a)]
    BY <1>0, <2>1
  <2> HIDE DEF s
  <2>4. /\ Len(a) + Len(b) = Len(c) + Len(d)
        /\ \A i \in 1 .. Len(c) + Len(d) :
              s[i] = IF i <= Len(c) THEN c[i] ELSE d[i - Len(c)]
    BY <2>2, <2>3
  <2> QED BY <2>1, <2>3, <2>4 DEF s
<1> DEFINE e == SubSeq(a, Len(c) + 1, Len(a))
<1>3. /\ e \in Seq(S) /\ Len(e) = Len(a) - Len(c)
      /\ \A i \in 1 .. Len(a) - Len(c) : e[i] = a[Len(c) + i]
  <2>1. \A i \in Len(c) + 1 .. Len(a) : a[i] \in S
    BY <1>1
  <2>2. /\ e \in Seq(S)
        /\ Len(e) = IF Len(c) + 1 <= Len(a) THEN Len(a) - (Len(c) + 1) + 1 ELSE 0
        /\ \A i \in 1 .. Len(a) - (Len(c) + 1) + 1 : e[i] = a[Len(c) + 1 + i - 1]
    BY <1>1, <2>1, SubSeqProperties
  <2> HIDE DEF e
  <2>3. Len(e) = Len(a) - Len(c)
    BY <1>1, <2>2
  <2>4. \A i \in 1 .. Len(a) - Len(c) :
           /\ i \in 1 .. Len(a) - (Len(c) + 1) + 1
           /\ Len(c) + 1 + i - 1 = Len(c) + i
    BY <1>1
  <2> QED BY <2>2, <2>3, <2>4
<1> HIDE DEF e
<1>4. a = c \o e
  <2>1. /\ c \o e \in Seq(S) /\ Len(c \o e) = Len(a)
        /\ \A i \in 1 .. Len(a) : (c \o e)[i] = IF i <= Len(c) THEN c[i] ELSE e[i - Len(c)]
    BY <1>1, <1>3, ConcatProperties
  <2>2. ASSUME NEW i \in 1 .. Len(a) PROVE (c \o e)[i] = a[i]
    <3>1. CASE i <= Len(c)
      BY <1>1, <1>2, <2>1, <3>1
    <3>2. CASE ~ (i <= Len(c))
      <4>1. i - Len(c) \in 1 .. Len(a) - Len(c) /\ Len(c) + (i - Len(c)) = i
        BY <1>1, <3>2
      <4>2. e[i - Len(c)] = a[i]
        BY <1>3, <4>1
      <4> QED BY <2>1, <3>2, <4>2
    <3> QED BY <3>1, <3>2
  <2> QED BY <2>1, <2>2, SeqEqual
<1>5. e \o b = d
  <2>1. /\ e \o b \in Seq(S) /\ Len(e \o b) = Len(d)
        /\ \A i \in 1 .. Len(d) : (e \o b)[i] = IF i <= Len(e) THEN e[i] ELSE b[i - Len(e)]
    BY <1>1, <1>2, <1>3, ConcatProperties
  <2>2. ASSUME NEW i \in 1 .. Len(d) PROVE (e \o b)[i] = d[i]
    <3>1. /\ Len(c) + i \in 1 .. Len(a) + Len(b)
          /\ ~ (Len(c) + i <= Len(c)) /\ (Len(c) + i) - Len(c) = i
      BY <1>1, <1>2
    <3>2. d[i] = (a \o b)[Len(c) + i]
      BY <1>2, <3>1
    <3>3. CASE i <= Len(e)
      <4>1. i \in 1 .. Len(a) - Len(c) /\ Len(c) + i <= Len(a)
        BY <1>1, <1>3, <3>3
      <4> QED BY <1>2, <1>3, <2>1, <3>1, <3>2, <3>3, <4>1
    <3>4. CASE ~ (i <= Len(e))
      <4>1. ~ (Len(c) + i <= Len(a)) /\ (Len(c) + i) - Len(a) = i - Len(e)
        BY <1>1, <1>3, <3>4
      <4> QED BY <1>2, <2>1, <3>1, <3>2, <3>4, <4>1
    <3> QED BY <3>3, <3>4
  <2> QED BY <2>1, <2>2, SeqEqual
<1> QED BY <1>3, <1>4, <1>5, Zenon DEF Joined

(* A sequence cut at a length. *)
LEMMA CutAt ==
    ASSUME NEW S, NEW s \in Seq(S), NEW n \in 0 .. Len(s)
    PROVE  /\ SubSeq(s, 1, n) \in Seq(S) /\ Len(SubSeq(s, 1, n)) = n
           /\ SubSeq(s, n + 1, Len(s)) \in Seq(S)
           /\ Len(SubSeq(s, n + 1, Len(s))) = Len(s) - n
           /\ \A i \in 1 .. n : SubSeq(s, 1, n)[i] = s[i]
           /\ s = SubSeq(s, 1, n) \o SubSeq(s, n + 1, Len(s))
<1> DEFINE a == SubSeq(s, 1, n)
           b == SubSeq(s, n + 1, Len(s))
<1>1. Len(s) \in Nat /\ n \in Nat /\ n <= Len(s) /\ \A i \in 1 .. Len(s) : s[i] \in S
  BY LenProperties, ElementOfSeq
<1>2. a \in Seq(S) /\ Len(a) = n /\ \A i \in 1 .. n : a[i] = s[i]
  <2>1. \A i \in 1 .. n : s[i] \in S
    BY <1>1
  <2>2. /\ a \in Seq(S)
        /\ Len(a) = IF 1 <= n THEN n - 1 + 1 ELSE 0
        /\ \A i \in 1 .. n - 1 + 1 : a[i] = s[1 + i - 1]
    BY <1>1, <2>1, SubSeqProperties
  <2> HIDE DEF a
  <2> QED BY <1>1, <2>2
<1>3. b \in Seq(S) /\ Len(b) = Len(s) - n
  <2>1. \A i \in n + 1 .. Len(s) : s[i] \in S
    BY <1>1
  <2>2. /\ b \in Seq(S)
        /\ Len(b) = IF n + 1 <= Len(s) THEN Len(s) - (n + 1) + 1 ELSE 0
    BY <1>1, <2>1, SubSeqProperties
  <2> HIDE DEF b
  <2> QED BY <1>1, <2>2
<1>4. a \o b = s
  <2>1. 1 \in 1 .. Len(s) + 1 /\ n \in 1 - 1 .. Len(s) /\ Len(s) \in n .. Len(s)
    BY <1>1
  <2>2. a \o b = SubSeq(s, 1, Len(s))
    BY <2>1, ConcatAdjacentSubSeq
  <2>3. SubSeq(s, 1, Len(s)) = s
    BY SubSeqFull
  <2> QED BY <2>2, <2>3
<1>5. SubSeq(s, 1, n) = a /\ SubSeq(s, n + 1, Len(s)) = b
  OBVIOUS
<1> HIDE DEF a, b
<1> QED BY <1>2, <1>3, <1>4, <1>5

(* The part before, or after, a cut is determined by the lengths. *)
LEMMA SameCut ==
    ASSUME NEW S, NEW a \in Seq(S), NEW b \in Seq(S), NEW c \in Seq(S), NEW d \in Seq(S),
           NEW x, Joined(x, a, b), Joined(x, c, d), Len(c) = Len(a)
    PROVE  a = c /\ b = d
<1> DEFINE s == a \o b
<1>0. Len(a) \in Nat /\ Len(b) \in Nat /\ Len(c) \in Nat /\ Len(d) \in Nat
  BY LenProperties
<1>1. /\ Len(a) + Len(b) = Len(c) + Len(d)
      /\ \A i \in 1 .. Len(a) + Len(b) :
            /\ s[i] = IF i <= Len(a) THEN a[i] ELSE b[i - Len(a)]
            /\ s[i] = IF i <= Len(c) THEN c[i] ELSE d[i - Len(c)]
  <2>1. /\ Len(s) = Len(a) + Len(b)
        /\ \A i \in 1 .. Len(a) + Len(b) : s[i] = IF i <= Len(a) THEN a[i] ELSE b[i - Len(a)]
    BY ConcatProperties
  <2>2. /\ Len(c \o d) = Len(c) + Len(d)
        /\ \A i \in 1 .. Len(c) + Len(d) :
              (c \o d)[i] = IF i <= Len(c) THEN c[i] ELSE d[i - Len(c)]
    BY ConcatProperties
  <2>3. s = c \o d
    BY Zenon DEF Joined
  <2> HIDE DEF s
  <2> QED BY <2>1, <2>2, <2>3
<1> HIDE DEF s
<1>2. \A i \in 1 .. Len(a) : a[i] = c[i]
  BY <1>0, <1>1
<1>3. ASSUME NEW i \in 1 .. Len(b) PROVE b[i] = d[i]
  <2>1. /\ i + Len(a) \in 1 .. Len(a) + Len(b)
        /\ ~ (i + Len(a) <= Len(a)) /\ (i + Len(a)) - Len(a) = i
    BY <1>0, <1>1
  <2> QED BY <1>0, <1>1, <2>1
<1> QED BY <1>0, <1>1, <1>2, <1>3, SeqEqual
-----------------------------------------------------------------------------
(***************************************************************************)
(* The length in front of a message.                                       *)
(***************************************************************************)
(* v is a length n: only the last byte announces no other, and the bytes   *)
(* are worth n.                                                            *)
IsPrefixOf(n, v) ==
    /\ v \in Seq(Byte)
    /\ Len(v) >= 1
    /\ \A i \in 1 .. Len(v) : More(v[i]) <=> i < Len(v)
    /\ ValueOf[v] = n

LEMMA OneByte ==
    ASSUME NEW n \in 0 .. Radix - 1
    PROVE  IsPrefixOf(n, <<n>>)
<1>1. <<n>> \in Seq(Byte) /\ <<n>> # << >> /\ Head(<<n>>) = n /\ Tail(<<n>>) = << >>
  BY ByteOf
<1>2. << >> \in Seq(Byte)
  BY EmptySeq
<1>3. ValueOf[<< >>] = 0
  BY <1>2, ValueOfDef
<1>4. ValueOf[<<n>>] = (n % Radix) + Radix * 0
  BY <1>1, <1>3, ValueOfDef
<1>5. ValueOf[<<n>>] = n
  BY <1>4, Remainder, RadixAssumption
<1>6. Len(<<n>>) = 1 /\ <<n>>[1] = n /\ ~ (n >= Radix)
  BY RadixAssumption
<1>7. \A i \in 1 .. Len(<<n>>) : More(<<n>>[i]) <=> i < Len(<<n>>)
  BY <1>6 DEF More
<1> QED BY <1>1, <1>5, <1>6, <1>7 DEF IsPrefixOf

LEMMA AnotherByte ==
    ASSUME NEW n \in Nat, NEW v, IsPrefixOf(n \div Radix, v)
    PROVE  IsPrefixOf(n, <<Radix + (n % Radix)>> \o v)
<1> DEFINE b == Radix + (n % Radix)
           w == <<b>> \o v
           m == n \div Radix
<1>1. /\ v \in Seq(Byte) /\ Len(v) \in Nat /\ Len(v) >= 1
      /\ \A i \in 1 .. Len(v) : More(v[i]) <=> i < Len(v)
      /\ ValueOf[v] = m
  BY LenProperties DEF IsPrefixOf
<1>2. b \in Byte /\ b >= Radix /\ b % Radix = n % Radix
  <2>1. n % Radix \in 0 .. Radix - 1
    BY Division
  <2>2. n % Radix >= 0 /\ Radix + (n % Radix) >= Radix
    BY <2>1, RadixAssumption
  <2> QED BY <2>1, <2>2, ByteOf, Remainder
<1>3. /\ w \in Seq(Byte) /\ w # << >> /\ Head(w) = b /\ Tail(w) = v
      /\ Len(w) = Len(v) + 1 /\ w[1] = b
      /\ \A i \in 1 .. Len(v) : w[i + 1] = v[i]
  <2> HIDE DEF b
  <2> QED BY <1>1, <1>2, Cons
<1>4. ValueOf[w] = n
  <2>1. ValueOf[w] = (b % Radix) + Radix * ValueOf[v]
    <3> HIDE DEF b, w
    <3> QED BY <1>3, ValueOfDef
  <2>2. ValueOf[w] = (n % Radix) + Radix * m
    <3> HIDE DEF w
    <3> QED BY <1>1, <1>2, <2>1
  <2>3. n = Radix * m + (n % Radix) /\ m \in Nat /\ n % Radix \in Nat
    BY Division, RadixAssumption
  <2>4. \A x, y, z \in Nat : x * y + z = z + x * y
    OBVIOUS
  <2>5. Radix * m + (n % Radix) = (n % Radix) + Radix * m
    <3> HIDE DEF m
    <3> QED BY <2>3, <2>4, RadixAssumption
  <2> HIDE DEF w, m
  <2> QED BY <2>2, <2>3, <2>5
<1>5. ASSUME NEW i \in 1 .. Len(w) PROVE More(w[i]) <=> i < Len(w)
  <2> HIDE DEF w, b
  <2>1. CASE i = 1
    BY <1>1, <1>2, <1>3, <2>1 DEF More
  <2>2. CASE i # 1
    <3>1. i - 1 \in 1 .. Len(v) /\ (i - 1) + 1 = i
      BY <1>1, <1>3, <2>2
    <3>2. w[i] = v[i - 1] /\ (More(v[i - 1]) <=> i - 1 < Len(v))
      BY <1>1, <1>3, <3>1
    <3> QED BY <1>1, <1>3, <3>1, <3>2
  <2> QED BY <2>1, <2>2
<1> HIDE DEF w
<1>6. IsPrefixOf(n, w)
  BY <1>1, <1>3, <1>4, <1>5 DEF IsPrefixOf
<1> QED BY <1>6 DEF w

(* Whatever the length, readVarintPrefix stops after the last byte that    *)
(* writeVarintPrefix has written, not before, and gets the length back.    *)
THEOREM LengthReadsBack == ASSUME NEW n \in Nat PROVE IsPrefixOf(n, Varint[n])
<1> DEFINE id == [x \in Nat |-> x]
           P == {x \in Nat : IsPrefixOf(x, Varint[x])}
<1>1. ASSUME NEW x \in Nat, \A y \in Nat : id[y] < id[x] => y \in P
      PROVE  x \in P
  <2>1. CASE x < Radix
    <3>1. x \in 0 .. Radix - 1
      BY <2>1, RadixAssumption
    <3>2. Varint[x] = <<x>>
      BY <2>1, VarintDef
    <3>3. IsPrefixOf(x, Varint[x])
      BY <3>1, <3>2, OneByte
    <3> QED BY <3>3
  <2>2. CASE ~ (x < Radix)
    <3>1. x \div Radix \in Nat /\ x \div Radix < x
      BY <2>2, Division, RadixAssumption
    <3>2. Varint[x] = <<Radix + (x % Radix)>> \o Varint[x \div Radix]
      BY <2>2, VarintDef
    <3>3. IsPrefixOf(x \div Radix, Varint[x \div Radix])
      BY <1>1, <3>1
    <3>4. IsPrefixOf(x, Varint[x])
      BY <3>2, <3>3, AnotherByte
    <3> QED BY <3>4
  <2> QED BY <2>1, <2>2
<1>2. id \in [Nat -> Nat]
  OBVIOUS
<1>3. \A x \in Nat : x \in P
  <2> HIDE DEF id, P
  <2>1. Inductive(Nat, id, P)
    BY <1>1, <1>2 DEF Inductive
  <2> QED BY <2>1, SizeInduction
<1> QED BY <1>3
-----------------------------------------------------------------------------
(***************************************************************************)
(* The messages in a stream of bytes.                                      *)
(***************************************************************************)
LengthEnds(bytes) == {i \in DOMAIN bytes : ~ More(bytes[i])}

LengthEnd(bytes) ==
    CHOOSE i \in LengthEnds(bytes) : \A j \in LengthEnds(bytes) : i <= j

FrameEnd(bytes) == LengthEnd(bytes) + ValueOf[SubSeq(bytes, 1, LengthEnd(bytes))]

FramesStep ==
    [f \in [Seq(Byte) -> Seq(Seq(Byte))] |-> [bytes \in Seq(Byte) |->
        IF LengthEnds(bytes) = {} THEN << >>
        ELSE IF FrameEnd(bytes) > Len(bytes) THEN << >>
        ELSE <<SubSeq(bytes, LengthEnd(bytes) + 1, FrameEnd(bytes))>>
                \o f[SubSeq(bytes, FrameEnd(bytes) + 1, Len(bytes))]]]

(* The first frame ends after the first byte that announces no other. *)
LEMMA FirstFrame ==
    ASSUME NEW bytes \in Seq(Byte), LengthEnds(bytes) # {}
    PROVE  /\ LengthEnd(bytes) \in LengthEnds(bytes)
           /\ LengthEnd(bytes) \in 1 .. Len(bytes)
           /\ \A j \in LengthEnds(bytes) : LengthEnd(bytes) <= j
           /\ FrameEnd(bytes) \in Nat
           /\ FrameEnd(bytes) >= LengthEnd(bytes)
<1>1. Len(bytes) \in Nat /\ LengthEnds(bytes) \subseteq 1 .. Len(bytes)
  BY LenProperties DEF LengthEnds
<1>2. \E i \in LengthEnds(bytes) : \A j \in LengthEnds(bytes) : i <= j
  <2>1. LengthEnds(bytes) \subseteq Nat
    BY <1>1
  <2> QED BY <2>1, LeastOf
<1>3. /\ LengthEnd(bytes) \in LengthEnds(bytes)
      /\ \A j \in LengthEnds(bytes) : LengthEnd(bytes) <= j
  BY <1>2 DEF LengthEnd
<1>4. LengthEnd(bytes) \in 1 .. Len(bytes)
  BY <1>1, <1>3
<1>5. ValueOf[SubSeq(bytes, 1, LengthEnd(bytes))] \in Nat
  <2>1. LengthEnd(bytes) \in 0 .. Len(bytes)
    BY <1>1, <1>4
  <2>2. SubSeq(bytes, 1, LengthEnd(bytes)) \in Seq(Byte)
    BY <2>1, CutAt
  <2> QED BY <2>2, ValueOfDef
<1>6. FrameEnd(bytes) \in Nat /\ FrameEnd(bytes) >= LengthEnd(bytes)
  BY <1>1, <1>4, <1>5 DEF FrameEnd
<1> QED BY <1>3, <1>4, <1>6

LEMMA Slice ==
    ASSUME NEW S, NEW s \in Seq(S), NEW m \in 1 .. Len(s) + 1, NEW n \in m - 1 .. Len(s)
    PROVE  SubSeq(s, m, n) \in Seq(S) /\ Len(SubSeq(s, m, n)) = n - m + 1
<1>1. Len(s) \in Nat /\ \A i \in 1 .. Len(s) : s[i] \in S
  BY LenProperties, ElementOfSeq
<1>2. m \in Int /\ n \in Int /\ n - m + 1 >= 0 /\ \A i \in m .. n : s[i] \in S
  BY <1>1
<1>3. /\ SubSeq(s, m, n) \in Seq(S)
      /\ Len(SubSeq(s, m, n)) = IF m <= n THEN n - m + 1 ELSE 0
  BY <1>2, SubSeqProperties
<1> QED BY <1>2, <1>3

(* The definition of Frames defines something. *)
LEMMA FramesDef ==
    /\ Frames \in [Seq(Byte) -> Seq(Seq(Byte))]
    /\ \A bytes \in Seq(Byte) :
          Frames[bytes] =
             IF LengthEnds(bytes) = {} THEN << >>
             ELSE IF FrameEnd(bytes) > Len(bytes) THEN << >>
             ELSE <<SubSeq(bytes, LengthEnd(bytes) + 1, FrameEnd(bytes))>>
                     \o Frames[SubSeq(bytes, FrameEnd(bytes) + 1, Len(bytes))]
<1>1. ASSUME NEW bytes \in Seq(Byte), LengthEnds(bytes) # {}, ~ (FrameEnd(bytes) > Len(bytes))
      PROVE  /\ SubSeq(bytes, LengthEnd(bytes) + 1, FrameEnd(bytes)) \in Seq(Byte)
             /\ SubSeq(bytes, FrameEnd(bytes) + 1, Len(bytes)) \in Seq(Byte)
             /\ Length(Byte)[SubSeq(bytes, FrameEnd(bytes) + 1, Len(bytes))]
                   < Length(Byte)[bytes]
  <2> DEFINE k == LengthEnd(bytes)
             e == FrameEnd(bytes)
  <2>1. k \in 1 .. Len(bytes) /\ e \in Nat /\ e >= k /\ e <= Len(bytes) /\ Len(bytes) \in Nat
    BY <1>1, FirstFrame, LenProperties
  <2> HIDE DEF k, e
  <2>2. SubSeq(bytes, k + 1, e) \in Seq(Byte)
    <3>1. k + 1 \in 1 .. Len(bytes) + 1 /\ e \in k + 1 - 1 .. Len(bytes)
      BY <2>1
    <3> QED BY <3>1, Slice
  <2>3. /\ SubSeq(bytes, e + 1, Len(bytes)) \in Seq(Byte)
        /\ Len(SubSeq(bytes, e + 1, Len(bytes))) = Len(bytes) - e
    <3>1. e \in 0 .. Len(bytes)
      BY <2>1
    <3> QED BY <3>1, CutAt
  <2>4. Length(Byte)[SubSeq(bytes, e + 1, Len(bytes))] < Length(Byte)[bytes]
    BY <2>1, <2>3 DEF Length
  <2> QED BY <2>2, <2>3, <2>4 DEF k, e
<1>2. ASSUME NEW f \in [Seq(Byte) -> Seq(Seq(Byte))], NEW bytes \in Seq(Byte)
      PROVE  (IF LengthEnds(bytes) = {} THEN << >>
              ELSE IF FrameEnd(bytes) > Len(bytes) THEN << >>
              ELSE <<SubSeq(bytes, LengthEnd(bytes) + 1, FrameEnd(bytes))>>
                      \o f[SubSeq(bytes, FrameEnd(bytes) + 1, Len(bytes))]) \in Seq(Seq(Byte))
  <2>1. CASE LengthEnds(bytes) # {} /\ ~ (FrameEnd(bytes) > Len(bytes))
    <3> DEFINE m == SubSeq(bytes, LengthEnd(bytes) + 1, FrameEnd(bytes))
               r == SubSeq(bytes, FrameEnd(bytes) + 1, Len(bytes))
    <3>1. m \in Seq(Byte) /\ r \in Seq(Byte)
      BY <1>1, <2>1
    <3>2. <<m>> \o f[r] \in Seq(Seq(Byte))
      <4> HIDE DEF m, r
      <4> QED BY <3>1, Cons
    <3> QED BY <2>1, <3>2
  <2>2. CASE LengthEnds(bytes) = {} \/ FrameEnd(bytes) > Len(bytes)
    <3>1. << >> \in Seq(Seq(Byte))
      BY EmptySeq
    <3> QED BY <2>2, <3>1
  <2> QED BY <2>1, <2>2
<1>3. FramesStep \in [[Seq(Byte) -> Seq(Seq(Byte))] -> [Seq(Byte) -> Seq(Seq(Byte))]]
  BY <1>2 DEF FramesStep
<1>4. \A f, g \in [Seq(Byte) -> Seq(Seq(Byte))], x \in Seq(Byte) :
         (\A y \in Seq(Byte) : Length(Byte)[y] < Length(Byte)[x] => f[y] = g[y])
            => FramesStep[f][x] = FramesStep[g][x]
  <2> SUFFICES ASSUME NEW f \in [Seq(Byte) -> Seq(Seq(Byte))],
                      NEW g \in [Seq(Byte) -> Seq(Seq(Byte))],
                      NEW x \in Seq(Byte),
                      \A y \in Seq(Byte) :
                         Length(Byte)[y] < Length(Byte)[x] => f[y] = g[y]
               PROVE  FramesStep[f][x] = FramesStep[g][x]
    OBVIOUS
  <2> DEFINE r == SubSeq(x, FrameEnd(x) + 1, Len(x))
  <2>1. LengthEnds(x) # {} /\ ~ (FrameEnd(x) > Len(x)) => f[r] = g[r]
    BY <1>1
  <2> QED BY <2>1 DEF FramesStep
<1>5. PICK f \in [Seq(Byte) -> Seq(Seq(Byte))] : f = FramesStep[f]
  <2>1. Seq(Seq(Byte)) # {}
    BY EmptySeq
  <2>2. Recursion(Seq(Byte), Seq(Seq(Byte)), Length(Byte), FramesStep)
    BY <1>3, <1>4, <2>1, LengthType DEF Recursion
  <2> QED BY <2>2, RecursionDefines
<1>6. f = [bytes \in Seq(Byte) |->
             IF LengthEnds(bytes) = {} THEN << >>
             ELSE IF FrameEnd(bytes) > Len(bytes) THEN << >>
             ELSE <<SubSeq(bytes, LengthEnd(bytes) + 1, FrameEnd(bytes))>>
                     \o f[SubSeq(bytes, FrameEnd(bytes) + 1, Len(bytes))]]
  BY <1>5 DEF FramesStep
<1>7. Frames = [bytes \in Seq(Byte) |->
             IF LengthEnds(bytes) = {} THEN << >>
             ELSE IF FrameEnd(bytes) > Len(bytes) THEN << >>
             ELSE <<SubSeq(bytes, LengthEnd(bytes) + 1, FrameEnd(bytes))>>
                     \o Frames[SubSeq(bytes, FrameEnd(bytes) + 1, Len(bytes))]]
  BY <1>6, Zenon DEF Frames, LengthEnds, LengthEnd, FrameEnd
<1>8. \A bytes \in Seq(Byte) :
         Frames[bytes] =
             IF LengthEnds(bytes) = {} THEN << >>
             ELSE IF FrameEnd(bytes) > Len(bytes) THEN << >>
             ELSE <<SubSeq(bytes, LengthEnd(bytes) + 1, FrameEnd(bytes))>>
                     \o Frames[SubSeq(bytes, FrameEnd(bytes) + 1, Len(bytes))]
  BY <1>7
<1> DEFINE P == {bytes \in Seq(Byte) : Frames[bytes] \in Seq(Seq(Byte))}
<1>9. \A bytes \in Seq(Byte) : bytes \in P
  <2>1. ASSUME NEW x \in Seq(Byte),
               \A y \in Seq(Byte) : Length(Byte)[y] < Length(Byte)[x] => y \in P
        PROVE  x \in P
    <3>1. CASE LengthEnds(x) # {} /\ ~ (FrameEnd(x) > Len(x))
      <4> DEFINE m == SubSeq(x, LengthEnd(x) + 1, FrameEnd(x))
                 r == SubSeq(x, FrameEnd(x) + 1, Len(x))
      <4>1. m \in Seq(Byte) /\ r \in Seq(Byte) /\ r \in P
        BY <1>1, <2>1, <3>1
      <4>2. Frames[r] \in Seq(Seq(Byte))
        BY <4>1
      <4>3. <<m>> \o Frames[r] \in Seq(Seq(Byte))
        <5> HIDE DEF m, r, P
        <5> QED BY <4>1, <4>2, Cons
      <4>4. Frames[x] = <<m>> \o Frames[r]
        BY <1>8, <3>1, Zenon
      <4>5. Frames[x] \in Seq(Seq(Byte))
        <5> HIDE DEF m, r, P
        <5> QED BY <4>3, <4>4
      <4> QED BY <4>5
    <3>2. CASE LengthEnds(x) = {} \/ FrameEnd(x) > Len(x)
      <4>1. << >> \in Seq(Seq(Byte))
        BY EmptySeq
      <4>2. Frames[x] = << >>
        BY <1>8, <3>2, Zenon
      <4> QED BY <4>1, <4>2
    <3> QED BY <3>1, <3>2
  <2> HIDE DEF P
  <2>2. Inductive(Seq(Byte), Length(Byte), P)
    BY <2>1, LengthType DEF Inductive
  <2> QED BY <2>2, SizeInduction
<1>10. Frames \in [Seq(Byte) -> Seq(Seq(Byte))]
  <2>1. \A bytes \in Seq(Byte) : Frames[bytes] \in Seq(Seq(Byte))
    BY <1>9
  <2>2. Frames = [bytes \in Seq(Byte) |-> Frames[bytes]]
    BY <1>7
  <2> QED BY <2>1, <2>2
<1> QED BY <1>8, <1>10

LEMMA CutBack ==
    ASSUME NEW S, NEW a \in Seq(S), NEW b \in Seq(S)
    PROVE  /\ SubSeq(a \o b, 1, Len(a)) = a
           /\ SubSeq(a \o b, Len(a) + 1, Len(a \o b)) = b
<1> DEFINE s == a \o b
<1>1. /\ s \in Seq(S) /\ Len(s) = Len(a) + Len(b)
      /\ Len(a) \in Nat /\ Len(b) \in Nat /\ Len(a) \in 0 .. Len(s)
  BY ConcatProperties, LenProperties
<1> DEFINE c == SubSeq(s, 1, Len(a))
           d == SubSeq(s, Len(a) + 1, Len(s))
<1>2. c \in Seq(S) /\ d \in Seq(S) /\ Len(c) = Len(a) /\ s = c \o d
  <2> HIDE DEF s
  <2> QED BY <1>1, CutAt
<1>3. a = c /\ b = d
  <2>1. Joined(s, a, b) /\ Joined(s, c, d)
    BY <1>2, Zenon DEF Joined
  <2> HIDE DEF c, d, s
  <2> QED BY <1>2, <2>1, SameCut
<1> QED BY <1>3

LEMMA Middle ==
    ASSUME NEW S, NEW a \in Seq(S), NEW b \in Seq(S), NEW c \in Seq(S)
    PROVE  SubSeq(a \o (b \o c), Len(a) + 1, Len(a) + Len(b)) = b
<1> DEFINE s == a \o (b \o c)
           m == SubSeq(s, Len(a) + 1, Len(a) + Len(b))
<1>1. Len(a) \in Nat /\ Len(b) \in Nat /\ Len(c) \in Nat
  BY LenProperties
<1>2. /\ b \o c \in Seq(S) /\ Len(b \o c) = Len(b) + Len(c)
      /\ \A i \in 1 .. Len(b) : (b \o c)[i] = b[i]
  BY <1>1, ConcatProperties
<1>3. /\ s \in Seq(S) /\ Len(s) = Len(a) + Len(b \o c)
      /\ \A i \in 1 .. Len(a) + Len(b \o c) :
            s[i] = IF i <= Len(a) THEN a[i] ELSE (b \o c)[i - Len(a)]
  BY <1>2, ConcatProperties
<1> HIDE DEF s
<1>4. ASSUME NEW i \in 1 .. Len(b) PROVE s[Len(a) + i] = b[i]
  <2>1. /\ Len(a) + i \in 1 .. Len(a) + Len(b \o c)
        /\ ~ (Len(a) + i <= Len(a)) /\ (Len(a) + i) - Len(a) = i
    BY <1>1, <1>2
  <2> QED BY <1>2, <1>3, <2>1
<1>5. m \in Seq(S) /\ Len(m) = Len(b) /\ \A i \in 1 .. Len(b) : m[i] = s[Len(a) + i]
  <2>1. /\ Len(a) + 1 \in 1 .. Len(s) + 1 /\ Len(a) + Len(b) \in Len(a) + 1 - 1 .. Len(s)
        /\ Len(a) + Len(b) - (Len(a) + 1) + 1 = Len(b)
    BY <1>1, <1>2, <1>3
  <2>2. m \in Seq(S) /\ Len(m) = Len(b)
    BY <1>3, <2>1, Slice
  <2>3. /\ Len(a) + 1 \in Int /\ Len(a) + Len(b) \in Int
        /\ \A i \in Len(a) + 1 .. Len(a) + Len(b) : s[i] \in S
    <3>1. \A i \in 1 .. Len(s) : s[i] \in S
      BY <1>3, ElementOfSeq
    <3> QED BY <1>1, <1>2, <1>3, <3>1
  <2>4. \A i \in 1 .. Len(a) + Len(b) - (Len(a) + 1) + 1 : m[i] = s[Len(a) + 1 + i - 1]
    BY <2>3, SubSeqProperties
  <2> HIDE DEF m
  <2>5. \A i \in 1 .. Len(b) : Len(a) + 1 + i - 1 = Len(a) + i
    BY <1>1
  <2> QED BY <2>1, <2>2, <2>4, <2>5
<1> HIDE DEF m
<1>6. m = b
  BY <1>4, <1>5, SeqEqual
<1> QED BY <1>6 DEF m, s

(* A frame after whose length there are the bytes r. *)
LEMMA AfterLength ==
    ASSUME NEW n \in Nat, NEW v, IsPrefixOf(n, v), NEW r \in Seq(Byte)
    PROVE  /\ v \o r \in Seq(Byte)
           /\ LengthEnds(v \o r) # {}
           /\ LengthEnd(v \o r) = Len(v)
           /\ FrameEnd(v \o r) = Len(v) + n
           /\ Len(v \o r) = Len(v) + Len(r)
<1> DEFINE x == v \o r
<1>1. /\ v \in Seq(Byte) /\ Len(v) \in Nat /\ Len(v) >= 1 /\ Len(r) \in Nat
      /\ \A i \in 1 .. Len(v) : More(v[i]) <=> i < Len(v)
      /\ ValueOf[v] = n
  BY LenProperties DEF IsPrefixOf
<1>2. /\ x \in Seq(Byte) /\ Len(x) = Len(v) + Len(r)
      /\ \A i \in 1 .. Len(v) : x[i] = v[i]
  BY <1>1, ConcatProperties
<1>3. SubSeq(x, 1, Len(v)) = v
  BY <1>1, CutBack
<1> HIDE DEF x
<1>4. Len(v) \in LengthEnds(x) /\ \A i \in LengthEnds(x) : Len(v) <= i
  <2>1. DOMAIN x = 1 .. Len(v) + Len(r)
    BY <1>2, LenProperties
  <2> QED BY <1>1, <1>2, <2>1 DEF LengthEnds
<1>5. LengthEnd(x) = Len(v)
  <2>1. LengthEnd(x) \in LengthEnds(x) /\ \A j \in LengthEnds(x) : LengthEnd(x) <= j
    BY <1>2, <1>4, FirstFrame
  <2>2. LengthEnd(x) \in 1 .. Len(x)
    BY <1>2, <1>4, FirstFrame
  <2> QED BY <1>1, <1>2, <1>4, <2>1, <2>2
<1>6. FrameEnd(x) = Len(v) + n
  BY <1>1, <1>3, <1>5 DEF FrameEnd
<1> QED BY <1>2, <1>4, <1>5, <1>6 DEF x

LEMMA FrameCut ==
    ASSUME NEW n \in Nat, NEW v, IsPrefixOf(n, v), NEW r \in Seq(Byte), Len(r) < n
    PROVE  Frames[v \o r] = << >>
<1>1. v \o r \in Seq(Byte) /\ LengthEnds(v \o r) # {}
  BY AfterLength
<1>2. FrameEnd(v \o r) > Len(v \o r)
  <2>1. FrameEnd(v \o r) = Len(v) + n /\ Len(v \o r) = Len(v) + Len(r)
    BY AfterLength
  <2>2. Len(v) \in Nat /\ Len(r) \in Nat
    BY LenProperties DEF IsPrefixOf
  <2> QED BY <2>1, <2>2
<1> QED BY <1>1, <1>2, FramesDef

LEMMA FrameWhole ==
    ASSUME NEW m \in Seq(Byte), NEW v, IsPrefixOf(Len(m), v), NEW t \in Seq(Byte)
    PROVE  Frames[v \o (m \o t)] = <<m>> \o Frames[t]
<1> DEFINE x == v \o (m \o t)
<1>1. /\ v \in Seq(Byte) /\ Len(v) \in Nat /\ Len(m) \in Nat /\ Len(t) \in Nat
      /\ m \o t \in Seq(Byte) /\ Len(m \o t) = Len(m) + Len(t)
  BY LenProperties, ConcatProperties DEF IsPrefixOf
<1>2. /\ x \in Seq(Byte) /\ LengthEnds(x) # {} /\ LengthEnd(x) = Len(v)
      /\ FrameEnd(x) = Len(v) + Len(m) /\ Len(x) = Len(v) + (Len(m) + Len(t))
  <2> DEFINE r == m \o t
  <2>1. r \in Seq(Byte) /\ Len(r) = Len(m) + Len(t)
    BY <1>1
  <2> HIDE DEF r
  <2>2. v \o r \in Seq(Byte) /\ LengthEnds(v \o r) # {} /\ LengthEnd(v \o r) = Len(v)
    BY <1>1, <2>1, AfterLength
  <2>3. FrameEnd(v \o r) = Len(v) + Len(m)
    BY <1>1, <2>1, AfterLength
  <2>4. Len(v \o r) = Len(v) + Len(r)
    BY <1>1, <2>1, ConcatProperties
  <2> QED BY <2>1, <2>2, <2>3, <2>4 DEF r
<1>3. SubSeq(x, Len(v) + 1, Len(v) + Len(m)) = m
  BY <1>1, Middle
<1>4. SubSeq(x, Len(v) + Len(m) + 1, Len(x)) = t
  <2>1. x = (v \o m) \o t
    BY <1>1, ConcatAssociative
  <2>2. v \o m \in Seq(Byte) /\ Len(v \o m) = Len(v) + Len(m)
    BY <1>1, ConcatProperties
  <2> DEFINE y == v \o m
  <2>3. SubSeq(y \o t, Len(y) + 1, Len(y \o t)) = t
    <3> HIDE DEF y
    <3> QED BY <2>2, CutBack DEF y
  <2> QED BY <2>1, <2>2, <2>3
<1>5. ~ (FrameEnd(x) > Len(x))
  BY <1>1, <1>2
<1> HIDE DEF x
<1>6. Frames[x] = <<SubSeq(x, LengthEnd(x) + 1, FrameEnd(x))>>
                     \o Frames[SubSeq(x, FrameEnd(x) + 1, Len(x))]
  BY <1>2, <1>5, FramesDef
<1>7. Frames[x] = <<m>> \o Frames[t]
  BY <1>2, <1>3, <1>4, <1>6
<1> QED BY <1>7 DEF x

LEMMA FrameBegun ==
    ASSUME NEW bytes \in Seq(Byte), \A i \in 1 .. Len(bytes) : More(bytes[i])
    PROVE  Frames[bytes] = << >>
<1>1. DOMAIN bytes = 1 .. Len(bytes)
  BY LenProperties
<1>2. LengthEnds(bytes) = {}
  BY <1>1 DEF LengthEnds
<1> QED BY <1>2, FramesDef
-----------------------------------------------------------------------------
(***************************************************************************)
(* A sequence of messages on the wire.                                     *)
(***************************************************************************)
WireStep ==
    [f \in [Seq(Bodies) -> Seq(Byte)] |-> [q \in Seq(Bodies) |->
        IF q = << >> THEN << >> ELSE Frame(Head(q)) \o f[Tail(q)]]]

Wire == CHOOSE f \in [Seq(Bodies) -> Seq(Byte)] : f = WireStep[f]

LEMMA FrameShape ==
    ASSUME NEW b \in Bodies
    PROVE  /\ b \in Seq(Byte) /\ Len(b) \in Nat /\ Len(b) >= 1
           /\ IsPrefixOf(Len(b), Varint[Len(b)])
           /\ Varint[Len(b)] \in Seq(Byte)
           /\ Frame(b) = Varint[Len(b)] \o b
           /\ Frame(b) \in Seq(Byte)
           /\ Frame(b) # << >>
<1>1. b \in Seq(Byte) /\ b # << >>
  BY BodiesAssumption
<1>2. Len(b) \in Nat /\ Len(b) >= 1
  <2>1. Len(b) \in Nat \ {0}
    BY <1>1, EmptySeq
  <2> QED BY <2>1
<1>3. IsPrefixOf(Len(b), Varint[Len(b)])
  BY <1>2, LengthReadsBack
<1>4. Varint[Len(b)] \in Seq(Byte)
  BY <1>3 DEF IsPrefixOf
<1>5. Frame(b) \in Seq(Byte)
  BY <1>1, <1>4, ConcatProperties DEF Frame
<1>6. Frame(b) # << >>
  BY <1>1, <1>4, ConcatEqualIffEmpty DEF Frame
<1> QED BY <1>1, <1>2, <1>3, <1>4, <1>5, <1>6 DEF Frame

LEMMA WireDef ==
    /\ Wire \in [Seq(Bodies) -> Seq(Byte)]
    /\ \A q \in Seq(Bodies) :
          Wire[q] = IF q = << >> THEN << >> ELSE Frame(Head(q)) \o Wire[Tail(q)]
<1>1. ASSUME NEW q \in Seq(Bodies), q # << >>
      PROVE  /\ Frame(Head(q)) \in Seq(Byte)
             /\ Tail(q) \in Seq(Bodies)
             /\ Length(Bodies)[Tail(q)] < Length(Bodies)[q]
  <2>1. /\ Head(q) \in Bodies /\ Tail(q) \in Seq(Bodies)
        /\ Len(Tail(q)) = Len(q) - 1 /\ Len(q) \in Nat
    BY <1>1, Uncons
  <2>2. Frame(Head(q)) \in Seq(Byte)
    BY <2>1, FrameShape
  <2> QED BY <2>1, <2>2 DEF Length
<1>2. ASSUME NEW f \in [Seq(Bodies) -> Seq(Byte)], NEW q \in Seq(Bodies)
      PROVE  (IF q = << >> THEN << >> ELSE Frame(Head(q)) \o f[Tail(q)]) \in Seq(Byte)
  <2>1. CASE q = << >>
    BY <2>1, EmptySeq
  <2>2. CASE q # << >>
    <3> DEFINE b == Frame(Head(q))
               c == f[Tail(q)]
    <3>1. b \in Seq(Byte) /\ c \in Seq(Byte)
      BY <1>1, <2>2
    <3>2. b \o c \in Seq(Byte)
      <4> HIDE DEF b, c
      <4> QED BY <3>1, ConcatProperties
    <3> QED BY <2>2, <3>2
  <2> QED BY <2>1, <2>2
<1>3. WireStep \in [[Seq(Bodies) -> Seq(Byte)] -> [Seq(Bodies) -> Seq(Byte)]]
  BY <1>2 DEF WireStep
<1>4. \A f, g \in [Seq(Bodies) -> Seq(Byte)], x \in Seq(Bodies) :
         (\A y \in Seq(Bodies) : Length(Bodies)[y] < Length(Bodies)[x] => f[y] = g[y])
            => WireStep[f][x] = WireStep[g][x]
  <2> SUFFICES ASSUME NEW f \in [Seq(Bodies) -> Seq(Byte)],
                      NEW g \in [Seq(Bodies) -> Seq(Byte)], NEW x \in Seq(Bodies),
                      \A y \in Seq(Bodies) :
                         Length(Bodies)[y] < Length(Bodies)[x] => f[y] = g[y]
               PROVE  WireStep[f][x] = WireStep[g][x]
    OBVIOUS
  <2>1. x # << >> => f[Tail(x)] = g[Tail(x)]
    BY <1>1
  <2> QED BY <2>1 DEF WireStep
<1>5. \E f \in [Seq(Bodies) -> Seq(Byte)] : f = WireStep[f]
  <2>1. Seq(Byte) # {}
    BY EmptySeq
  <2>2. Recursion(Seq(Bodies), Seq(Byte), Length(Bodies), WireStep)
    BY <1>3, <1>4, <2>1, LengthType DEF Recursion
  <2> QED BY <2>2, RecursionDefines
<1>6. Wire \in [Seq(Bodies) -> Seq(Byte)] /\ Wire = WireStep[Wire]
  BY <1>5 DEF Wire
<1>7. WireStep[Wire] = [q \in Seq(Bodies) |->
                          IF q = << >> THEN << >> ELSE Frame(Head(q)) \o Wire[Tail(q)]]
  BY <1>6 DEF WireStep
<1>8. \A q \in Seq(Bodies) :
         WireStep[Wire][q] = IF q = << >> THEN << >> ELSE Frame(Head(q)) \o Wire[Tail(q)]
  BY <1>7
<1> QED BY <1>6, <1>8

LEMMA WireCons ==
    ASSUME NEW b \in Bodies, NEW q \in Seq(Bodies)
    PROVE  Wire[<<b>> \o q] = Frame(b) \o Wire[q]
<1> DEFINE p == <<b>> \o q
<1>1. p \in Seq(Bodies) /\ p # << >> /\ Head(p) = b /\ Tail(p) = q
  BY Cons
<1> HIDE DEF p
<1>2. Wire[p] = Frame(b) \o Wire[q]
  BY <1>1, WireDef
<1> QED BY <1>2 DEF p

LEMMA WireNil == Wire[<< >>] = << >> /\ << >> \in Seq(Bodies)
<1>1. << >> \in Seq(Bodies)
  BY EmptySeq
<1> QED BY <1>1, WireDef

LEMMA WireType == ASSUME NEW q \in Seq(Bodies) PROVE Wire[q] \in Seq(Byte)
BY WireDef

(* The next message goes to the end of the wire. *)
LEMMA WireAppend ==
    ASSUME NEW b \in Bodies, NEW q \in Seq(Bodies)
    PROVE  Wire[q \o <<b>>] = Wire[q] \o Frame(b)
<1> DEFINE P == {x \in Seq(Bodies) : Wire[x \o <<b>>] = Wire[x] \o Frame(b)}
<1>0. <<b>> \in Seq(Bodies) /\ Frame(b) \in Seq(Byte)
  BY FrameShape
<1>1. ASSUME NEW x \in Seq(Bodies),
             \A y \in Seq(Bodies) : Length(Bodies)[y] < Length(Bodies)[x] => y \in P
      PROVE  x \in P
  <2>1. CASE x = << >>
    <3>1. << >> \o <<b>> = <<b>> /\ <<b>> \o << >> = <<b>>
      BY <1>0, ConcatEmptySeq
    <3>2. Wire[<<b>> \o << >>] = Frame(b) \o << >>
      BY WireCons, WireNil
    <3>3. Frame(b) \o << >> = Frame(b) /\ << >> \o Frame(b) = Frame(b)
      BY <1>0, ConcatEmptySeq
    <3>4. Wire[<< >> \o <<b>>] = Wire[<< >>] \o Frame(b)
      BY <3>1, <3>2, <3>3, WireNil
    <3> QED BY <2>1, <3>4
  <2>2. CASE x # << >>
    <3> DEFINE h == Head(x)
               t == Tail(x)
    <3>1. /\ h \in Bodies /\ t \in Seq(Bodies) /\ x = <<h>> \o t
          /\ Length(Bodies)[t] < Length(Bodies)[x]
      <4>1. /\ h \in Bodies /\ t \in Seq(Bodies) /\ x = <<h>> \o t
            /\ Len(t) = Len(x) - 1 /\ Len(x) \in Nat
        BY <2>2, Uncons
      <4> QED BY <4>1 DEF Length
    <3> HIDE DEF h, t
    <3>2. Wire[t \o <<b>>] = Wire[t] \o Frame(b)
      BY <1>1, <3>1
    <3>3. t \o <<b>> \in Seq(Bodies) /\ <<h>> \in Seq(Bodies)
      BY <1>0, <3>1, ConcatProperties
    <3>4. x \o <<b>> = <<h>> \o (t \o <<b>>)
      BY <1>0, <3>1, <3>3, ConcatAssociative
    <3>5. Wire[x \o <<b>>] = Frame(h) \o (Wire[t] \o Frame(b))
      <4> DEFINE u == t \o <<b>>
      <4>1. u \in Seq(Bodies)
        BY <3>3
      <4>2. Wire[<<h>> \o u] = Frame(h) \o Wire[u]
        <5> HIDE DEF u
        <5> QED BY <3>1, <4>1, WireCons
      <4> QED BY <3>2, <3>4, <4>2
    <3>6. Frame(h) \in Seq(Byte) /\ Wire[t] \in Seq(Byte)
      BY <3>1, FrameShape, WireType
    <3>7. Frame(h) \o (Wire[t] \o Frame(b)) = (Frame(h) \o Wire[t]) \o Frame(b)
      <4> DEFINE f == Frame(h)
                 w == Wire[t]
                 g == Frame(b)
      <4>1. f \in Seq(Byte) /\ w \in Seq(Byte) /\ g \in Seq(Byte)
        BY <1>0, <3>6
      <4>2. f \o (w \o g) = (f \o w) \o g
        <5> HIDE DEF f, g, w
        <5> QED BY <4>1, ConcatAssociative
      <4> QED BY <4>2
    <3>8. Wire[x] = Frame(h) \o Wire[t]
      BY <3>1, WireCons
    <3> QED BY <3>5, <3>7, <3>8
  <2> QED BY <2>1, <2>2
<1>2. \A x \in Seq(Bodies) : x \in P
  <2> HIDE DEF P
  <2>1. Inductive(Seq(Bodies), Length(Bodies), P)
    BY <1>1, LengthType DEF Inductive
  <2> QED BY <2>1, SizeInduction
<1> QED BY <1>2

LEMMA FramesCons ==
    ASSUME NEW b \in Bodies, NEW t \in Seq(Byte)
    PROVE  Frames[Frame(b) \o t] = <<b>> \o Frames[t]
<1> DEFINE v == Varint[Len(b)]
<1>1. /\ b \in Seq(Byte) /\ IsPrefixOf(Len(b), v) /\ v \in Seq(Byte)
      /\ Frame(b) = v \o b
  BY FrameShape
<1> HIDE DEF v
<1>2. Frames[v \o (b \o t)] = <<b>> \o Frames[t]
  BY <1>1, FrameWhole
<1>3. (v \o b) \o t = v \o (b \o t)
  BY <1>1, ConcatAssociative
<1> QED BY <1>1, <1>2, <1>3

LEMMA FramesNil == Frames[<< >>] = << >>
<1>1. << >> \in Seq(Byte) /\ \A i \in 1 .. Len(<< >>) : More(<< >>[i])
  BY EmptySeq
<1> DEFINE e == << >>
<1>2. e \in Seq(Byte) /\ \A i \in 1 .. Len(e) : More(e[i])
  BY <1>1
<1> HIDE DEF e
<1>3. Frames[e] = << >>
  BY <1>2, FrameBegun
<1> QED BY <1>3 DEF e

(* A part of a length announces more bytes. *)
LEMMA LengthBegun ==
    ASSUME NEW n \in Nat, NEW v, IsPrefixOf(n, v),
           NEW bytes \in Seq(Byte), NEW e \in Seq(Byte), bytes \o e = v, e # << >>
    PROVE  \A i \in 1 .. Len(bytes) : More(bytes[i])
<1>1. /\ v \in Seq(Byte) /\ Len(v) = Len(bytes) + Len(e)
      /\ Len(bytes) \in Nat /\ Len(e) \in Nat \ {0}
      /\ \A i \in 1 .. Len(v) : More(v[i]) <=> i < Len(v)
  BY ConcatProperties, LenProperties, EmptySeq DEF IsPrefixOf
<1>2. \A i \in 1 .. Len(bytes) : v[i] = bytes[i]
  <2>1. \A i \in 1 .. Len(bytes) + Len(e) :
           (bytes \o e)[i] = IF i <= Len(bytes) THEN bytes[i] ELSE e[i - Len(bytes)]
    BY ConcatProperties
  <2> QED BY <1>1, <2>1
<1> QED BY <1>1, <1>2

(* A part of a frame is no message yet. *)
LEMMA FramesPartial ==
    ASSUME NEW b \in Bodies, NEW bytes \in Seq(Byte), NEW e \in Seq(Byte),
           bytes \o e = Frame(b), e # << >>
    PROVE  Frames[bytes] = << >>
<1> DEFINE v == Varint[Len(b)]
<1>1. /\ b \in Seq(Byte) /\ Len(b) \in Nat /\ IsPrefixOf(Len(b), v) /\ v \in Seq(Byte)
      /\ Frame(b) = v \o b
  BY FrameShape
<1> HIDE DEF v
<1>2. Len(bytes) \in Nat /\ Len(v) \in Nat /\ Len(e) \in Nat /\ e \o << >> = e
  BY <1>1, LenProperties, ConcatEmptySeq
<1>3. CASE Len(v) <= Len(bytes)
  <2>1. Joined(Frame(b), bytes, e) /\ Joined(Frame(b), v, b)
    BY <1>1, Zenon DEF Joined
  <2>2. PICK r \in Seq(Byte) : Joined(bytes, v, r) /\ Joined(b, r, e)
    BY <1>1, <1>3, <2>1, TwoCuts
  <2>3. Len(r) < Len(b)
    <3>1. Len(b) = Len(r) + Len(e) /\ Len(r) \in Nat /\ Len(e) \in Nat \ {0}
      BY <2>2, ConcatProperties, LenProperties, EmptySeq DEF Joined
    <3> QED BY <3>1
  <2>4. Frames[v \o r] = << >>
    BY <1>1, <2>3, FrameCut
  <2> QED BY <2>2, <2>4, Zenon DEF Joined
<1>4. CASE Len(bytes) < Len(v)
  <2>1. Joined(Frame(b), bytes, e) /\ Joined(Frame(b), v, b)
    BY <1>1, Zenon DEF Joined
  <2>2. PICK r \in Seq(Byte) : Joined(v, bytes, r) /\ Joined(e, r, b)
    <3>1. Len(bytes) <= Len(v)
      BY <1>2, <1>4
    <3> QED BY <1>1, <2>1, <3>1, TwoCuts
  <2>3. r # << >>
    <3>1. bytes \o << >> = bytes
      BY ConcatEmptySeq
    <3>2. r = << >> => v = bytes
      BY <2>2, <3>1, Zenon DEF Joined
    <3> QED BY <1>2, <1>4, <3>2
  <2>4. \A i \in 1 .. Len(bytes) : More(bytes[i])
    <3>1. bytes \o r = v
      BY <2>2, Zenon DEF Joined
    <3> QED BY <1>1, <2>3, <3>1, LengthBegun
  <2> QED BY <2>4, FrameBegun
<1> QED BY <1>2, <1>3, <1>4

(* What has come of some messages is the first of them, and all of them if *)
(* nothing is missing.                                                     *)
FirstOf(f, q, all) ==
    \E t \in Seq(Bodies) : f \in Seq(Bodies) /\ q = f \o t /\ (all => t = << >>)

Leads(f, q) == \E t \in Seq(Bodies) : f \in Seq(Bodies) /\ q = f \o t

FramesFirst(q) ==
    \A bytes, w \in Seq(Byte) : bytes \o w = Wire[q] => FirstOf(Frames[bytes], q, w = << >>)

(* The frames of any messages, cut off anywhere: the bytes are read as the *)
(* first of these messages and nothing else.  In particular no two         *)
(* sequences of messages look the same on the wire.                        *)
THEOREM FramesOfPrefix == \A q \in Seq(Bodies) : FramesFirst(q)
<1> DEFINE P == {q \in Seq(Bodies) : FramesFirst(q)}
<1>1. ASSUME NEW q \in Seq(Bodies),
             \A y \in Seq(Bodies) : Length(Bodies)[y] < Length(Bodies)[q] => y \in P
      PROVE  FramesFirst(q)
  <2> SUFFICES ASSUME NEW bytes \in Seq(Byte), NEW w \in Seq(Byte), bytes \o w = Wire[q]
               PROVE  FirstOf(Frames[bytes], q, w = << >>)
    BY DEF FramesFirst
  <2>1. << >> \in Seq(Bodies) /\ << >> \o << >> = << >> /\ << >> \o q = q
    BY EmptySeq, ConcatEmptySeq
  <2>2. CASE q = << >>
    <3>1. bytes = << >> /\ w = << >>
      <4>1. bytes \o w = << >>
        BY <2>2, WireNil
      <4> QED BY <4>1, ConcatEqualIffEmpty
    <3>2. Frames[bytes] = << >>
      BY <3>1, FramesNil
    <3> QED BY <2>1, <2>2, <3>2 DEF FirstOf
  <2>3. CASE q # << >>
    <3> DEFINE b == Head(q)
               p == Tail(q)
    <3>1. /\ b \in Bodies /\ p \in Seq(Bodies) /\ q = <<b>> \o p
          /\ Length(Bodies)[p] < Length(Bodies)[q]
      <4>1. /\ b \in Bodies /\ p \in Seq(Bodies) /\ q = <<b>> \o p
            /\ Len(p) = Len(q) - 1 /\ Len(q) \in Nat
        BY <2>3, Uncons
      <4> QED BY <4>1 DEF Length
    <3> HIDE DEF b, p
    <3>2. FramesFirst(p)
      BY <1>1, <3>1
    <3> DEFINE g == Frame(b)
               x == Wire[p]
    <3>3. g \in Seq(Byte) /\ x \in Seq(Byte) /\ Joined(Wire[q], bytes, w) /\ Joined(Wire[q], g, x)
      <4>1. Wire[q] = Frame(b) \o Wire[p]
        BY <3>1, WireCons
      <4>2. Frame(b) \in Seq(Byte) /\ Wire[p] \in Seq(Byte)
        BY <3>1, FrameShape, WireType
      <4> QED BY <4>1, <4>2, Zenon DEF Joined
    <3>4. Len(g) \in Nat /\ Len(bytes) \in Nat
      <4> HIDE DEF g
      <4> QED BY <3>3, LenProperties
    <3>5. CASE Len(g) <= Len(bytes)
      <4>1. PICK e \in Seq(Byte) : bytes = g \o e /\ e \o w = x
        <5> HIDE DEF g, x
        <5>1. \E e \in Seq(Byte) : Joined(bytes, g, e) /\ Joined(x, e, w)
          BY <3>3, <3>5, TwoCuts
        <5> QED BY <5>1, Zenon DEF Joined
      <4>2. FirstOf(Frames[e], p, w = << >>)
        BY <3>2, <4>1 DEF FramesFirst
      <4>3. PICK t \in Seq(Bodies) :
               Frames[e] \in Seq(Bodies) /\ p = Frames[e] \o t /\ (w = << >> => t = << >>)
        BY <4>2 DEF FirstOf
      <4>4. Frames[bytes] = <<b>> \o Frames[e]
        BY <3>1, <4>1, FramesCons
      <4> DEFINE f == Frames[e]
      <4>5. <<b>> \in Seq(Bodies) /\ f \in Seq(Bodies) /\ p = f \o t
        BY <3>1, <4>3
      <4> HIDE DEF f
      <4>6. <<b>> \o f \in Seq(Bodies)
        BY <4>5, ConcatProperties
      <4>7. (<<b>> \o f) \o t = <<b>> \o (f \o t)
        BY <4>5, ConcatAssociative
      <4>8. q = (<<b>> \o f) \o t
        BY <3>1, <4>5, <4>7, Zenon
      <4> QED BY <4>3, <4>4, <4>6, <4>8, Zenon DEF FirstOf, f
    <3>6. CASE Len(bytes) < Len(g)
      <4>1. PICK e \in Seq(Byte) : g = bytes \o e /\ e \o x = w
        <5> HIDE DEF g, x
        <5>1. Len(bytes) <= Len(g)
          BY <3>4, <3>6
        <5>2. \E e \in Seq(Byte) : Joined(g, bytes, e) /\ Joined(w, e, x)
          BY <3>3, <5>1, TwoCuts
        <5> QED BY <5>2, Zenon DEF Joined
      <4>2. e # << >>
        <5>1. bytes \o << >> = bytes
          BY ConcatEmptySeq
        <5> QED BY <3>4, <3>6, <4>1, <5>1
      <4>3. Frames[bytes] = << >>
        <5>1. bytes \o e = Frame(b)
          BY <4>1
        <5> QED BY <3>1, <4>2, <5>1, FramesPartial
      <4>4. w # << >>
        <5> HIDE DEF g, x
        <5> QED BY <3>3, <4>1, <4>2, ConcatEqualIffEmpty
      <4> QED BY <2>1, <4>3, <4>4 DEF FirstOf
    <3> QED BY <3>4, <3>5, <3>6
  <2> QED BY <2>2, <2>3
<1>2. \A q \in Seq(Bodies) : q \in P
  <2>1. \A q \in Seq(Bodies) :
           (\A y \in Seq(Bodies) : Length(Bodies)[y] < Length(Bodies)[q] => y \in P) => q \in P
    BY <1>1
  <2> HIDE DEF P
  <2>2. Inductive(Seq(Bodies), Length(Bodies), P)
    BY <2>1, LengthType DEF Inductive
  <2> QED BY <2>2, SizeInduction
<1> QED BY <1>2
-----------------------------------------------------------------------------
(***************************************************************************)
(* Type correctness.                                                       *)
(***************************************************************************)
TypeInv ==
    /\ TypeOK
    /\ pc = "prefix" => Len(prefix) <= MaxPrefix
    /\ ~ open => unsent = << >>

LEMMA AllRead ==
    ASSUME NEW S, NEW s \in Seq(S)
    PROVE  SubSeq(s, Len(s) + 1, Len(s)) = << >>
<1>1. Len(s) \in Nat /\ Len(s) \in 0 .. Len(s)
  BY LenProperties
<1>2. /\ SubSeq(s, Len(s) + 1, Len(s)) \in Seq(S)
      /\ Len(SubSeq(s, Len(s) + 1, Len(s))) = Len(s) - Len(s)
  BY <1>1, CutAt
<1>3. Len(SubSeq(s, Len(s) + 1, Len(s))) = 0
  BY <1>1, <1>2
<1> QED BY <1>2, <1>3, EmptySeq

LEMMA PrefixTyped ==
    ASSUME TypeOK
    PROVE  /\ stream \in Seq(Byte) /\ Len(stream) \in Nat /\ Len(stream) <= Capacity
           /\ unsent \in Seq(Byte) /\ prefix \in Seq(Byte) /\ received \in Seq(Byte)
           /\ writing \in Seq(Byte) /\ Len(prefix) \in Nat
           /\ Announced \in Nat
<1>1. /\ stream \in Seq(Byte) /\ Len(stream) <= Capacity
      /\ unsent \in Seq(Byte) /\ prefix \in Seq(Byte) /\ received \in Seq(Byte)
      /\ writing \in Seq(Byte)
  BY DEF TypeOK
<1> QED BY <1>1, LenProperties, ValueOfDef DEF Announced

LEMMA InitTyped == Init => TypeInv
<1> SUFFICES ASSUME Init PROVE TypeInv
  OBVIOUS
<1>1. << >> \in Seq(Byte) /\ Len(<< >>) = 0
  BY EmptySeq
<1>2. MaxPrefix \in Nat /\ Capacity \in Nat
  BY BoundsAssumption
<1>3. /\ stream \in Seq(Byte) /\ Len(stream) = 0 /\ prefix \in Seq(Byte) /\ Len(prefix) = 0
      /\ unsent \in Seq(Byte) /\ received \in Seq(Byte)
      /\ writing \in Seq(Byte) /\ writing \in Bodies \cup {<< >>}
  BY <1>1 DEF Init
<1>4. /\ open = TRUE /\ interrupted = FALSE /\ pc = "prefix" /\ reading = "command"
  BY DEF Init
<1>5. Len(stream) <= Capacity /\ Len(prefix) <= MaxPrefix + 1 /\ Len(prefix) <= MaxPrefix
  BY <1>2, <1>3
<1>6. {stream, unsent, prefix, received, writing} \subseteq Seq(Byte)
  BY <1>3
<1>7. TypeOK
  BY <1>3, <1>4, <1>5, <1>6 DEF TypeOK
<1> QED BY <1>4, <1>5, <1>7 DEF TypeInv

LEMMA WriteTyped ==
    ASSUME TypeInv, NEW body \in Bodies, Write(body)
    PROVE  TypeInv'
<1>1. body \in Seq(Byte) /\ Frame(body) \in Seq(Byte)
  BY FrameShape
<1> QED BY <1>1 DEF Write, TypeInv, TypeOK, reader

LEMMA AcceptTyped ==
    ASSUME TypeInv, Accept
    PROVE  TypeInv'
<1>1. /\ Head(unsent) \in Byte /\ Tail(unsent) \in Seq(Byte)
      /\ Append(stream, Head(unsent)) \in Seq(Byte)
      /\ Len(Append(stream, Head(unsent))) = Len(stream) + 1
  BY PrefixTyped, HeadTailProperties, AppendProperties DEF TypeInv, Accept
<1>2. Len(stream) \in Nat /\ Capacity \in Nat /\ open
  BY PrefixTyped, BoundsAssumption DEF TypeInv, Accept
<1>3. stream' \in Seq(Byte) /\ unsent' \in Seq(Byte) /\ Len(stream') <= Capacity
  BY <1>1, <1>2 DEF Accept
<1> QED BY <1>2, <1>3 DEF Accept, TypeInv, TypeOK, reader

LEMMA InterruptedTyped ==
    ASSUME TypeInv, SendInterrupted
    PROVE  TypeInv'
<1>1. << >> \in Seq(Byte)
  BY EmptySeq
<1>2. open' \in BOOLEAN /\ interrupted' \in BOOLEAN
  BY DEF SendInterrupted, TypeInv, TypeOK
<1> QED BY <1>1, <1>2 DEF SendInterrupted, TypeInv, TypeOK, reader

LEMMA DisconnectTyped ==
    ASSUME TypeInv, Disconnect
    PROVE  TypeInv'
<1>1. PICK arriving \in 0 .. Len(stream) : stream' = SubSeq(stream, 1, arriving)
  BY DEF Disconnect
<1>2. stream' \in Seq(Byte) /\ Len(stream') <= Capacity
  <2>1. stream' \in Seq(Byte) /\ Len(stream') = arriving
    BY <1>1, PrefixTyped, CutAt DEF TypeInv
  <2> QED BY <1>1, <2>1, PrefixTyped, BoundsAssumption DEF TypeInv
<1>3. << >> \in Seq(Byte)
  BY EmptySeq
<1> QED BY <1>2, <1>3 DEF Disconnect, TypeInv, TypeOK, reader

LEMMA ReadPrefixTyped ==
    ASSUME TypeInv, ReadPrefix
    PROVE  TypeInv'
<1>0. Radix \in Nat /\ Radix > 1 /\ MaxPrefix \in Nat /\ Capacity \in Nat
  BY RadixAssumption, BoundsAssumption
<1>1. /\ prefix \in Seq(Byte) /\ stream \in Seq(Byte) /\ Len(prefix) \in Nat
      /\ Len(prefix) <= MaxPrefix /\ pc = "prefix"
  BY PrefixTyped DEF TypeInv, ReadPrefix
<1>2. PICK byte \in IF stream # << >> THEN {Head(stream)}
                    ELSE IF prefix = << >> THEN Byte ELSE {0} :
         prefix' = Append(prefix, byte) /\ pc' = AfterByte(prefix')
  BY DEF ReadPrefix
<1>3. byte \in Byte
  <2>1. 0 \in Byte
    BY <1>0 DEF Byte
  <2>2. stream # << >> => Head(stream) \in Byte
    BY <1>1, HeadTailProperties
  <2> QED BY <1>2, <2>1, <2>2
<1>4. prefix' \in Seq(Byte) /\ Len(prefix') = Len(prefix) + 1
  BY <1>1, <1>2, <1>3, AppendProperties
<1>5. stream' \in Seq(Byte) /\ Len(stream') <= Capacity
  <2>1. CASE stream # << >>
    <3>1. stream' = Tail(stream)
      BY <2>1 DEF ReadPrefix
    <3>2. Tail(stream) \in Seq(Byte) /\ Len(Tail(stream)) = Len(stream) - 1
      BY <1>1, <2>1, HeadTailProperties
    <3> QED BY <1>0, <3>1, <3>2, PrefixTyped DEF TypeInv
  <2>2. CASE stream = << >>
    BY <2>2 DEF ReadPrefix, TypeInv, TypeOK
  <2> QED BY <2>1, <2>2
<1>6. /\ pc' \in {"prefix", "body", "closed", "exited"}
      /\ pc' = "prefix" => Len(prefix') <= MaxPrefix
  <2>1. Len(prefix') \in Nat
    BY <1>1, <1>4
  <2> QED BY <1>0, <1>2, <2>1 DEF AfterByte, Failure
<1> QED BY <1>0, <1>1, <1>4, <1>5, <1>6 DEF ReadPrefix, TypeInv, TypeOK, writer

LEMMA TakeTyped ==
    ASSUME TypeInv, NEW n \in 0 .. Len(stream), Take(n)
    PROVE  stream' \in Seq(Byte) /\ Len(stream') = Len(stream) - n /\ Len(stream') <= Capacity
<1>1. stream' \in Seq(Byte) /\ Len(stream') = Len(stream) - n
  BY PrefixTyped, CutAt DEF TypeInv, Take
<1> QED BY <1>1, PrefixTyped, BoundsAssumption DEF TypeInv

LEMMA DeliverTyped ==
    ASSUME TypeInv, Deliver
    PROVE  TypeInv'
<1>1. Announced \in 0 .. Len(stream) /\ Take(Announced)
  BY PrefixTyped DEF Deliver, Complete, TypeInv
<1>2. stream' \in Seq(Byte) /\ Len(stream') <= Capacity
  BY <1>1, TakeTyped
<1>3. SubSeq(stream, 1, Announced) \in Seq(Byte)
  BY <1>1, PrefixTyped, CutAt DEF TypeInv
<1>4. << >> \in Seq(Byte) /\ Len(<< >>) = 0 /\ MaxPrefix \in Nat
  BY EmptySeq, BoundsAssumption
<1>5. /\ received' \in Seq(Byte) /\ pc' \in {"prefix", "closed"}
      /\ reading' \in {"command", "message"}
  BY <1>3 DEF Deliver, TypeInv, TypeOK
<1>6. prefix' = << >> /\ UNCHANGED <<open, writing, unsent, interrupted>>
  BY DEF Deliver, writer
<1> QED BY <1>2, <1>4, <1>5, <1>6 DEF TypeInv, TypeOK

(* Whatever the reader does after an incomplete read, it leaves no bytes. *)
LEMMA CutShortTyped ==
    ASSUME TypeInv, CutShort, Take(Len(stream)), UNCHANGED <<writer, reading, prefix, received>>,
           pc' \in {"again", "closed", "exited"}
    PROVE  TypeInv' /\ stream' = << >>
<1>1. stream' = << >>
  BY PrefixTyped, AllRead DEF TypeInv, Take
<1>2. << >> \in Seq(Byte) /\ Len(<< >>) = 0 /\ Capacity \in Nat
  BY EmptySeq, BoundsAssumption
<1>3. interrupted' \in BOOLEAN
  BY DEF CutShort, TypeInv, TypeOK
<1> QED BY <1>1, <1>2, <1>3 DEF TypeInv, TypeOK, writer

LEMMA StepTyped == TypeInv /\ [Next]_vars => TypeInv'
<1> SUFFICES ASSUME TypeInv, [Next]_vars PROVE TypeInv'
  OBVIOUS
<1>1. ASSUME NEW body \in Bodies, Write(body) PROVE TypeInv'
  BY <1>1, WriteTyped
<1>2. CASE Accept
  BY <1>2, AcceptTyped
<1>3. CASE SendInterrupted
  BY <1>3, InterruptedTyped
<1>4. CASE Disconnect
  BY <1>4, DisconnectTyped
<1>5. CASE ReadPrefix
  BY <1>5, ReadPrefixTyped
<1>6. CASE ReadBody
  BY <1>6, DeliverTyped DEF ReadBody
<1>7. CASE MessageCutShort
  BY <1>7, CutShortTyped DEF MessageCutShort
<1>8. CASE CommandCutShort
  BY <1>8, CutShortTyped DEF CommandCutShort
<1>9. CASE SecondCutShort
  BY <1>9, CutShortTyped DEF SecondCutShort
<1>10. CASE UNCHANGED vars
  BY <1>10 DEF TypeInv, TypeOK, vars, writer, reader
<1> QED BY <1>1, <1>2, <1>3, <1>4, <1>5, <1>6, <1>7, <1>8, <1>9, <1>10 DEF Next, Read

(* Every variable keeps its type: the stream is never longer than the      *)
(* buffers, and a length never has more than one byte too many.            *)
THEOREM TypeCorrect == Spec => []TypeOK
<1>1. Init => TypeInv
  BY InitTyped
<1>2. TypeInv /\ [Next]_vars => TypeInv'
  BY StepTyped
<1>3. TypeInv => TypeOK
  BY DEF TypeInv
<1> QED BY <1>1, <1>2, <1>3, PTL DEF Spec
-----------------------------------------------------------------------------
(***************************************************************************)
(* The bytes that the reader has, that TCP carries and that the writer has *)
(* still to send, and how the actions move them.                           *)
(***************************************************************************)
Bytes == prefix \o stream \o unsent

LEMMA Regroup ==
    ASSUME NEW S, NEW a \in Seq(S), NEW b \in Seq(S), NEW c \in Seq(S),
           NEW x, Joined(x, a, b), NEW y, Joined(y, x, c), NEW z, Joined(z, b, c)
    PROVE  Joined(y, a, z)
<1>1. (a \o b) \o c = a \o (b \o c)
  BY ConcatAssociative
<1> QED BY <1>1, Zenon DEF Joined

LEMMA Shift ==
    ASSUME NEW S, NEW a \in Seq(S), NEW b \in Seq(S), NEW c \in Seq(S), NEW d \in Seq(S),
           NEW x, Joined(x, b, c), NEW y, Joined(y, a, x), NEW z, Joined(z, y, d),
           NEW u, Joined(u, a, b), NEW w, Joined(w, c, d)
    PROVE  Joined(z, u, w)
<1>1. a \o b \in Seq(S) /\ u = a \o b
  BY ConcatProperties, Zenon DEF Joined
<1>2. Joined(u \o c, u, c)
  BY Zenon DEF Joined
<1>3. Joined(u \o c, a, x)
  BY <1>2, Regroup
<1>4. y = u \o c
  BY <1>3, Zenon DEF Joined
<1>5. u \in Seq(S)
  BY <1>1
<1>6. Joined(z, u \o c, d)
  BY <1>4
<1> HIDE <1>1
<1> QED BY <1>2, <1>5, <1>6, Regroup

LEMMA BytesType ==
    ASSUME TypeOK
    PROVE  prefix \o stream \in Seq(Byte) /\ Bytes \in Seq(Byte)
<1> DEFINE a == prefix \o stream
<1>1. a \in Seq(Byte) /\ unsent \in Seq(Byte)
  BY PrefixTyped, ConcatProperties
<1>2. a \o unsent \in Seq(Byte)
  <2> HIDE DEF a
  <2> QED BY <1>1, ConcatProperties
<1> QED BY <1>1, <1>2, Zenon DEF Bytes

LEMMA NothingUnsent ==
    ASSUME TypeOK, unsent = << >>
    PROVE  Bytes = prefix \o stream
<1> DEFINE a == prefix \o stream
<1>1. a \in Seq(Byte)
  BY BytesType
<1>2. a \o << >> = a
  <2> HIDE DEF a
  <2> QED BY <1>1, ConcatEmptySeq
<1> QED BY <1>2, Zenon DEF Bytes

LEMMA WriteBytes ==
    ASSUME TypeOK, NEW body \in Bodies, Write(body)
    PROVE  Joined(Bytes', Bytes, Frame(body))
<1>1. Bytes = prefix \o stream
  BY NothingUnsent DEF Write
<1>2. prefix' = prefix /\ stream' = stream /\ unsent' = Frame(body)
  BY DEF Write, reader
<1>3. Bytes' = (prefix \o stream) \o Frame(body)
  BY <1>2, Zenon DEF Bytes
<1> QED BY <1>1, <1>3, Zenon DEF Joined

LEMMA AcceptBytes ==
    ASSUME TypeOK, Accept
    PROVE  Bytes' = Bytes
<1> DEFINE h == Head(unsent)
           t == Tail(unsent)
<1>1. h \in Byte /\ t \in Seq(Byte) /\ unsent = <<h>> \o t
  BY PrefixTyped, Uncons DEF Accept
<1>2. prefix' = prefix /\ unsent' = t /\ stream' = Append(stream, h)
  BY DEF Accept, reader
<1> HIDE DEF h, t
<1>3. Append(stream, h) = stream \o <<h>>
  BY <1>1, PrefixTyped, AppendIsConcat
<1>4. <<h>> \in Seq(Byte) /\ prefix \in Seq(Byte) /\ stream \in Seq(Byte)
  BY <1>1, PrefixTyped
<1>5. /\ Joined(stream', stream, <<h>>) /\ Joined(prefix \o stream', prefix, stream')
      /\ Joined(Bytes', prefix \o stream', t) /\ Joined(unsent, <<h>>, t)
      /\ Joined(prefix \o stream, prefix, stream)
  BY <1>1, <1>2, <1>3, Zenon DEF Joined, Bytes
<1>6. Joined(Bytes', prefix \o stream, unsent)
  <2> DEFINE g == <<h>>
             y == prefix \o stream'
             u == prefix \o stream
  <2>1. /\ g \in Seq(Byte) /\ Joined(stream', stream, g) /\ Joined(y, prefix, stream')
        /\ Joined(Bytes', y, t) /\ Joined(unsent, g, t) /\ Joined(u, prefix, stream)
    BY <1>4, <1>5
  <2> HIDE DEF g, y, u
  <2>2. Joined(Bytes', u, unsent)
    BY <1>1, <1>4, <2>1, Shift
  <2> QED BY <2>2 DEF u
<1> QED BY <1>6, Zenon DEF Joined, Bytes

LEMMA InterruptedBytes ==
    ASSUME TypeOK, SendInterrupted
    PROVE  Joined(Bytes, Bytes', unsent)
<1> DEFINE a == prefix \o stream
<1>1. a \in Seq(Byte)
  BY BytesType
<1>2. a \o << >> = a
  <2> HIDE DEF a
  <2> QED BY <1>1, ConcatEmptySeq
<1>3. prefix' = prefix /\ stream' = stream /\ unsent' = << >>
  BY DEF SendInterrupted, reader
<1>4. Bytes' = a
  BY <1>2, <1>3, Zenon DEF Bytes
<1> QED BY <1>4, Zenon DEF Joined, Bytes

LEMMA DisconnectBytes ==
    ASSUME TypeOK, Disconnect
    PROVE  \E lost \in Seq(Byte) : Joined(Bytes, Bytes', lost)
<1>1. PICK n \in 0 .. Len(stream) : stream' = SubSeq(stream, 1, n)
  BY DEF Disconnect
<1> DEFINE a == SubSeq(stream, 1, n)
           b == SubSeq(stream, n + 1, Len(stream))
<1>2. a \in Seq(Byte) /\ b \in Seq(Byte) /\ stream = a \o b
  BY PrefixTyped, CutAt
<1>3. prefix' = prefix /\ stream' = a /\ unsent' = << >>
  BY <1>1 DEF Disconnect, reader
<1> HIDE DEF a, b
<1>4. prefix \in Seq(Byte) /\ unsent \in Seq(Byte)
  BY PrefixTyped
<1>5. /\ Joined(stream, a, b) /\ Joined(prefix \o stream, prefix, stream)
      /\ Joined(Bytes, prefix \o stream, unsent)
      /\ Joined(prefix \o a, prefix, a) /\ Joined(b \o unsent, b, unsent)
  BY <1>2, Zenon DEF Joined, Bytes
<1>6. prefix \o a \in Seq(Byte) /\ b \o unsent \in Seq(Byte)
  BY <1>2, <1>4, ConcatProperties
<1> DEFINE c == prefix \o a
<1>7. c \o << >> = c
  <2> HIDE DEF c
  <2>1. c \in Seq(Byte)
    BY <1>6 DEF c
  <2> QED BY <2>1, ConcatEmptySeq
<1>8. Bytes' = c
  BY <1>3, <1>7, Zenon DEF Bytes
<1>9. Joined(Bytes, prefix \o a, b \o unsent)
  BY <1>2, <1>4, <1>5, Shift
<1>10. Joined(Bytes, Bytes', b \o unsent)
  BY <1>8, <1>9
<1> QED BY <1>6, <1>10

LEMMA ReadPrefixBytes ==
    ASSUME TypeOK, ReadPrefix, stream # << >>
    PROVE  /\ Bytes' = Bytes
           /\ prefix' = prefix \o <<Head(stream)>>
           /\ prefix' = Append(prefix, Head(stream))
           /\ Head(stream) \in Byte
           /\ pc' = AfterByte(prefix')
<1> DEFINE h == Head(stream)
           t == Tail(stream)
<1>1. h \in Byte /\ t \in Seq(Byte) /\ stream = <<h>> \o t
  BY PrefixTyped, Uncons
<1>2. /\ unsent' = unsent /\ stream' = t /\ prefix' = Append(prefix, h)
      /\ pc' = AfterByte(prefix')
  BY DEF ReadPrefix, writer
<1> HIDE DEF h, t
<1>3. Append(prefix, h) = prefix \o <<h>>
  BY <1>1, PrefixTyped, AppendIsConcat
<1>4. <<h>> \in Seq(Byte) /\ prefix \in Seq(Byte) /\ unsent \in Seq(Byte)
  BY <1>1, PrefixTyped
<1>5. /\ Joined(prefix', prefix, <<h>>) /\ Joined(prefix' \o t, prefix', t)
      /\ Joined(stream, <<h>>, t) /\ Joined(prefix \o stream, prefix, stream)
      /\ Joined(Bytes', prefix' \o t, unsent)
  BY <1>1, <1>2, <1>3, Zenon DEF Joined, Bytes
<1>6. Joined(prefix' \o t, prefix, stream)
  BY <1>1, <1>4, <1>5, Regroup
<1>7. Bytes' = Bytes
  BY <1>5, <1>6, Zenon DEF Joined, Bytes
<1> QED BY <1>1, <1>2, <1>3, <1>7 DEF h

LEMMA DeliverBytes ==
    ASSUME TypeOK, Deliver
    PROVE  LET body == SubSeq(stream, 1, Announced)
           IN  /\ body \in Seq(Byte) /\ Len(body) = Announced
               /\ Joined(Bytes, prefix \o body, Bytes')
               /\ prefix \o body \in Seq(Byte)
<1> DEFINE a == SubSeq(stream, 1, Announced)
           b == SubSeq(stream, Announced + 1, Len(stream))
<1>1. Announced \in 0 .. Len(stream)
  BY PrefixTyped DEF Deliver, Complete
<1>2. a \in Seq(Byte) /\ Len(a) = Announced /\ b \in Seq(Byte) /\ stream = a \o b
  BY <1>1, PrefixTyped, CutAt
<1>3. prefix' = << >> /\ stream' = b /\ unsent' = unsent
  BY DEF Deliver, Take, writer
<1> HIDE DEF a, b
<1>4. prefix \in Seq(Byte) /\ unsent \in Seq(Byte) /\ << >> \o b = b
  BY <1>2, PrefixTyped, ConcatEmptySeq
<1>5. /\ Joined(stream, a, b) /\ Joined(prefix \o stream, prefix, stream)
      /\ Joined(Bytes, prefix \o stream, unsent)
      /\ Joined(prefix \o a, prefix, a) /\ Joined(Bytes', b, unsent)
  BY <1>2, <1>3, <1>4, Zenon DEF Joined, Bytes
<1>6. Joined(Bytes, prefix \o a, Bytes')
  BY <1>2, <1>4, <1>5, Shift
<1>7. prefix \o a \in Seq(Byte)
  BY <1>2, <1>4, ConcatProperties
<1> QED BY <1>2, <1>6, <1>7 DEF a

LEMMA NextBytesType ==
    ASSUME TypeOK'
    PROVE  /\ stream' \in Seq(Byte) /\ prefix' \in Seq(Byte) /\ unsent' \in Seq(Byte)
           /\ Bytes' \in Seq(Byte)
           /\ \E z \in Seq(Byte) : Joined(Bytes', prefix', z)
<1>1. stream' \in Seq(Byte) /\ unsent' \in Seq(Byte) /\ prefix' \in Seq(Byte)
  BY DEF TypeOK
<1>2. prefix' \o stream' \in Seq(Byte) /\ stream' \o unsent' \in Seq(Byte)
  BY <1>1, ConcatProperties
<1> DEFINE a == prefix' \o stream'
           z == stream' \o unsent'
<1>3. /\ Joined(a, prefix', stream') /\ Joined(Bytes', a, unsent') /\ Joined(z, stream', unsent')
      /\ a \in Seq(Byte) /\ z \in Seq(Byte)
  BY <1>2, Zenon DEF Joined, Bytes
<1> HIDE DEF a, z
<1>4. Joined(Bytes', prefix', z)
  BY <1>1, <1>3, Regroup
<1>5. Bytes' \in Seq(Byte)
  <2>1. a \o unsent' \in Seq(Byte)
    BY <1>1, <1>3, ConcatProperties
  <2> QED BY <1>3, <2>1, Zenon DEF Joined
<1> QED BY <1>1, <1>3, <1>4, <1>5

-----------------------------------------------------------------------------
(***************************************************************************)
(* What the two ends have in common.  Some messages q, the one being       *)
(* written and the one being read included, are on the wire: the bytes on  *)
(* their way are those of q up to a part, rest, which got lost with the    *)
(* connection.                                                             *)
(***************************************************************************)
Expected == IF reading = "command" THEN Commands ELSE Messages

Carries(q, rest) == Joined(Wire[q], Bytes, rest) /\ (open => rest = << >>)

Orderly(q) == \A i \in 1 .. Len(q) - 1 : q[i + 1] \in Follow(q[i])

(* The reader expects the first of them, and what it has read so far is a  *)
(* part of its length, or all of it.                                       *)
ReaderAt(q) ==
    /\ q # << >> => Head(q) \in Expected
    /\ pc \in {"prefix", "body"}
    /\ pc = "prefix" => \A i \in 1 .. Len(prefix) : More(prefix[i])
    /\ pc = "body" => q # << >> /\ prefix = Varint[Len(Head(q))]

(* The writer goes on after the last of them, or, if there are none, where *)
(* the reader goes on.                                                     *)
WriterAt(q) ==
    open => /\ q # << >> => q[Len(q)] = writing
            /\ q = << >> => Follow(writing) = Expected

Consistent(q, rest) == Carries(q, rest) /\ Orderly(q) /\ ReaderAt(q) /\ WriterAt(q)

Sound == \E q \in Seq(Bodies), rest \in Seq(Byte) : Consistent(q, rest)

IInv == TypeInv /\ (interrupted \/ AtEnd \/ Sound)

LEMMA OrderlyAppend ==
    ASSUME NEW q \in Seq(Bodies), Orderly(q), NEW b \in Bodies,
           q # << >> => b \in Follow(q[Len(q)])
    PROVE  /\ Append(q, b) \in Seq(Bodies) /\ Append(q, b) # << >>
           /\ Append(q, b)[Len(Append(q, b))] = b
           /\ Head(Append(q, b)) = IF q = << >> THEN b ELSE Head(q)
           /\ Orderly(Append(q, b))
<1> DEFINE p == Append(q, b)
<1>1. /\ p \in Seq(Bodies) /\ p # << >> /\ Len(p) = Len(q) + 1
      /\ \A i \in 1 .. Len(q) : p[i] = q[i]
      /\ p[Len(q) + 1] = b /\ Len(q) \in Nat
      /\ q # << >> => Len(q) \in Nat \ {0}
  BY AppendProperties, LenProperties, EmptySeq
<1>2. Head(p) = IF q = << >> THEN b ELSE Head(q)
  BY HeadTailAppend
<1> HIDE DEF p
<1>3. ASSUME NEW i \in 1 .. Len(p) - 1 PROVE p[i + 1] \in Follow(p[i])
  <2>1. i \in 1 .. Len(q) /\ q # << >>
    BY <1>1, EmptySeq
  <2>2. CASE i = Len(q)
    BY <1>1, <2>1, <2>2
  <2>3. CASE i # Len(q)
    <3>1. i \in 1 .. Len(q) - 1 /\ i + 1 \in 1 .. Len(q)
      BY <1>1, <2>1, <2>3
    <3> QED BY <1>1, <2>1, <3>1 DEF Orderly
  <2> QED BY <2>2, <2>3
<1> QED BY <1>1, <1>2, <1>3 DEF Orderly, p

LEMMA OrderlyTail ==
    ASSUME NEW q \in Seq(Bodies), Orderly(q), q # << >>
    PROVE  /\ Orderly(Tail(q))
           /\ Tail(q) # << >> => /\ Head(Tail(q)) \in Follow(Head(q))
                                 /\ Tail(q)[Len(Tail(q))] = q[Len(q)]
           /\ Tail(q) = << >> => q[Len(q)] = Head(q)
<1> DEFINE t == Tail(q)
<1>1. /\ t \in Seq(Bodies) /\ Head(q) = q[1] /\ Len(q) \in Nat /\ Len(t) = Len(q) - 1
      /\ \A i \in 1 .. Len(q) - 1 : t[i] = q[i + 1]
      /\ t # << >> => Head(t) = t[1] /\ Len(t) \in Nat \ {0}
      /\ t = << >> => Len(t) = 0
  BY Uncons, EmptySeq
<1> HIDE DEF t
<1>2. ASSUME NEW i \in 1 .. Len(t) - 1 PROVE t[i + 1] \in Follow(t[i])
  <2>1. i + 1 \in 1 .. Len(q) - 1 /\ i \in 1 .. Len(q) - 1
    BY <1>1
  <2> QED BY <1>1, <2>1 DEF Orderly
<1>3. ASSUME t # << >> PROVE Head(t) \in Follow(Head(q)) /\ t[Len(t)] = q[Len(q)]
  <2>1. 1 \in 1 .. Len(q) - 1 /\ Len(t) \in 1 .. Len(q) - 1 /\ Len(t) + 1 = Len(q)
    BY <1>1, <1>3
  <2>2. q[1 + 1] \in Follow(q[1])
    BY <2>1 DEF Orderly
  <2>3. t[1] = q[1 + 1] /\ t[Len(t)] = q[Len(t) + 1]
    BY <1>1, <2>1
  <2> QED BY <1>1, <1>3, <2>1, <2>2, <2>3
<1>4. ASSUME t = << >> PROVE q[Len(q)] = Head(q)
  <2>1. Len(q) = 1
    BY <1>1, <1>4
  <2> QED BY <1>1, <2>1
<1> QED BY <1>2, <1>3, <1>4 DEF Orderly, t

LEMMA InitSound == Init => Sound
<1> SUFFICES ASSUME Init PROVE Sound
  OBVIOUS
<1> DEFINE e == << >>
<1>1. e \in Seq(Bodies) /\ e \in Seq(Byte) /\ Wire[e] = e /\ Len(e) = 0
  BY WireNil, EmptySeq
<1>2. e \o e = e
  BY <1>1, ConcatEmptySeq
<1>3. prefix = e /\ stream = e /\ unsent = e
  BY DEF Init
<1>4. Bytes = e
  BY <1>2, <1>3, Zenon DEF Bytes
<1>5. Joined(Wire[e], Bytes, e)
  BY <1>1, <1>2, <1>4, Zenon DEF Joined
<1>6. pc = "prefix" /\ writing = e /\ reading = "command"
  BY DEF Init
<1>7. Follow(writing) = Expected
  <2>1. e \notin LeadCommands
    BY BodiesAssumption DEF Bodies, Commands
  <2> QED BY <1>6, <2>1 DEF Follow, Expected
<1>8. Carries(e, e)
  BY <1>5 DEF Carries
<1>9. Orderly(e) /\ \A i \in 1 .. Len(prefix) : More(prefix[i])
  <2> HIDE DEF e
  <2> QED BY <1>1, <1>3 DEF Orderly
<1>10. ReaderAt(e) /\ WriterAt(e)
  BY <1>6, <1>7, <1>9 DEF ReaderAt, WriterAt
<1> HIDE DEF e
<1> QED BY <1>1, <1>8, <1>9, <1>10 DEF Consistent, Sound

(* The next message is one that the reader will expect. *)
LEMMA WriteSound ==
    ASSUME TypeInv, NEW q \in Seq(Bodies), NEW rest \in Seq(Byte), Consistent(q, rest),
           NEW body \in Bodies, Write(body)
    PROVE  Consistent(Append(q, body), << >>)'
<1> DEFINE p == Append(q, body)
<1>1. /\ open /\ open' /\ rest = << >> /\ writing' = body /\ body \in Follow(writing)
      /\ pc' = pc /\ prefix' = prefix /\ reading' = reading
  BY DEF Write, Consistent, Carries, reader
<1>2. /\ q # << >> => q[Len(q)] = writing
      /\ q = << >> => Follow(writing) = Expected
  BY <1>1 DEF Consistent, WriterAt
<1>3. /\ p \in Seq(Bodies) /\ p # << >> /\ p[Len(p)] = body
      /\ Head(p) = IF q = << >> THEN body ELSE Head(q)
      /\ Orderly(p)
  BY <1>1, <1>2, OrderlyAppend DEF Consistent
<1>4. Wire[p] = Bytes'
  <2>1. p = q \o <<body>>
    BY AppendIsConcat
  <2>2. Wire[q \o <<body>>] = Wire[q] \o Frame(body)
    BY WireAppend
  <2>3. Wire[q] = Bytes
    <3>1. Joined(Wire[q], Bytes, << >>)
      BY <1>1 DEF Consistent, Carries
    <3>2. Bytes \o << >> = Bytes
      BY BytesType, ConcatEmptySeq DEF TypeInv
    <3> QED BY <3>1, <3>2, Zenon DEF Joined
  <2>4. Joined(Bytes', Bytes, Frame(body))
    BY WriteBytes DEF TypeInv
  <2> QED BY <2>1, <2>2, <2>3, <2>4, Zenon DEF Joined
<1>5. Joined(Wire[p], Bytes', << >>)
  <2>1. Wire[p] \in Seq(Byte)
    BY <1>3, WireType
  <2>2. Wire[p] \o << >> = Wire[p]
    <3> DEFINE w == Wire[p]
    <3>1. w \in Seq(Byte)
      BY <2>1
    <3> HIDE DEF w
    <3>2. w \o << >> = w
      BY <3>1, ConcatEmptySeq
    <3> QED BY <3>2 DEF w
  <2> QED BY <1>4, <2>2, Zenon DEF Joined
<1> HIDE DEF p
<1>6. Expected' = Expected
  BY <1>1 DEF Expected
<1>7. ReaderAt(p)'
  <2>1. ReaderAt(q)
    BY DEF Consistent
  <2>2. Head(p) \in Expected
    BY <1>1, <1>2, <1>3, <2>1 DEF ReaderAt
  <2>3. pc = "body" => q # << >> /\ prefix = Varint[Len(Head(p))]
    BY <1>3, <2>1 DEF ReaderAt
  <2> QED BY <1>1, <1>3, <1>6, <2>1, <2>2, <2>3 DEF ReaderAt
<1>8. WriterAt(p)' /\ Carries(p, << >>)'
  BY <1>1, <1>3, <1>5 DEF WriterAt, Carries
<1> QED BY <1>3, <1>7, <1>8 DEF Consistent, p

LEMMA AcceptSound ==
    ASSUME TypeInv, NEW q \in Seq(Bodies), NEW rest \in Seq(Byte), Consistent(q, rest), Accept
    PROVE  Consistent(q, rest)'
<1>1. Bytes' = Bytes
  BY AcceptBytes DEF TypeInv
<1>2. open' = open /\ writing' = writing /\ pc' = pc /\ prefix' = prefix /\ reading' = reading
  BY DEF Accept, reader
<1>3. Expected' = Expected
  BY <1>2 DEF Expected
<1> QED BY <1>1, <1>2, <1>3 DEF Consistent, Carries, ReaderAt, WriterAt

(* What gets lost comes before what was lost before. *)
LEMMA LossSound ==
    ASSUME TypeInv, TypeInv', NEW q \in Seq(Bodies), NEW rest \in Seq(Byte),
           Consistent(q, rest),
           NEW lost \in Seq(Byte), Joined(Bytes, Bytes', lost), ~ open', UNCHANGED reader
    PROVE  Consistent(q, lost \o rest)' /\ lost \o rest \in Seq(Byte)
<1>1. lost \o rest \in Seq(Byte)
  BY ConcatProperties
<1> DEFINE r == lost \o rest
<1>2. Joined(r, lost, rest) /\ r \in Seq(Byte)
  BY <1>1, Zenon DEF Joined
<1> HIDE DEF r
<1>3. Joined(Wire[q], Bytes, rest) /\ Bytes' \in Seq(Byte)
  BY NextBytesType DEF Consistent, Carries, TypeInv
<1>4. Joined(Wire[q], Bytes', r)
  BY <1>2, <1>3, Regroup
<1>5. Expected' = Expected
  BY DEF Expected, reader
<1>6. Consistent(q, r)'
  BY <1>4, <1>5 DEF Consistent, Carries, ReaderAt, WriterAt, reader
<1> QED BY <1>1, <1>6 DEF r

(* A byte that is read belongs to the length of the first message. *)
LEMMA LengthGrows ==
    ASSUME NEW n \in Nat, NEW v, IsPrefixOf(n, v),
           NEW p \in Seq(Byte), \A i \in 1 .. Len(p) : More(p[i]),
           NEW byte \in Byte, NEW r \in Seq(Byte), NEW d \in Seq(Byte), NEW w,
           Joined(w, Append(p, byte), r), Joined(w, v, d)
    PROVE  /\ Len(Append(p, byte)) <= Len(v)
           /\ More(byte) => \A i \in 1 .. Len(Append(p, byte)) : More(Append(p, byte)[i])
           /\ ~ More(byte) => Append(p, byte) = v
<1> DEFINE p2 == Append(p, byte)
<1>1. /\ p2 \in Seq(Byte) /\ Len(p2) = Len(p) + 1 /\ Len(p) \in Nat /\ Len(p2) \in Nat
      /\ \A i \in 1 .. Len(p) : p2[i] = p[i]
      /\ p2[Len(p) + 1] = byte
  BY AppendProperties, LenProperties
<1>2. Joined(w, p2, r)
  OBVIOUS
<1> HIDE DEF p2
<1>3. /\ v \in Seq(Byte) /\ Len(v) \in Nat /\ Len(v) >= 1
      /\ \A i \in 1 .. Len(v) : More(v[i]) <=> i < Len(v)
  BY LenProperties DEF IsPrefixOf
<1>4. Len(p2) <= Len(v)
  <2> SUFFICES ASSUME ~ (Len(p2) <= Len(v)) PROVE FALSE
    OBVIOUS
  <2>1. Len(v) <= Len(p2) /\ Len(v) \in 1 .. Len(p)
    BY <1>1, <1>3
  <2>2. PICK e \in Seq(Byte) : Joined(p2, v, e)
    BY <1>1, <1>2, <1>3, <2>1, TwoCuts
  <2>3. p2[Len(v)] = v[Len(v)]
    <3>1. /\ Len(e) \in Nat
          /\ \A i \in 1 .. Len(v) + Len(e) : (v \o e)[i] = IF i <= Len(v) THEN v[i]
                                                          ELSE e[i - Len(v)]
      BY <1>3, ConcatProperties, LenProperties
    <3>2. (v \o e)[Len(v)] = v[Len(v)]
      BY <1>3, <3>1
    <3> QED BY <2>2, <3>2, Zenon DEF Joined
  <2> QED BY <1>1, <1>3, <2>1, <2>3
<1>5. PICK e \in Seq(Byte) : Joined(v, p2, e)
  BY <1>1, <1>2, <1>3, <1>4, TwoCuts
<1>6. ASSUME More(byte) PROVE \A i \in 1 .. Len(p2) : More(p2[i])
  <2> SUFFICES ASSUME NEW i \in 1 .. Len(p2) PROVE More(p2[i])
    OBVIOUS
  <2>1. CASE i = Len(p) + 1
    BY <1>1, <1>6, <2>1
  <2>2. CASE i # Len(p) + 1
    <3>1. i \in 1 .. Len(p)
      BY <1>1, <2>2
    <3> QED BY <1>1, <3>1
  <2> QED BY <2>1, <2>2
<1>7. ASSUME ~ More(byte) PROVE p2 = v
  <2>1. /\ Len(e) \in Nat /\ Len(p2 \o e) = Len(p2) + Len(e)
        /\ \A i \in 1 .. Len(p2) + Len(e) : (p2 \o e)[i] = IF i <= Len(p2) THEN p2[i]
                                                          ELSE e[i - Len(p2)]
    BY <1>1, ConcatProperties, LenProperties
  <2>2. (p2 \o e)[Len(p2)] = p2[Len(p2)]
    BY <1>1, <2>1
  <2>3. v[Len(p2)] = p2[Len(p2)] /\ Len(v) = Len(p2) + Len(e)
    BY <1>5, <2>1, <2>2, Zenon DEF Joined
  <2>4. Len(e) = 0
    BY <1>1, <1>3, <1>4, <1>7, <2>1, <2>3
  <2>5. e = << >>
    BY <2>4, EmptySeq
  <2>6. p2 \o << >> = p2
    BY <1>1, ConcatEmptySeq
  <2> QED BY <1>5, <2>5, <2>6, Zenon DEF Joined
<1> QED BY <1>4, <1>6, <1>7 DEF p2

(* The wire begins with a frame, if it is not empty. *)
LEMMA FirstOnWire ==
    ASSUME NEW q \in Seq(Bodies), q # << >>
    PROVE  /\ Head(q) \in Bodies /\ Tail(q) \in Seq(Bodies)
           /\ Joined(Wire[q], Frame(Head(q)), Wire[Tail(q)])
           /\ \E d \in Seq(Byte) : Joined(Wire[q], Varint[Len(Head(q))], d)
<1> DEFINE b == Head(q)
           v == Varint[Len(b)]
           x == Wire[Tail(q)]
           g == Frame(b)
<1>1. b \in Bodies /\ Tail(q) \in Seq(Bodies) /\ q = <<b>> \o Tail(q)
  BY Uncons
<1>2. b \in Seq(Byte) /\ v \in Seq(Byte) /\ g = v \o b /\ x \in Seq(Byte)
  BY <1>1, FrameShape, WireType
<1>3. Wire[<<b>> \o Tail(q)] = g \o x
  <2> HIDE DEF b
  <2> QED BY <1>1, WireCons
<1>4. Joined(Wire[q], g, x) /\ Joined(g, v, b) /\ Joined(b \o x, b, x)
  <2> HIDE DEF v
  <2> QED BY <1>1, <1>2, <1>3, Zenon DEF Joined
<1>5. b \o x \in Seq(Byte)
  <2> HIDE DEF b, x
  <2> QED BY <1>2, ConcatProperties
<1>6. Joined(Wire[q], v, b \o x)
  <2> HIDE DEF b, v, x, g
  <2> QED BY <1>2, <1>4, Regroup
<1> QED BY <1>1, <1>4, <1>5, <1>6

LEMMA ReadPrefixSound ==
    ASSUME TypeInv, TypeInv', NEW q \in Seq(Bodies), NEW rest \in Seq(Byte),
           Consistent(q, rest), ReadPrefix, stream # << >>
    PROVE  Consistent(q, rest)' /\ Bytes' = Bytes /\ q # << >>
<1> DEFINE byte == Head(stream)
<1>1. /\ Bytes' = Bytes /\ prefix' = Append(prefix, byte) /\ byte \in Byte
      /\ pc' = AfterByte(prefix')
  BY ReadPrefixBytes DEF TypeInv
<1>2. /\ pc = "prefix" /\ open' = open /\ writing' = writing /\ reading' = reading
  BY DEF ReadPrefix, writer
<1> HIDE DEF byte
<1>3. /\ prefix \in Seq(Byte) /\ \A i \in 1 .. Len(prefix) : More(prefix[i])
  BY <1>2, PrefixTyped DEF TypeInv, Consistent, ReaderAt
<1>4. prefix' \in Seq(Byte) /\ Len(prefix') \in Nat /\ Len(prefix') >= 1 /\ prefix' # << >>
      /\ prefix'[Len(prefix')] = byte
  BY <1>1, <1>3, AppendProperties, LenProperties
<1>5. PICK r \in Seq(Byte) : Joined(Wire[q], prefix', r)
  <2>1. PICK z \in Seq(Byte) : Joined(Bytes', prefix', z)
    BY NextBytesType DEF TypeInv
  <2>2. Joined(Wire[q], Bytes', rest)
    BY <1>1 DEF Consistent, Carries
  <2> DEFINE r == z \o rest
  <2>3. r \in Seq(Byte) /\ Joined(r, z, rest)
    BY ConcatProperties, Zenon DEF Joined
  <2> HIDE DEF r
  <2>4. Joined(Wire[q], prefix', r)
    BY <1>4, <2>1, <2>2, <2>3, Regroup
  <2> QED BY <2>3, <2>4
<1>6. q # << >>
  <2> SUFFICES ASSUME q = << >> PROVE FALSE
    OBVIOUS
  <2>1. prefix' \o r = << >>
    BY <1>5, WireNil, Zenon DEF Joined
  <2> QED BY <1>4, <2>1, ConcatEqualIffEmpty
<1> DEFINE n == Len(Head(q))
           v == Varint[n]
<1>7. Head(q) \in Bodies /\ \E d \in Seq(Byte) : Joined(Wire[q], v, d)
  BY <1>6, FirstOnWire
<1>8. n \in Nat /\ IsPrefixOf(n, v) /\ Len(v) <= MaxPrefix /\ Len(v) \in Nat
  <2>1. n \in Nat /\ IsPrefixOf(n, v) /\ v \in Seq(Byte)
    BY <1>7, FrameShape
  <2>2. Len(v) <= MaxPrefix
    BY <1>7, LengthsAssumption
  <2> QED BY <2>1, <2>2, LenProperties
<1>9. /\ Len(prefix') <= Len(v)
      /\ More(byte) => \A i \in 1 .. Len(prefix') : More(prefix'[i])
      /\ ~ More(byte) => prefix' = v
  <2> DEFINE w == Wire[q]
  <2>1. PICK d \in Seq(Byte) : Joined(w, v, d)
    BY <1>7
  <2>2. Joined(w, Append(prefix, byte), r)
    BY <1>1, <1>5
  <2> HIDE DEF n, v, w
  <2>3. /\ Len(Append(prefix, byte)) <= Len(v)
        /\ More(byte) => \A i \in 1 .. Len(Append(prefix, byte)) : More(Append(prefix, byte)[i])
        /\ ~ More(byte) => Append(prefix, byte) = v
    BY <1>1, <1>3, <1>8, <2>1, <2>2, LengthGrows
  <2> QED BY <1>1, <2>3
<1>10. pc' = IF More(byte) THEN "prefix" ELSE "body"
  <2>1. ~ (Len(prefix') > MaxPrefix)
    <3> HIDE DEF v
    <3> QED BY <1>4, <1>8, <1>9, BoundsAssumption
  <2> QED BY <1>1, <1>4, <2>1 DEF AfterByte
<1>11. Expected' = Expected
  BY <1>2 DEF Expected
<1>12. ReaderAt(q)'
  <2>1. Head(q) \in Expected'
    BY <1>6, <1>11 DEF Consistent, ReaderAt
  <2> QED BY <1>6, <1>9, <1>10, <2>1 DEF ReaderAt
<1>13. Orderly(q) /\ WriterAt(q)' /\ Carries(q, rest)'
  BY <1>1, <1>2, <1>11 DEF Consistent, WriterAt, Carries
<1> QED BY <1>1, <1>6, <1>12, <1>13 DEF Consistent

(* The body that is read is the message written. *)
LEMMA DeliverSound ==
    ASSUME TypeInv, TypeInv', NEW q \in Seq(Bodies), NEW rest \in Seq(Byte),
           Consistent(q, rest), pc = "body", Deliver
    PROVE  /\ Consistent(Tail(q), rest)'
           /\ q # << >> /\ Head(q) \in Bodies /\ Tail(q) \in Seq(Bodies)
           /\ received' = Head(q) /\ pc' = "prefix"
           /\ Joined(Bytes, Frame(Head(q)), Bytes')
<1> DEFINE b == Head(q)
           t == Tail(q)
           v == Varint[Len(b)]
           body == SubSeq(stream, 1, Announced)
<1>1. /\ q # << >> /\ prefix = v /\ b \in Expected
  BY DEF Consistent, ReaderAt
<1>2. b \in Bodies /\ t \in Seq(Bodies) /\ Joined(Wire[q], Frame(b), Wire[t])
  BY <1>1, FirstOnWire
<1>3. /\ b \in Seq(Byte) /\ Len(b) \in Nat /\ v \in Seq(Byte) /\ Frame(b) = v \o b
      /\ Frame(b) \in Seq(Byte) /\ Announced = Len(b)
  <2>1. /\ b \in Seq(Byte) /\ Len(b) \in Nat /\ v \in Seq(Byte) /\ Frame(b) = v \o b
        /\ Frame(b) \in Seq(Byte) /\ IsPrefixOf(Len(b), v)
    BY <1>2, FrameShape
  <2>2. ValueOf[v] = Len(b)
    BY <2>1 DEF IsPrefixOf
  <2> QED BY <1>1, <2>1, <2>2 DEF Announced
<1>4. /\ body \in Seq(Byte) /\ Len(body) = Len(b)
      /\ Joined(Bytes, prefix \o body, Bytes') /\ prefix \o body \in Seq(Byte)
  BY <1>3, DeliverBytes DEF TypeInv
<1> HIDE DEF b, t, v
<1> DEFINE g == Frame(b)
           c == prefix \o body
           w == Wire[q]
           x == Wire[t]
<1>5. g = c /\ Joined(x, Bytes', rest)
  <2>1. /\ g \in Seq(Byte) /\ c \in Seq(Byte) /\ x \in Seq(Byte) /\ Bytes' \in Seq(Byte)
        /\ Joined(w, g, x) /\ Joined(w, Bytes, rest) /\ Joined(Bytes, c, Bytes')
    BY <1>2, <1>3, <1>4, WireType, NextBytesType DEF Consistent, Carries, TypeInv
  <2> DEFINE d == Bytes' \o rest
  <2>2. d \in Seq(Byte) /\ Joined(d, Bytes', rest)
    BY <2>1, ConcatProperties, Zenon DEF Joined
  <2>3. Len(g) = Len(c)
    <3>1. Len(v \o b) = Len(v) + Len(b) /\ Len(prefix \o body) = Len(prefix) + Len(body)
      <4> HIDE DEF body
      <4> QED BY <1>1, <1>3, <1>4, ConcatProperties
    <3> HIDE DEF body
    <3> QED BY <1>1, <1>3, <1>4, <3>1
  <2> HIDE DEF g, c, w, x, d
  <2>4. Joined(w, c, d)
    BY <2>1, <2>2, Regroup
  <2>5. g = c /\ x = d
    BY <2>1, <2>2, <2>3, <2>4, SameCut
  <2> QED BY <2>2, <2>5
<1>6. body = b
  <2>1. Joined(g, v, b) /\ Joined(g, v, body)
    <3> HIDE DEF body
    <3> QED BY <1>1, <1>3, <1>5, Zenon DEF Joined
  <2> HIDE DEF body, g
  <2> QED BY <1>3, <1>4, <2>1, SameCut
<1>7. /\ prefix' = << >> /\ open' = open /\ writing' = writing
      /\ IF reading = "command" /\ b \notin Commands
         THEN pc' = "closed" /\ UNCHANGED <<reading, received>>
         ELSE /\ pc' = "prefix"
              /\ received' = b
              /\ reading' = IF reading = "command" /\ b \in LeadCommands
                            THEN "message" ELSE "command"
  BY <1>6 DEF Deliver, writer
<1>8. /\ pc' = "prefix" /\ received' = b
      /\ reading' = IF reading = "command" /\ b \in LeadCommands THEN "message" ELSE "command"
  BY <1>1, <1>7 DEF Expected
<1>9. Expected' = Follow(b)
  <2>1. reading # "command" => b \notin LeadCommands
    BY <1>1, BodiesAssumption DEF Expected, Commands
  <2> QED BY <1>8, <2>1 DEF Expected, Follow
<1>10. /\ Orderly(t)
       /\ t # << >> => Head(t) \in Follow(b) /\ t[Len(t)] = q[Len(q)]
       /\ t = << >> => q[Len(q)] = b
  BY <1>1, OrderlyTail DEF Consistent, t, b
<1>11. ReaderAt(t)'
  <2>1. \A i \in 1 .. Len(prefix') : More(prefix'[i])
    <3>1. Len(prefix') = 0
      BY <1>7, EmptySeq
    <3> QED BY <3>1
  <2> QED BY <1>8, <1>9, <1>10, <2>1 DEF ReaderAt
<1>12. WriterAt(t)'
  <2>1. open => q[Len(q)] = writing
    BY <1>1 DEF Consistent, WriterAt
  <2> QED BY <1>7, <1>9, <1>10, <2>1 DEF WriterAt
<1>13. Carries(t, rest)'
  BY <1>5, <1>7 DEF Consistent, Carries
<1>14. Joined(Bytes, Frame(b), Bytes')
  BY <1>4, <1>5
<1> QED BY <1>1, <1>2, <1>8, <1>10, <1>11, <1>12, <1>13, <1>14 DEF Consistent, b, t

LEMMA ReadAtEnd ==
    ASSUME TypeInv, AtEnd, Read
    PROVE  AtEnd' /\ UNCHANGED <<writing, unsent, open>>
<1>1. ~ open /\ stream = << >> /\ Len(stream) = 0 /\ stream \in Seq(Byte)
  BY EmptySeq DEF AtEnd, TypeInv, TypeOK
<1>2. UNCHANGED writer
  BY DEF Read, ReadPrefix, ReadBody, Deliver, MessageCutShort, CommandCutShort, SecondCutShort
<1>3. stream' = << >>
  <2>1. CASE ReadPrefix
    BY <1>1, <2>1 DEF ReadPrefix
  <2>2. CASE ReadBody
    <3>1. Announced \in 0 .. Len(stream) /\ Take(Announced)
      BY <2>2, PrefixTyped DEF ReadBody, Deliver, Complete, TypeInv
    <3>2. stream' \in Seq(Byte) /\ Len(stream') = Len(stream) - Announced
      BY <3>1, TakeTyped
    <3>3. Len(stream') = 0
      BY <1>1, <3>1, <3>2
    <3> QED BY <3>2, <3>3, EmptySeq
  <2>3. CASE MessageCutShort \/ CommandCutShort \/ SecondCutShort
    <3>1. Take(Len(stream))
      BY <2>3 DEF MessageCutShort, CommandCutShort, SecondCutShort
    <3> QED BY <1>1, <3>1, AllRead DEF Take
  <2> QED BY <2>1, <2>2, <2>3 DEF Read
<1> QED BY <1>1, <1>2, <1>3 DEF AtEnd, writer

(* The end of the stream is the end. *)
LEMMA EndStays ==
    ASSUME TypeInv, AtEnd, [Next]_vars
    PROVE  AtEnd'
<1>1. ~ open /\ unsent = << >>
  BY DEF AtEnd, TypeInv
<1>2. Read \/ UNCHANGED vars
  BY <1>1 DEF Next, Write, Accept, SendInterrupted, Disconnect
<1>3. UNCHANGED vars => AtEnd'
  BY DEF AtEnd, vars, writer
<1> QED BY <1>2, <1>3, ReadAtEnd

(* An incomplete read comes from a signal or from the end of the stream. *)
LEMMA CutShortEnds ==
    ASSUME TypeInv, MessageCutShort \/ CommandCutShort \/ SecondCutShort, ~ interrupted'
    PROVE  AtEnd' /\ ~ open /\ ~ Complete
<1>1. CutShort /\ Take(Len(stream)) /\ open' = open
  BY DEF MessageCutShort, CommandCutShort, SecondCutShort, writer
<1>2. ~ open /\ ~ Complete
  BY <1>1 DEF CutShort
<1>3. stream' = << >>
  BY <1>1, PrefixTyped, AllRead DEF TypeInv, Take
<1> QED BY <1>1, <1>2, <1>3 DEF AtEnd

LEMMA InterruptedStays ==
    ASSUME TypeInv, [Next]_vars, interrupted
    PROVE  interrupted'
<1>1. CASE \E body \in Bodies : Write(body)
  BY <1>1 DEF Write
<1>2. CASE Accept \/ SendInterrupted \/ Disconnect
  BY <1>2 DEF Accept, SendInterrupted, Disconnect
<1>3. CASE ReadPrefix \/ ReadBody
  BY <1>3 DEF ReadPrefix, ReadBody, Deliver
<1>4. CASE MessageCutShort \/ CommandCutShort \/ SecondCutShort
  BY <1>4 DEF MessageCutShort, CommandCutShort, SecondCutShort, CutShort
<1>5. CASE UNCHANGED vars
  BY <1>5 DEF vars
<1> QED BY <1>1, <1>2, <1>3, <1>4, <1>5 DEF Next, Read

LEMMA SoundStep ==
    ASSUME TypeInv, TypeInv', [Next]_vars, NEW q \in Seq(Bodies), NEW rest \in Seq(Byte),
           Consistent(q, rest)
    PROVE  interrupted' \/ AtEnd' \/ Sound'
<1>0. pc \in {"prefix", "body"}
  BY DEF Consistent, ReaderAt
<1>1. ASSUME NEW body \in Bodies, Write(body) PROVE Sound'
  <2>1. Consistent(Append(q, body), << >>)'
    BY <1>1, WriteSound
  <2>2. Append(q, body) \in Seq(Bodies) /\ << >> \in Seq(Byte)
    BY AppendProperties, EmptySeq
  <2> QED BY <2>1, <2>2 DEF Sound
<1>2. CASE Accept
  BY <1>2, AcceptSound DEF Sound
<1>3. ASSUME NEW lost \in Seq(Byte), Joined(Bytes, Bytes', lost), ~ open', UNCHANGED reader
      PROVE  Sound'
  BY <1>3, LossSound DEF Sound
<1>4. CASE SendInterrupted
  <2>1. unsent \in Seq(Byte) /\ Joined(Bytes, Bytes', unsent) /\ UNCHANGED reader
    BY <1>4, PrefixTyped, InterruptedBytes DEF TypeInv, SendInterrupted
  <2>2. interrupted' \/ ~ open'
    BY <1>4 DEF SendInterrupted
  <2> QED BY <1>3, <2>1, <2>2
<1>5. CASE Disconnect
  <2>1. \E lost \in Seq(Byte) : Joined(Bytes, Bytes', lost)
    BY <1>5, DisconnectBytes DEF TypeInv
  <2>2. ~ open' /\ UNCHANGED reader
    BY <1>5 DEF Disconnect
  <2> QED BY <1>3, <2>1, <2>2
<1>6. CASE ReadPrefix
  <2>1. CASE stream # << >>
    BY <1>6, <2>1, ReadPrefixSound DEF Sound
  <2>2. CASE stream = << >>
    <3>1. AtEnd
      BY <1>6, <2>2 DEF ReadPrefix
    <3> QED BY <3>1, EndStays
  <2> QED BY <2>1, <2>2
<1>7. CASE ReadBody
  <2>1. pc = "body" /\ Deliver
    BY <1>0, <1>7 DEF ReadBody
  <2>2. Consistent(Tail(q), rest)' /\ Tail(q) \in Seq(Bodies)
    BY <2>1, DeliverSound
  <2> QED BY <2>2 DEF Sound
<1>8. CASE MessageCutShort \/ CommandCutShort \/ SecondCutShort
  BY <1>8, CutShortEnds
<1>9. CASE UNCHANGED vars
  <2>1. /\ Bytes' = Bytes /\ Expected' = Expected /\ open' = open /\ writing' = writing
        /\ pc' = pc /\ prefix' = prefix
    BY <1>9 DEF vars, writer, reader, Bytes, Expected
  <2>2. Consistent(q, rest)'
    BY <2>1 DEF Consistent, Carries, ReaderAt, WriterAt
  <2> QED BY <2>2 DEF Sound
<1> QED BY <1>1, <1>2, <1>4, <1>5, <1>6, <1>7, <1>8, <1>9 DEF Next, Read

LEMMA InvStep == IInv /\ [Next]_vars => IInv'
<1> SUFFICES ASSUME IInv, [Next]_vars PROVE IInv'
  OBVIOUS
<1>1. TypeInv /\ TypeInv'
  BY StepTyped DEF IInv
<1>2. CASE interrupted
  BY <1>1, <1>2, InterruptedStays DEF IInv
<1>3. CASE AtEnd
  BY <1>1, <1>3, EndStays DEF IInv
<1>4. CASE Sound
  <2>1. PICK q \in Seq(Bodies), rest \in Seq(Byte) : Consistent(q, rest)
    BY <1>4 DEF Sound
  <2> QED BY <1>1, <2>1, SoundStep DEF IInv
<1> QED BY <1>2, <1>3, <1>4 DEF IInv

(* What the reader can make of the bytes on their way. *)
LEMMA UnderwaySound ==
    ASSUME TypeInv, NEW q \in Seq(Bodies), NEW rest \in Seq(Byte), Consistent(q, rest), ~ AtEnd
    PROVE  /\ Underway = Frames[Bytes]
           /\ FirstOf(Underway, q, rest = << >>)
<1>1. Underway = Frames[Bytes]
  BY Zenon DEF Underway, Bytes
<1>2. Bytes \in Seq(Byte) /\ Bytes \o rest = Wire[q]
  BY BytesType, Zenon DEF TypeInv, Consistent, Carries, Joined
<1>3. FramesFirst(q)
  BY FramesOfPrefix
<1> QED BY <1>1, <1>2, <1>3, Zenon DEF FramesFirst

LEMMA HeadOfFirst ==
    ASSUME NEW q \in Seq(Bodies), NEW f, Leads(f, q), f # << >>
    PROVE  q # << >> /\ Head(f) = Head(q)
<1>1. PICK t \in Seq(Bodies) : f \in Seq(Bodies) /\ q = f \o t
  BY DEF Leads
<1>2. /\ Len(f) \in Nat \ {0} /\ Len(t) \in Nat /\ Len(f \o t) = Len(f) + Len(t)
      /\ \A i \in 1 .. Len(f) + Len(t) : (f \o t)[i] = IF i <= Len(f) THEN f[i]
                                                       ELSE t[i - Len(f)]
      /\ Head(f) = f[1]
  BY <1>1, ConcatProperties, LenProperties, EmptySeq, Uncons
<1>3. (f \o t)[1] = f[1] /\ Len(f \o t) # 0
  BY <1>2
<1>4. q[1] = f[1] /\ Len(q) # 0
  BY <1>1, <1>3, Zenon
<1>5. q # << >>
  BY <1>4, EmptySeq
<1>6. Head(q) = q[1]
  BY <1>5, Uncons
<1> QED BY <1>2, <1>4, <1>5, <1>6

(* However the stream is cut, the next message on its way is of the kind   *)
(* that the reader expects: a message is never read as a command.          *)
THEOREM StaysInStep == Spec => []InStep
<1>1. Init => IInv
  BY InitTyped, InitSound DEF IInv
<1>2. IInv /\ [Next]_vars => IInv'
  BY InvStep
<1>3. IInv => InStep
  <2> SUFFICES ASSUME IInv, ~ interrupted, Underway # << >> PROVE Head(Underway) \in Expected
    BY DEF InStep, Expected
  <2>1. ~ AtEnd
    BY DEF Underway
  <2>2. PICK q \in Seq(Bodies), rest \in Seq(Byte) : Consistent(q, rest)
    BY <2>1 DEF IInv, Sound
  <2>3. FirstOf(Underway, q, rest = << >>)
    BY <2>1, <2>2, UnderwaySound DEF IInv
  <2>4. q # << >> /\ Head(Underway) = Head(q)
    <3> DEFINE u == Underway
    <3>1. Leads(u, q) /\ u # << >>
      BY <2>3, Zenon DEF FirstOf, Leads
    <3> HIDE DEF u
    <3>2. q # << >> /\ Head(u) = Head(q)
      BY <3>1, HeadOfFirst
    <3> QED BY <3>2 DEF u
  <2> QED BY <2>2, <2>4 DEF Consistent, ReaderAt
<1> QED BY <1>1, <1>2, <1>3, PTL DEF Spec
-----------------------------------------------------------------------------
(***************************************************************************)
(* The channel implements MessageChannel.                                  *)
(***************************************************************************)
LEMMA NextUnderwaySound ==
    ASSUME TypeInv', NEW q \in Seq(Bodies), NEW rest \in Seq(Byte), Consistent(q, rest)',
           ~ AtEnd'
    PROVE  /\ Underway' = Frames[Bytes']
           /\ FirstOf(Underway', q, rest = << >>)
<1>1. Underway' = Frames[Bytes']
  BY Zenon DEF Underway, Bytes
<1>2. Bytes' \in Seq(Byte) /\ Bytes' \o rest = Wire[q]
  BY NextBytesType, Zenon DEF TypeInv, Consistent, Carries, Joined
<1>3. FramesFirst(q)
  BY FramesOfPrefix
<1> QED BY <1>1, <1>2, <1>3, Zenon DEF FramesFirst

LEMMA AllOf ==
    ASSUME NEW q \in Seq(Bodies), NEW f, FirstOf(f, q, TRUE)
    PROVE  f = q
<1>1. f \in Seq(Bodies) /\ q = f \o << >>
  BY DEF FirstOf
<1>2. f \o << >> = f
  BY <1>1, ConcatEmptySeq
<1> QED BY <1>1, <1>2, Zenon

LEMMA SomeOf ==
    ASSUME NEW q \in Seq(Bodies), NEW f, Leads(f, q)
    PROVE  \E n \in 0 .. Len(q) : f = SubSeq(q, 1, n)
<1>1. PICK t \in Seq(Bodies) : f \in Seq(Bodies) /\ q = f \o t
  BY DEF Leads
<1>2. /\ Len(f \o t) = Len(f) + Len(t) /\ Len(f) \in Nat /\ Len(t) \in Nat
      /\ SubSeq(f \o t, 1, Len(f)) = f
  BY <1>1, ConcatProperties, LenProperties, CutBack
<1>3. SubSeq(q, 1, Len(f)) = f /\ Len(q) = Len(f) + Len(t)
  BY <1>1, <1>2, Zenon
<1>4. Len(f) \in 0 .. Len(q)
  BY <1>2, <1>3
<1> QED BY <1>3, <1>4

(* While the writer is there, nothing is missing. *)
LEMMA OpenUnderway ==
    ASSUME TypeInv, NEW q \in Seq(Bodies), NEW rest \in Seq(Byte), Consistent(q, rest), open
    PROVE  Underway = q
<1>1. ~ AtEnd /\ rest = << >>
  BY DEF AtEnd, Consistent, Carries
<1>2. FirstOf(Underway, q, TRUE)
  BY <1>1, UnderwaySound, Zenon
<1> QED BY <1>2, AllOf

LEMMA WriteSends ==
    ASSUME TypeInv, TypeInv', NEW q \in Seq(Bodies), NEW rest \in Seq(Byte),
           Consistent(q, rest), NEW body \in Bodies, Write(body)
    PROVE  Fifo!Send(body)
<1>1. open /\ open' /\ open' = open /\ UNCHANGED <<pc, received>>
  BY DEF Write, reader
<1>2. Underway = q
  BY <1>1, OpenUnderway
<1> DEFINE p == Append(q, body)
           e == << >>
<1>3. p \in Seq(Bodies) /\ e \in Seq(Byte) /\ Consistent(p, e)' /\ ~ AtEnd'
  BY <1>1, AppendProperties, EmptySeq, WriteSound DEF AtEnd
<1>4. Underway' = p
  <2> HIDE DEF p
  <2>1. FirstOf(Underway', p, e = << >>)
    <3> HIDE DEF e
    <3> QED BY <1>3, NextUnderwaySound
  <2>2. FirstOf(Underway', p, TRUE)
    BY <2>1, Zenon
  <2> QED BY <1>3, <2>2, AllOf
<1> QED BY <1>1, <1>2, <1>4 DEF Fifo!Send, Failed

LEMMA LossBreaks ==
    ASSUME TypeInv, TypeInv', NEW q \in Seq(Bodies), NEW rest \in Seq(Byte),
           Consistent(q, rest), open,
           NEW lost \in Seq(Byte), Joined(Bytes, Bytes', lost), open' = FALSE, UNCHANGED reader
    PROVE  Fifo!Break
<1>1. Underway = q
  BY OpenUnderway
<1>2. \E n \in 0 .. Len(q) : Underway' = SubSeq(q, 1, n)
  <2>1. CASE AtEnd'
    <3>1. Underway' = << >>
      BY <2>1, Zenon DEF Underway
    <3>2. SubSeq(q, 1, 0) = << >> /\ 0 \in 0 .. Len(q)
      BY SubSeqEmpty, LenProperties
    <3> QED BY <3>1, <3>2
  <2>2. CASE ~ AtEnd'
    <3> DEFINE r == lost \o rest
    <3>1. Consistent(q, r)' /\ r \in Seq(Byte)
      BY LossSound
    <3> HIDE DEF r
    <3>2. FirstOf(Underway', q, r = << >>)
      BY <2>2, <3>1, NextUnderwaySound
    <3> DEFINE u == Underway'
    <3>3. Leads(u, q)
      BY <3>2, Zenon DEF FirstOf, Leads
    <3> HIDE DEF u
    <3>4. \E n \in 0 .. Len(q) : u = SubSeq(q, 1, n)
      BY <3>3, SomeOf
    <3> QED BY <3>4 DEF u
  <2> QED BY <2>1, <2>2
<1>3. UNCHANGED <<received, Failed>>
  BY DEF reader, Failed
<1> QED BY <1>1, <1>2, <1>3 DEF Fifo!Break

(* A byte of a length is no message, and neither is a length alone. *)
LEMMA ReadPrefixStutters ==
    ASSUME TypeInv, TypeInv', NEW q \in Seq(Bodies), NEW rest \in Seq(Byte),
           Consistent(q, rest), ReadPrefix, stream # << >>
    PROVE  UNCHANGED Fifo!vars
<1>1. Consistent(q, rest)' /\ Bytes' = Bytes /\ q # << >>
  BY ReadPrefixSound
<1>2. UNCHANGED <<open, received, unsent>>
  BY DEF ReadPrefix, writer
<1>3. UNCHANGED Failed
  BY <1>1 DEF Consistent, ReaderAt, Failed
<1>4. Underway = Frames[Bytes]
  BY UnderwaySound DEF AtEnd
<1>5. CASE ~ AtEnd'
  <2>1. Underway' = Frames[Bytes']
    BY <1>1, <1>5, NextUnderwaySound
  <2> QED BY <1>1, <1>2, <1>3, <1>4, <2>1 DEF Fifo!vars
<1>6. CASE AtEnd'
  <2>1. stream' = << >> /\ unsent' = << >> /\ Underway' = << >>
    BY <1>6, Zenon DEF AtEnd, TypeInv, Underway
  <2>2. prefix' \in Seq(Byte) /\ prefix' \o << >> = prefix'
    BY NextBytesType, ConcatEmptySeq DEF TypeInv
  <2>3. Bytes' = prefix'
    BY <2>1, <2>2, Zenon DEF Bytes
  <2>4. CASE pc' = "prefix"
    <3>1. \A i \in 1 .. Len(prefix') : More(prefix'[i])
      BY <1>1, <2>4 DEF Consistent, ReaderAt
    <3>2. Frames[prefix'] = << >>
      BY <2>2, <3>1, FrameBegun
    <3> QED BY <1>1, <1>2, <1>3, <1>4, <2>1, <2>3, <3>2 DEF Fifo!vars
  <2>5. CASE pc' # "prefix"
    <3> DEFINE n == Len(Head(q))
               v == Varint[n]
               e == << >>
    <3>1. prefix' = v
      BY <1>1, <2>5 DEF Consistent, ReaderAt
    <3>2. n \in Nat /\ n >= 1 /\ IsPrefixOf(n, v)
      BY <1>1, FirstOnWire, FrameShape
    <3>3. e \in Seq(Byte) /\ Len(e) = 0
      BY EmptySeq
    <3>4. Frames[v \o e] = << >>
      <4>1. Len(e) < n
        BY <3>2, <3>3
      <4> HIDE DEF n, v, e
      <4> QED BY <3>2, <3>3, <4>1, FrameCut
    <3>5. Frames[prefix'] = << >>
      BY <2>2, <3>1, <3>4, Zenon
    <3> QED BY <1>1, <1>2, <1>3, <1>4, <2>1, <2>3, <3>5 DEF Fifo!vars
  <2> QED BY <2>4, <2>5
<1> QED BY <1>5, <1>6

LEMMA DeliverReceives ==
    ASSUME TypeInv, TypeInv', NEW q \in Seq(Bodies), NEW rest \in Seq(Byte),
           Consistent(q, rest), ~ AtEnd, pc = "body", Deliver
    PROVE  ~ Failed /\ Fifo!Receive
<1> DEFINE b == Head(q)
           t == Tail(q)
<1>1. /\ Consistent(t, rest)' /\ b \in Bodies /\ t \in Seq(Bodies)
      /\ received' = b /\ pc' = "prefix" /\ Joined(Bytes, Frame(b), Bytes')
  BY DeliverSound
<1>2. ~ Failed /\ ~ Failed' /\ open' = open /\ prefix' = << >>
  BY <1>1 DEF Failed, Deliver, writer
<1>3. Bytes' \in Seq(Byte)
  BY NextBytesType DEF TypeInv
<1> HIDE DEF b, t
<1>4. Underway = <<b>> \o Frames[Bytes']
  <2>1. Frames[Frame(b) \o Bytes'] = <<b>> \o Frames[Bytes']
    BY <1>1, <1>3, FramesCons
  <2>2. Underway = Frames[Bytes]
    BY UnderwaySound
  <2> QED BY <1>1, <2>1, <2>2, Zenon DEF Joined
<1>5. Underway' = Frames[Bytes']
  <2>1. CASE ~ AtEnd'
    BY <1>1, <2>1, NextUnderwaySound
  <2>2. CASE AtEnd'
    <3>1. stream' = << >> /\ unsent' = << >> /\ Underway' = << >>
      BY <2>2, Zenon DEF AtEnd, TypeInv, Underway
    <3>2. << >> \o << >> = << >>
      BY EmptySeq, ConcatEmptySeq
    <3>3. Bytes' = << >>
      BY <1>2, <3>1, <3>2, Zenon DEF Bytes
    <3> QED BY <3>1, <3>3, FramesNil
  <2> QED BY <2>1, <2>2
<1>6. Underway # << >> /\ Head(Underway) = b /\ Tail(Underway) = Underway'
  <2> DEFINE f == Frames[Bytes']
  <2>1. b \in Seq(Byte) /\ f \in Seq(Seq(Byte))
    BY <1>1, <1>3, FrameShape, FramesDef
  <2> HIDE DEF f
  <2>2. <<b>> \o f # << >> /\ Head(<<b>> \o f) = b /\ Tail(<<b>> \o f) = f
    BY <2>1, Cons
  <2>3. Underway = <<b>> \o f /\ Underway' = f
    BY <1>4, <1>5, Zenon DEF f
  <2> QED BY <2>2, <2>3, Zenon
<1>7. Failed' = Failed
  BY <1>2 DEF Failed
<1> QED BY <1>1, <1>2, <1>6, <1>7 DEF Fifo!Receive

(* A body that is cut off at the end of the stream is no message, and then *)
(* a read of a message fails at once.                                      *)
LEMMA CutShortFails ==
    ASSUME TypeInv, TypeInv', NEW q \in Seq(Bodies), NEW rest \in Seq(Byte),
           Consistent(q, rest), ~ AtEnd, ~ interrupted',
           MessageCutShort \/ CommandCutShort \/ SecondCutShort
    PROVE  ~ Failed /\ (Fifo!Fail \/ UNCHANGED Fifo!vars)
<1>1. AtEnd' /\ ~ open /\ ~ Complete
  BY CutShortEnds
<1>2. /\ pc = "body" /\ q # << >> /\ pc' \in {"exited", "again"}
      /\ UNCHANGED <<open, received>>
  BY DEF Consistent, ReaderAt, MessageCutShort, CommandCutShort, SecondCutShort, writer
<1> DEFINE n == Len(Head(q))
           v == Varint[n]
<1>3. prefix = v /\ n \in Nat /\ IsPrefixOf(n, v) /\ ValueOf[v] = n
  BY <1>2, FirstOnWire, FrameShape DEF Consistent, ReaderAt, IsPrefixOf
<1>4. stream \in Seq(Byte) /\ Len(stream) \in Nat /\ Len(stream) < n
  <2> HIDE DEF v, n
  <2>1. Announced = n
    BY <1>3 DEF Announced
  <2> QED BY <1>1, <1>3, <2>1, PrefixTyped DEF Complete, TypeInv
<1>5. Frames[v \o stream] = << >>
  <2> HIDE DEF v, n
  <2> QED BY <1>3, <1>4, FrameCut
<1>6. Underway = << >>
  <2>1. Bytes = prefix \o stream
    BY <1>1, NothingUnsent DEF TypeInv
  <2>2. Underway = Frames[Bytes]
    BY UnderwaySound
  <2> HIDE DEF v, n
  <2> QED BY <1>3, <1>5, <2>1, <2>2, Zenon
<1>7. Underway' = << >>
  BY <1>1, Zenon DEF Underway
<1>8. ~ Failed
  BY <1>2 DEF Failed
<1>9. CASE pc' = "exited"
  <2>1. Failed' = TRUE
    BY <1>9 DEF Failed
  <2> QED BY <1>1, <1>2, <1>6, <1>7, <1>8, <2>1 DEF Fifo!Fail, Fifo!AtEnd
<1>10. CASE pc' = "again"
  <2>1. Failed' = Failed
    BY <1>2, <1>10 DEF Failed
  <2> QED BY <1>2, <1>6, <1>7, <1>8, <2>1 DEF Fifo!vars
<1> QED BY <1>2, <1>9, <1>10

(* After the end of the stream the reader may take one more message, an    *)
(* empty one, for each length that it makes up; otherwise it fails.        *)
LEMMA EndReads ==
    ASSUME TypeInv, AtEnd, Read
    PROVE  ~ Failed /\ (Fifo!ReceiveEmpty \/ Fifo!Fail \/ UNCHANGED Fifo!vars)
<1>1. AtEnd' /\ ~ open /\ open' = open
  BY ReadAtEnd DEF AtEnd
<1>2. Underway = << >> /\ Underway' = << >>
  BY <1>1, Zenon DEF Underway
<1>3. ASSUME ~ Failed, received' = received
      PROVE  Fifo!Fail \/ UNCHANGED Fifo!vars
  <2>1. CASE Failed'
    <3>1. Failed' = TRUE
      BY <2>1 DEF Failed
    <3> QED BY <1>1, <1>2, <1>3, <3>1 DEF Fifo!Fail, Fifo!AtEnd
  <2>2. CASE ~ Failed'
    <3>1. Failed' = Failed
      BY <1>3, <2>2 DEF Failed
    <3> QED BY <1>1, <1>2, <1>3, <3>1 DEF Fifo!vars
  <2> QED BY <2>1, <2>2
<1>4. CASE ReadPrefix
  <2>1. ~ Failed /\ received' = received
    BY <1>4 DEF ReadPrefix, Failed
  <2> QED BY <1>3, <2>1
<1>5. CASE ReadBody
  <2> DEFINE body == SubSeq(stream, 1, Announced)
  <2>1. ~ Failed /\ Deliver
    BY <1>5 DEF ReadBody, Failed
  <2>2. body = << >>
    <3>1. Announced \in Nat /\ Announced <= Len(stream) /\ stream = << >>
      BY <2>1, PrefixTyped DEF Deliver, Complete, AtEnd, TypeInv
    <3>2. Announced = 0
      BY <3>1, EmptySeq
    <3>3. SubSeq(stream, 1, 0) = << >>
      BY SubSeqEmpty
    <3> QED BY <3>2, <3>3
  <2>3. body \notin Commands
    BY <2>2, BodiesAssumption DEF Bodies
  <2>4. CASE reading = "command"
    <3>1. received' = received
      BY <2>1, <2>3, <2>4 DEF Deliver
    <3> QED BY <1>3, <2>1, <3>1
  <2>5. CASE reading # "command"
    <3>1. received' = << >> /\ pc' = "prefix"
      BY <2>1, <2>2, <2>5 DEF Deliver
    <3>2. Failed' = Failed
      BY <2>1, <3>1 DEF Failed
    <3> QED BY <1>1, <1>2, <2>1, <3>1, <3>2 DEF Fifo!ReceiveEmpty, Fifo!AtEnd
  <2> QED BY <2>4, <2>5
<1>6. CASE MessageCutShort \/ CommandCutShort \/ SecondCutShort
  <2>1. ~ Failed /\ received' = received
    BY <1>6 DEF MessageCutShort, CommandCutShort, SecondCutShort, Failed
  <2> QED BY <1>3, <2>1
<1> QED BY <1>4, <1>5, <1>6 DEF Read

LEMMA ConsistentImplements ==
    ASSUME TypeInv, TypeInv', NEW q \in Seq(Bodies), NEW rest \in Seq(Byte),
           Consistent(q, rest), ~ AtEnd, Next, ~ interrupted'
    PROVE  Fifo!Next \/ UNCHANGED Fifo!vars
<1>1. ASSUME NEW body \in Bodies, Write(body) PROVE Fifo!Next
  <2>1. Fifo!Send(body)
    BY <1>1, WriteSends
  <2> QED BY <2>1 DEF Fifo!Next
<1>2. CASE Accept
  <2>1. open /\ open' /\ Bytes' = Bytes /\ UNCHANGED <<open, reader>>
    BY <1>2, AcceptBytes DEF Accept, TypeInv
  <2>2. ~ AtEnd /\ ~ AtEnd' /\ UNCHANGED Failed
    BY <2>1 DEF AtEnd, reader, Failed
  <2>3. Underway = Frames[Bytes] /\ Underway' = Frames[Bytes']
    BY <2>2, Zenon DEF Underway, Bytes
  <2> QED BY <2>1, <2>2, <2>3 DEF Fifo!vars, reader
<1>3. CASE SendInterrupted
  <2>1. open /\ open' = FALSE /\ UNCHANGED reader
    BY <1>3 DEF SendInterrupted, TypeInv
  <2>2. unsent \in Seq(Byte) /\ Joined(Bytes, Bytes', unsent)
    BY <1>3, PrefixTyped, InterruptedBytes DEF TypeInv
  <2>3. Fifo!Break
    BY <2>1, <2>2, LossBreaks
  <2> QED BY <2>3 DEF Fifo!Next
<1>4. CASE Disconnect
  <2>1. open /\ open' = FALSE /\ UNCHANGED reader
    BY <1>4 DEF Disconnect
  <2>2. PICK lost \in Seq(Byte) : Joined(Bytes, Bytes', lost)
    BY <1>4, DisconnectBytes DEF TypeInv
  <2>3. Fifo!Break
    BY <2>1, <2>2, LossBreaks
  <2> QED BY <2>3 DEF Fifo!Next
<1>5. CASE ReadPrefix
  <2>1. stream # << >>
    BY <1>5 DEF ReadPrefix
  <2> QED BY <1>5, <2>1, ReadPrefixStutters
<1>6. CASE ReadBody
  <2>1. pc = "body" /\ Deliver
    BY <1>6 DEF ReadBody, Consistent, ReaderAt
  <2>2. ~ Failed /\ Fifo!Receive
    BY <2>1, DeliverReceives
  <2> QED BY <2>2 DEF Fifo!Next
<1>7. CASE MessageCutShort \/ CommandCutShort \/ SecondCutShort
  <2>1. ~ Failed /\ (Fifo!Fail \/ UNCHANGED Fifo!vars)
    BY <1>7, CutShortFails
  <2> QED BY <2>1 DEF Fifo!Next
<1> QED BY <1>1, <1>2, <1>3, <1>4, <1>5, <1>6, <1>7 DEF Next, Read

LEMMA StepImplements ==
    ASSUME IInv, [Next]_vars
    PROVE  [interrupted' \/ Fifo!Next]_<<Fifo!vars, interrupted>>
<1>1. TypeInv /\ TypeInv'
  BY StepTyped DEF IInv
<1>2. CASE interrupted'
  BY <1>2
<1>3. CASE UNCHANGED vars
  <2>1. UNCHANGED <<stream, open, unsent, prefix, received, pc, interrupted>>
    BY <1>3 DEF vars, writer, reader
  <2>2. AtEnd' = AtEnd /\ Failed' = Failed
    BY <2>1 DEF AtEnd, Failed
  <2>3. Underway' = Underway
    BY <2>1, <2>2 DEF Underway
  <2> QED BY <2>1, <2>2, <2>3 DEF Fifo!vars
<1>4. CASE Next /\ ~ interrupted'
  <2>1. ~ interrupted /\ interrupted' = interrupted
    <3>1. ~ interrupted
      BY <1>1, <1>4, InterruptedStays
    <3> QED BY <1>1, <1>4, <3>1 DEF TypeInv, TypeOK
  <2>2. Fifo!Next \/ UNCHANGED Fifo!vars
    <3>1. CASE AtEnd
      <4>1. Read
        BY <1>1, <1>4, <3>1 DEF Next, Write, Accept, SendInterrupted, Disconnect, AtEnd, TypeInv
      <4>2. ~ Failed /\ (Fifo!ReceiveEmpty \/ Fifo!Fail \/ UNCHANGED Fifo!vars)
        BY <1>1, <3>1, <4>1, EndReads
      <4> QED BY <4>2 DEF Fifo!Next
    <3>2. CASE ~ AtEnd
      <4>1. PICK q \in Seq(Bodies), rest \in Seq(Byte) : Consistent(q, rest)
        BY <2>1, <3>2 DEF IInv, Sound
      <4> QED BY <1>1, <1>4, <3>2, <4>1, ConsistentImplements
    <3> QED BY <3>1, <3>2
  <2> QED BY <2>1, <2>2
<1> QED BY <1>2, <1>3, <1>4

LEMMA InitImplements == Init => Fifo!Init
<1> SUFFICES ASSUME Init PROVE Fifo!Init
  OBVIOUS
<1>1. /\ stream = << >> /\ unsent = << >> /\ prefix = << >> /\ open = TRUE
      /\ received = << >> /\ pc = "prefix"
  BY DEF Init
<1>2. << >> \o << >> = << >>
  BY EmptySeq, ConcatEmptySeq
<1>3. prefix \o stream \o unsent = << >>
  BY <1>1, <1>2, Zenon
<1>4. Underway = << >>
  BY <1>1, <1>3, FramesNil, Zenon DEF Underway, AtEnd
<1>5. Failed = FALSE
  BY <1>1 DEF Failed
<1> QED BY <1>1, <1>4, <1>5 DEF Fifo!Init

(* Until a signal cuts off a read or an unchecked write, the bytes are     *)
(* what the bridge takes the channel for: whole messages in the order in   *)
(* which they were sent, the last of them lost with the connection, and    *)
(* no failure before the end.                                              *)
THEOREM ImplementsMessageChannel == Spec => IsMessageChannel
<1>1. Init => IInv
  BY InitTyped, InitSound DEF IInv
<1>2. IInv /\ [Next]_vars => IInv'
  BY InvStep
<1>3. Init => Fifo!Init
  BY InitImplements
<1>4. IInv /\ [Next]_vars => [interrupted' \/ Fifo!Next]_<<Fifo!vars, interrupted>>
  BY StepImplements
<1> QED BY <1>1, <1>2, <1>3, <1>4, PTL DEF Spec, IsMessageChannel
=============================================================================
