---------------------------- MODULE DispatchProofs ----------------------------
(***************************************************************************)
(* What is proved of Protobuf and Dispatch: that a message of any class is *)
(* parsed to what was serialised, unless a string is not UTF-8, and, for   *)
(* any calls, arguments and width of integers, that an Add that comes back *)
(* brings the sum, which error code a caller gets, when an answer goes     *)
(* unheard, and that only Sub kills the server.                            *)
(***************************************************************************)
EXTENDS Dispatch, QueueLemmas

-----------------------------------------------------------------------------
(* Serialising and parsing, field by field.                                *)

\* One more field: it is appended if it is present.
LEMMA FieldsStep ==
  ASSUME NEW C, NEW m, NEW n \in Nat
  PROVE  /\ Fields(C, m, 0) = <<>>
         /\ Fields(C, m, n + 1) =
              IF Has(C, m, n + 1)
              THEN Append(Fields(C, m, n), Entry(n + 1, Wire(C.types[n + 1]), m.val[n + 1]))
              ELSE Fields(C, m, n)
<1> DEFINE G(s, i) == IF Has(C, m, i) THEN Append(s, Entry(i, Wire(C.types[i]), m.val[i]))
                      ELSE s
           E(k, f) == [i \in 0 .. k |-> IF i = 0 THEN <<>> ELSE G(f[i - 1], i)]
           W(k) == CHOOSE f : f = E(k, f)
<1>1. ASSUME NEW k \in Nat PROVE Fields(C, m, k) = W(k)[k]
  BY DEF Fields
<1>2. G(Fields(C, m, n), n + 1) =
        IF Has(C, m, n + 1)
        THEN Append(Fields(C, m, n), Entry(n + 1, Wire(C.types[n + 1]), m.val[n + 1]))
        ELSE Fields(C, m, n)
  OBVIOUS
<1> HIDE DEF G
<1>3. ASSUME NEW k \in Nat PROVE \E f : f = E(k, f)
  <2> DEFINE T == {j \in Nat : ~\E f : f = E(j, f)}
  <2>1. SUFFICES ASSUME T # {} PROVE FALSE
    OBVIOUS
  <2>2. PICK j \in T : \A l \in T : j <= l
    <3> HIDE DEF T
    <3>1. T \subseteq Nat
      BY DEF T
    <3> QED BY <2>1, <3>1, Least
  <2>3. CASE j = 0
    <3> DEFINE f == [i \in 0 .. 0 |-> <<>>]
    <3>1. f = E(0, f)
      OBVIOUS
    <3> QED BY <2>2, <2>3, <3>1
  <2>4. CASE j # 0
    <3>1. j \in Nat /\ j - 1 \in Nat /\ j - 1 \notin T
      <4>1. j \in Nat /\ j - 1 \in Nat /\ ~(j <= j - 1)
        BY <2>4
      <4> HIDE DEF T
      <4> QED BY <2>2, <4>1
    <3>2. PICK f : f = E(j - 1, f)
      BY <3>1
    <3> DEFINE g == [i \in 0 .. j |-> IF i = j THEN G(f[j - 1], j) ELSE f[i]]
    <3>3. ASSUME NEW i \in 0 .. j PROVE g[i] = IF i = 0 THEN <<>> ELSE G(g[i - 1], i)
      <4>1. CASE i = 0
        BY <2>4, <3>1, <3>2, <4>1
      <4>2. CASE i # 0 /\ i # j
        BY <3>1, <3>2, <4>2
      <4>3. CASE i # 0 /\ i = j
        BY <3>1, <4>3
      <4> QED BY <4>1, <4>2, <4>3
    <3>4. g = E(j, g)
      <4>1. g = [i \in 0 .. j |-> g[i]]
        OBVIOUS
      <4> HIDE DEF g
      <4> QED BY <3>3, <4>1
    <3> HIDE DEF g
    <3> QED BY <2>2, <3>4
  <2> QED BY <2>3, <2>4
<1>4. ASSUME NEW k \in Nat PROVE W(k) = E(k, W(k))
  BY <1>3, Zenon
<1> HIDE DEF W
<1>5. ASSUME NEW k \in Nat
      PROVE  W(k)[0] = <<>> /\ \A i \in 1 .. k : W(k)[i] = G(W(k)[i - 1], i)
  <2>1. PICK w : w = W(k)
    OBVIOUS
  <2>2. w = E(k, w)
    BY <1>4, <2>1
  <2>3. w[0] = <<>>
    BY <2>2
  <2>4. ASSUME NEW i \in 1 .. k PROVE w[i] = G(w[i - 1], i)
    BY <2>2
  <2> QED BY <2>1, <2>3, <2>4
<1>6. ASSUME NEW k \in 0 .. n PROVE W(n)[k] = W(n + 1)[k]
  <2> DEFINE T == {j \in 0 .. n : W(n)[j] # W(n + 1)[j]}
  <2>1. SUFFICES ASSUME T # {} PROVE FALSE
    OBVIOUS
  <2>2. PICK j \in T : \A l \in T : j <= l
    <3> HIDE DEF T
    <3>1. T \subseteq Nat
      BY DEF T
    <3> QED BY <2>1, <3>1, Least
  <2>3. j # 0
    BY <1>5, <2>2
  <2>4. j - 1 \in 0 .. n /\ j \in 1 .. n /\ j \in 1 .. n + 1 /\ j - 1 \notin T
    <3>1. j - 1 \in 0 .. n /\ j \in 1 .. n /\ j \in 1 .. n + 1 /\ ~(j <= j - 1)
      BY <2>3
    <3> HIDE DEF T
    <3> QED BY <2>2, <3>1
  <2>5. W(n)[j - 1] = W(n + 1)[j - 1]
    BY <2>4
  <2>6. W(n)[j] = G(W(n)[j - 1], j) /\ W(n + 1)[j] = G(W(n + 1)[j - 1], j)
    BY <1>5, <2>4
  <2> QED BY <2>2, <2>5, <2>6
<1>7. Fields(C, m, n + 1) = G(Fields(C, m, n), n + 1)
  <2>1. n + 1 \in Nat /\ n + 1 \in 1 .. n + 1 /\ (n + 1) - 1 = n /\ n \in 0 .. n
    OBVIOUS
  <2>2. Fields(C, m, n + 1) = W(n + 1)[n + 1] /\ Fields(C, m, n) = W(n)[n]
    BY <1>1, <2>1
  <2>3. W(n + 1)[n + 1] = G(W(n + 1)[(n + 1) - 1], n + 1)
    BY <1>5, <2>1
  <2> QED BY <1>6, <2>1, <2>2, <2>3
<1>8. Fields(C, m, 0) = <<>>
  BY <1>1, <1>5
<1> QED BY <1>2, <1>7, <1>8

\* Parsing starts with a new message, and what was parsed is not looked at again: one more
\* entry is one more turn of the loop.
LEMMA ParseStep ==
  ASSUME NEW C, NEW S, NEW s \in Seq(S), NEW e
  PROVE  /\ Parse(C, <<>>) = [ok |-> TRUE, msg |-> New(C)]
         /\ Parse(C, Append(s, e)) = ParseEntry(C, Parse(C, s), e)
<1> DEFINE start == [ok |-> TRUE, msg |-> New(C)]
           E(t, k, f) == [i \in 0 .. k |-> IF i = 0 THEN start ELSE ParseEntry(C, f[i - 1], t[i])]
           W(t, k) == CHOOSE f : f = E(t, k, f)
<1>1. ASSUME NEW t PROVE Parse(C, t) = W(t, Len(t))[Len(t)]
  BY DEF Parse
<1> HIDE DEF start
<1>3. ASSUME NEW t, NEW k \in Nat PROVE \E f : f = E(t, k, f)
  <2> DEFINE T == {j \in Nat : ~\E f : f = E(t, j, f)}
  <2>1. SUFFICES ASSUME T # {} PROVE FALSE
    OBVIOUS
  <2>2. PICK j \in T : \A l \in T : j <= l
    <3> HIDE DEF T
    <3>1. T \subseteq Nat
      BY DEF T
    <3> QED BY <2>1, <3>1, Least
  <2>3. CASE j = 0
    <3> DEFINE f == [i \in 0 .. 0 |-> start]
    <3>1. f = E(t, 0, f)
      OBVIOUS
    <3> QED BY <2>2, <2>3, <3>1
  <2>4. CASE j # 0
    <3>1. j \in Nat /\ j - 1 \in Nat /\ j - 1 \notin T
      <4>1. j \in Nat /\ j - 1 \in Nat /\ ~(j <= j - 1)
        BY <2>4
      <4> HIDE DEF T
      <4> QED BY <2>2, <4>1
    <3>2. PICK f : f = E(t, j - 1, f)
      BY <3>1
    <3> DEFINE g == [i \in 0 .. j |-> IF i = j THEN ParseEntry(C, f[j - 1], t[j]) ELSE f[i]]
    <3>3. ASSUME NEW i \in 0 .. j
          PROVE  g[i] = IF i = 0 THEN start ELSE ParseEntry(C, g[i - 1], t[i])
      <4>1. CASE i = 0
        BY <2>4, <3>1, <3>2, <4>1
      <4>2. CASE i # 0 /\ i # j
        BY <3>1, <3>2, <4>2
      <4>3. CASE i # 0 /\ i = j
        BY <3>1, <4>3
      <4> QED BY <4>1, <4>2, <4>3
    <3>4. g = E(t, j, g)
      <4>1. g = [i \in 0 .. j |-> g[i]]
        OBVIOUS
      <4> HIDE DEF g
      <4> QED BY <3>3, <4>1
    <3> HIDE DEF g
    <3> QED BY <2>2, <3>4
  <2> QED BY <2>3, <2>4
<1>4. ASSUME NEW t, NEW k \in Nat PROVE W(t, k) = E(t, k, W(t, k))
  BY <1>3, Zenon
<1> HIDE DEF W
<1>5. ASSUME NEW t, NEW k \in Nat
      PROVE  /\ W(t, k)[0] = start
             /\ \A i \in 1 .. k : W(t, k)[i] = ParseEntry(C, W(t, k)[i - 1], t[i])
  <2>1. PICK w : w = W(t, k)
    OBVIOUS
  <2>2. w = E(t, k, w)
    BY <1>4, <2>1
  <2>3. w[0] = start
    BY <2>2
  <2>4. ASSUME NEW i \in 1 .. k PROVE w[i] = ParseEntry(C, w[i - 1], t[i])
    BY <2>2
  <2> QED BY <2>1, <2>3, <2>4
<1>6. Parse(C, <<>>) = start
  <2>1. Parse(C, <<>>) = W(<<>>, Len(<<>>))[Len(<<>>)]
    BY <1>1
  <2>2. Len(<<>>) = 0 /\ 0 \in Nat
    OBVIOUS
  <2>3. W(<<>>, 0)[0] = start
    BY <1>5, <2>2
  <2> QED BY <2>1, <2>2, <2>3
<1>7. PICK n, t : /\ n \in Nat /\ n = Len(s)
                  /\ t = Append(s, e) /\ Len(t) = n + 1 /\ t[n + 1] = e
                  /\ \A i \in 1 .. n : t[i] = s[i]
  <2>1. s \in Seq(S \cup {e}) /\ e \in S \cup {e}
    OBVIOUS
  <2>2. /\ Len(s) \in Nat /\ Len(Append(s, e)) = Len(s) + 1 /\ Append(s, e)[Len(s) + 1] = e
        /\ \A i \in 1 .. Len(s) : Append(s, e)[i] = s[i]
    BY <2>1, AppendProperties
  <2> QED BY <2>2
<1>8. ASSUME NEW k \in 0 .. n PROVE W(s, n)[k] = W(t, n + 1)[k]
  <2> DEFINE T == {j \in 0 .. n : W(s, n)[j] # W(t, n + 1)[j]}
  <2>1. SUFFICES ASSUME T # {} PROVE FALSE
    OBVIOUS
  <2>2. PICK j \in T : \A l \in T : j <= l
    <3> HIDE DEF T
    <3>1. T \subseteq Nat
      BY DEF T
    <3> QED BY <2>1, <3>1, Least
  <2>3. j # 0
    BY <1>7, <1>5, <2>2
  <2>4. j - 1 \in 0 .. n /\ j \in 1 .. n /\ j \in 1 .. n + 1 /\ j - 1 \notin T
    <3>1. j - 1 \in 0 .. n /\ j \in 1 .. n /\ j \in 1 .. n + 1 /\ ~(j <= j - 1)
      BY <1>7, <2>3
    <3> HIDE DEF T
    <3> QED BY <2>2, <3>1
  <2>5. W(s, n)[j - 1] = W(t, n + 1)[j - 1]
    BY <2>4
  <2>6. /\ W(s, n)[j] = ParseEntry(C, W(s, n)[j - 1], s[j])
        /\ W(t, n + 1)[j] = ParseEntry(C, W(t, n + 1)[j - 1], t[j])
    <3>1. n \in Nat /\ n + 1 \in Nat
      BY <1>7
    <3> QED BY <1>5, <2>4, <3>1
  <2> QED BY <1>7, <2>2, <2>4, <2>5, <2>6
<1>9. Parse(C, t) = ParseEntry(C, Parse(C, s), e)
  <2>1. n + 1 \in Nat /\ n + 1 \in 1 .. n + 1 /\ (n + 1) - 1 = n /\ n \in 0 .. n
    BY <1>7
  <2>2. Parse(C, t) = W(t, n + 1)[n + 1] /\ Parse(C, s) = W(s, n)[n]
    BY <1>1, <1>7
  <2>3. W(t, n + 1)[n + 1] = ParseEntry(C, W(t, n + 1)[(n + 1) - 1], t[n + 1])
    BY <1>5, <2>1
  <2> QED BY <1>7, <1>8, <2>1, <2>2, <2>3
<1> QED BY <1>6, <1>7, <1>9 DEF start
-----------------------------------------------------------------------------
(* What was serialised is what is parsed.                                  *)

\* The fields of a class are numbered from 1.
IsClass(C) ==
  /\ Len(C.types) \in Nat /\ DOMAIN C.types = 1 .. Len(C.types)
  /\ C.explicit \in BOOLEAN

\* A message whose fields were set from the code: nothing in it is unknown.
Message(h, v) == [has |-> h, val |-> v, unknown |-> <<>>]

IsMessage(C, h, v) ==
  /\ v = [i \in DOMAIN C.types |-> v[i]]
  /\ C.explicit => /\ h \subseteq DOMAIN C.types
                   /\ \A i \in DOMAIN C.types \ h : v[i] = Default(C.types[i])
  /\ ~C.explicit => h = {}

\* No string on the wire is refused by a parser that checks UTF-8.
Readable(C, h, v, n) ==
  \A i \in 1 .. n :
    C.types[i] = "string" /\ Has(C, Message(h, v), i) => v[i] \notin NotUtf8

\* A field of the message's own class is stored, or refused.
LEMMA EntryIsStored ==
  ASSUME NEW C, IsClass(C), NEW i \in DOMAIN C.types, NEW x, NEW m
  PROVE  LET next == ParseEntry(C, [ok |-> TRUE, msg |-> m], Entry(i, Wire(C.types[i]), x))
         IN IF C.types[i] = "string" /\ x \in NotUtf8
            THEN ~next.ok
            ELSE next = [ok |-> TRUE, msg |-> SetField(C, m, i, x)]
<1> DEFINE p == [ok |-> TRUE, msg |-> m]
           e == Entry(i, Wire(C.types[i]), x)
<1> DEFINE fine == C.types[i] = "string" => x \notin NotUtf8
<1>1. p.ok /\ p.msg = m /\ e.num = i /\ e.wire = Wire(C.types[i]) /\ e.val = x
  BY DEF Entry
<1>2. i # 0
  <2>1. DOMAIN C.types = 1 .. Len(C.types) /\ Len(C.types) \in Nat
    BY DEF IsClass
  <2> QED BY <2>1
<1> HIDE DEF p, e
<1>3. ParseEntry(C, p, e) = [ok |-> fine, msg |-> SetField(C, m, i, x)]
  BY <1>1, <1>2, Zenon DEF ParseEntry
<1>4. CASE fine
  <2>1. fine = TRUE
    BY <1>4
  <2> QED BY <1>3, <1>4, <2>1, Zenon DEF p, e
<1>5. CASE ~fine
  <2>1. [ok |-> fine, msg |-> SetField(C, m, i, x)].ok = fine
    OBVIOUS
  <2> QED BY <1>3, <1>5, <2>1, Zenon DEF p, e
<1> QED BY <1>4, <1>5

\* After a failure nothing is parsed.
LEMMA FailureStays ==
  ASSUME NEW C, NEW p, NEW e, ~p.ok
  PROVE  ParseEntry(C, p, e) = p
BY Zenon DEF ParseEntry

\* A tag that is not one fails.
LEMMA CutFails ==
  ASSUME NEW C, IsClass(C), NEW p, NEW m, ~p.ok \/ p = [ok |-> TRUE, msg |-> m]
  PROVE  ~ParseEntry(C, p, CutEntry).ok
<1>1. CASE ~p.ok
  BY <1>1, FailureStays, Zenon
<1>2. CASE p.ok /\ p = [ok |-> TRUE, msg |-> m]
  <2>1. CutEntry.num = 0 /\ 0 \notin DOMAIN C.types
    <3>1. CutEntry.num = 0
      BY DEF CutEntry, Entry
    <3>2. DOMAIN C.types = 1 .. Len(C.types) /\ Len(C.types) \in Nat
      BY DEF IsClass
    <3> QED BY <3>1, <3>2
  <2>2. ParseEntry(C, p, CutEntry) = [p EXCEPT !.ok = FALSE]
    BY <1>2, <2>1, Zenon DEF ParseEntry
  <2>3. [p EXCEPT !.ok = FALSE].ok = FALSE
    BY <1>2
  <2> QED BY <2>2, <2>3
<1>3. p = [ok |-> TRUE, msg |-> m] => p.ok
  OBVIOUS
<1> QED BY <1>1, <1>2, <1>3

\* The entries a message may be written as.
EntriesOf(C, v) == {Entry(i, Wire(C.types[i]), v[i]) : i \in DOMAIN C.types}

\* What is known of a message whose first n fields were parsed.
UpTo(C, h, v, n) ==
  Message({i \in h : i <= n},
          [i \in DOMAIN C.types |-> IF i <= n THEN v[i] ELSE Default(C.types[i])])

\* The fields that are present come back as they were set, and the ones that are not have
\* their default, whether presence is explicit or not, up to a string that is refused.
LEMMA FieldsComeBack ==
  ASSUME NEW C, NEW D, IsClass(C), D.types = C.types, D.explicit = C.explicit,
         NEW h, NEW v, IsMessage(C, h, v), NEW n \in 0 .. Len(C.types)
  PROVE  LET s == Fields(C, Message(h, v), n)
         IN /\ s \in Seq(EntriesOf(C, v))
            /\ Readable(C, h, v, n) => Parse(D, s) = [ok |-> TRUE, msg |-> UpTo(C, h, v, n)]
            /\ ~Readable(C, h, v, n) => ~Parse(D, s).ok
<1> DEFINE F(k) == Fields(C, Message(h, v), k)
           P(k) == /\ F(k) \in Seq(EntriesOf(C, v))
                   /\ Readable(C, h, v, k) =>
                        Parse(D, F(k)) = [ok |-> TRUE, msg |-> UpTo(C, h, v, k)]
                   /\ ~Readable(C, h, v, k) => ~Parse(D, F(k)).ok
           T == {k \in 0 .. Len(C.types) : ~P(k)}
<1>0. /\ Len(C.types) \in Nat /\ DOMAIN C.types = 1 .. Len(C.types)
      /\ IsClass(D) /\ C.explicit \in BOOLEAN
  BY DEF IsClass
<1>1. P(0)
  <2>1. F(0) = <<>>
    BY FieldsStep, 0 \in Nat
  <2>2. Readable(C, h, v, 0)
    BY DEF Readable
  <2>3. New(D) = UpTo(C, h, v, 0)
    <3>1. {i \in h : i <= 0} = {}
      BY <1>0 DEF IsMessage
    <3>2. [i \in DOMAIN D.types |-> Default(D.types[i])] =
            [i \in DOMAIN C.types |-> IF i <= 0 THEN v[i] ELSE Default(C.types[i])]
      BY <1>0
    <3> QED BY <3>1, <3>2, Zenon DEF New, UpTo, Message
  <2>4. Parse(D, <<>>) = [ok |-> TRUE, msg |-> New(D)]
    BY ParseStep, <<>> \in Seq({})
  <2>5. <<>> \in Seq(EntriesOf(C, v))
    OBVIOUS
  <2> HIDE DEF F
  <2> QED BY <2>1, <2>2, <2>3, <2>4, <2>5, Zenon
<1>2. ASSUME NEW k \in 1 .. Len(C.types), P(k - 1) PROVE P(k)
  <2> DEFINE e == Entry(k, Wire(C.types[k]), v[k])
             s == F(k - 1)
             fine == C.types[k] = "string" => v[k] \notin NotUtf8
  <2>1. k - 1 \in Nat /\ (k - 1) + 1 = k /\ k \in DOMAIN C.types /\ k \in Nat
    BY <1>0
  <2>2. F(k) = IF Has(C, Message(h, v), k) THEN Append(s, e) ELSE s
    <3>1. Message(h, v).val[k] = v[k]
      BY DEF Message
    <3>2. F((k - 1) + 1) = IF Has(C, Message(h, v), (k - 1) + 1)
            THEN Append(s, Entry((k - 1) + 1, Wire(C.types[(k - 1) + 1]),
                                 Message(h, v).val[(k - 1) + 1]))
            ELSE s
      BY <2>1, FieldsStep, Zenon
    <3> QED BY <2>1, <3>1, <3>2
  <2>3. e \in EntriesOf(C, v)
    BY <2>1 DEF EntriesOf
  <2>4. Readable(C, h, v, k) <=>
          Readable(C, h, v, k - 1) /\ (Has(C, Message(h, v), k) => fine)
    <3>1. 1 .. k = (1 .. k - 1) \cup {k}
      BY <2>1
    <3> QED BY <3>1, Zenon DEF Readable
  <2>5. s \in Seq(EntriesOf(C, v))
    BY <1>2
  <2>6. CASE ~Has(C, Message(h, v), k)
    <3>1. UpTo(C, h, v, k) = UpTo(C, h, v, k - 1)
      <4>1. v[k] = Default(C.types[k]) /\ k \notin h
        BY <1>0, <2>1, <2>6 DEF Has, Message, IsMessage
      <4>2. {i \in h : i <= k} = {i \in h : i <= k - 1}
        <5>1. h \subseteq Nat
          BY <1>0 DEF IsMessage
        <5>2. ASSUME NEW i \in h PROVE i <= k <=> i <= k - 1
          BY <2>1, <4>1, <5>1
        <5> QED BY <5>2
      <4>3. [i \in DOMAIN C.types |-> IF i <= k THEN v[i] ELSE Default(C.types[i])] =
              [i \in DOMAIN C.types |-> IF i <= k - 1 THEN v[i] ELSE Default(C.types[i])]
        <5>1. ASSUME NEW i \in DOMAIN C.types
              PROVE  (IF i <= k THEN v[i] ELSE Default(C.types[i])) =
                       (IF i <= k - 1 THEN v[i] ELSE Default(C.types[i]))
          BY <1>0, <2>1, <4>1
        <5> QED BY <5>1, Zenon
      <4> QED BY <4>2, <4>3, Zenon DEF UpTo
    <3>2. F(k) = s
      BY <2>2, <2>6
    <3> HIDE DEF F
    <3> QED BY <1>2, <2>4, <2>6, <3>1, <3>2, Zenon
  <2>7. CASE Has(C, Message(h, v), k)
    <3>1. F(k) = Append(s, e) /\ Append(s, e) \in Seq(EntriesOf(C, v))
      BY <2>2, <2>3, <2>5, <2>7
    <3>2. Parse(D, F(k)) = ParseEntry(D, Parse(D, s), e)
      <4> HIDE DEF F, e
      <4>1. Parse(D, Append(s, e)) = ParseEntry(D, Parse(D, s), e)
        <5> HIDE DEF s
        <5> QED BY <2>5, ParseStep, Zenon
      <4> QED BY <3>1, <4>1, Zenon
    <3>3. CASE ~Readable(C, h, v, k - 1)
      <4>1. ~Parse(D, s).ok
        BY <1>2, <3>3
      <4>2. Parse(D, F(k)) = Parse(D, s)
        BY <3>2, <4>1, FailureStays, Zenon
      <4> QED BY <2>4, <3>1, <3>3, <4>1, <4>2, Zenon
    <3>4. CASE Readable(C, h, v, k - 1)
      <4> DEFINE hh == {i \in h : i <= k - 1}
                 vv == [i \in DOMAIN C.types |-> IF i <= k - 1 THEN v[i] ELSE Default(C.types[i])]
      <4>1. Parse(D, s) = [ok |-> TRUE, msg |-> Message(hh, vv)]
        BY <1>2, <3>4 DEF UpTo
      <4>2. Message(IF C.explicit THEN hh \cup {k} ELSE hh, [vv EXCEPT ![k] = v[k]]) =
              UpTo(C, h, v, k)
        <5>1. (IF C.explicit THEN hh \cup {k} ELSE hh) = {i \in h : i <= k}
          <6>1. CASE C.explicit
            <7>1. k \in h /\ h \subseteq Nat
              BY <1>0, <2>7, <6>1 DEF Has, Message, IsMessage
            <7> QED BY <2>1, <6>1, <7>1
          <6>2. CASE ~C.explicit
            BY <6>2 DEF IsMessage
          <6> QED BY <6>1, <6>2
        <5>2. [vv EXCEPT ![k] = v[k]] =
                [i \in DOMAIN C.types |-> IF i <= k THEN v[i] ELSE Default(C.types[i])]
          <6>1. ASSUME NEW i \in DOMAIN C.types
                PROVE  [vv EXCEPT ![k] = v[k]][i] =
                         IF i <= k THEN v[i] ELSE Default(C.types[i])
            BY <1>0, <2>1
          <6>2. [vv EXCEPT ![k] = v[k]] =
                  [i \in DOMAIN C.types |-> [vv EXCEPT ![k] = v[k]][i]]
            OBVIOUS
          <6> HIDE DEF vv
          <6> QED BY <6>1, <6>2
        <5> HIDE DEF hh, vv
        <5> QED BY <5>1, <5>2, Zenon DEF UpTo
      <4>3. /\ fine => ParseEntry(D, Parse(D, s), e) = [ok |-> TRUE, msg |-> UpTo(C, h, v, k)]
            /\ ~fine => ~ParseEntry(D, Parse(D, s), e).ok
        <5>1. k \in DOMAIN D.types /\ IsClass(D) /\ e = Entry(k, Wire(D.types[k]), v[k])
          BY <1>0, <2>1
        <5> HIDE DEF hh, vv, s, e
        <5>2. SetField(D, Message(hh, vv), k, v[k]) = UpTo(C, h, v, k)
          <6>1. SetField(D, Message(hh, vv), k, v[k]) =
                  Message(IF D.explicit THEN hh \cup {k} ELSE hh, [vv EXCEPT ![k] = v[k]])
            <7>1. Message(hh, vv).has = hh /\ Message(hh, vv).val = vv
                  /\ Message(hh, vv).unknown = <<>>
              BY DEF Message
            <7> QED BY <7>1, Zenon DEF SetField, Message
          <6> QED BY <4>2, <6>1
        <5>3. fine <=> ~(D.types[k] = "string" /\ v[k] \in NotUtf8)
          OBVIOUS
        <5> HIDE DEF fine
        <5>4. PICK x, m : x = v[k] /\ m = Message(hh, vv)
          OBVIOUS
        <5>5. LET next == ParseEntry(D, [ok |-> TRUE, msg |-> m], Entry(k, Wire(D.types[k]), x))
              IN IF D.types[k] = "string" /\ x \in NotUtf8
                 THEN ~next.ok
                 ELSE next = [ok |-> TRUE, msg |-> SetField(D, m, k, x)]
          BY <5>1, EntryIsStored, Zenon
        <5> QED BY <4>1, <5>1, <5>2, <5>3, <5>4, <5>5, Zenon
      <4> HIDE DEF F, hh, vv, fine
      <4>4. CASE fine
        BY <2>4, <2>7, <3>1, <3>2, <3>4, <4>3, <4>4, Zenon
      <4>5. CASE ~fine
        BY <2>4, <2>7, <3>1, <3>2, <3>4, <4>3, <4>5, Zenon
      <4> QED BY <4>4, <4>5
    <3> QED BY <3>3, <3>4
  <2> QED BY <2>6, <2>7
<1> HIDE DEF P
<1>3. T = {}
  <2>1. SUFFICES ASSUME T # {} PROVE FALSE
    OBVIOUS
  <2>2. PICK j \in T : \A l \in T : j <= l
    <3> HIDE DEF T
    <3>1. T \subseteq Nat
      BY DEF T
    <3> QED BY <2>1, <3>1, Least
  <2>3. j # 0
    BY <1>1, <2>2
  <2>4. j - 1 \in 0 .. Len(C.types) /\ j \in 1 .. Len(C.types) /\ j - 1 \notin T
    <3>1. j - 1 \in 0 .. Len(C.types) /\ j \in 1 .. Len(C.types) /\ ~(j <= j - 1)
      BY <1>0, <2>3
    <3> HIDE DEF T
    <3> QED BY <2>2, <3>1
  <2> QED BY <1>2, <2>2, <2>4
<1>4. P(n)
  BY <1>3
<1> QED BY <1>4 DEF P

\* A message of any class, with any of its fields set to anything, is parsed to itself, also
\* by a class with the same fields, unless one of its strings is not UTF-8, and then, or
\* with something cut off at its end, it is refused (_InternalSerialize, _InternalParse).
\* So proto2 keeps what was set from what was not, also where it is set to its default.
THEOREM RoundTrip ==
  ASSUME NEW C, NEW D, IsClass(C), D.types = C.types, D.explicit = C.explicit,
         NEW h, NEW v, IsMessage(C, h, v)
  PROVE  LET bytes == Serialize(C, Message(h, v))
         IN /\ bytes \in Seq(EntriesOf(C, v))
            /\ Readable(C, h, v, Len(C.types)) =>
                 Parse(D, bytes) = [ok |-> TRUE, msg |-> Message(h, v)]
            /\ ~Readable(C, h, v, Len(C.types)) => ~Parse(D, bytes).ok
            /\ ~Parse(D, bytes \o <<CutEntry>>).ok
<1> DEFINE n == Len(C.types)
           s == Fields(C, Message(h, v), n)
           bytes == Serialize(C, Message(h, v))
<1>1. n \in Nat /\ n \in 0 .. n /\ DOMAIN C.types = 1 .. n /\ IsClass(D)
  BY DEF IsClass
<1>2. /\ s \in Seq(EntriesOf(C, v))
      /\ Readable(C, h, v, n) => Parse(D, s) = [ok |-> TRUE, msg |-> UpTo(C, h, v, n)]
      /\ ~Readable(C, h, v, n) => ~Parse(D, s).ok
  BY <1>1, FieldsComeBack
<1>3. bytes = s
  <2>1. Message(h, v).unknown = <<>>
    BY DEF Message
  <2>2. bytes = s \o <<>>
    BY <2>1 DEF Serialize
  <2> HIDE DEF s, bytes
  <2> QED BY <1>2, <2>2
<1>4. UpTo(C, h, v, n) = Message(h, v)
  <2>1. {i \in h : i <= n} = h
    BY <1>1 DEF IsMessage, IsClass
  <2>2. [i \in DOMAIN C.types |-> IF i <= n THEN v[i] ELSE Default(C.types[i])] = v
    <3>1. ASSUME NEW i \in DOMAIN C.types
          PROVE  (IF i <= n THEN v[i] ELSE Default(C.types[i])) = v[i]
      BY <1>1
    <3>2. v = [i \in DOMAIN C.types |-> v[i]]
      BY DEF IsMessage
    <3> QED BY <3>1, <3>2, Zenon
  <2> QED BY <2>1, <2>2, Zenon DEF UpTo
<1> HIDE DEF s, bytes, n
<1>5. ~Parse(D, bytes \o <<CutEntry>>).ok
  <2>1. bytes \o <<CutEntry>> = Append(s, CutEntry)
    BY <1>2, <1>3
  <2>2. Parse(D, Append(s, CutEntry)) = ParseEntry(D, Parse(D, s), CutEntry)
    BY <1>2, ParseStep, Zenon
  <2>3. ~Parse(D, s).ok \/ Parse(D, s) = [ok |-> TRUE, msg |-> UpTo(C, h, v, n)]
    BY <1>2, Zenon
  <2>4. ~ParseEntry(D, Parse(D, s), CutEntry).ok
    BY <1>1, <2>3, CutFails, Zenon
  <2> QED BY <2>1, <2>2, <2>4, Zenon
<1> QED BY <1>2, <1>3, <1>4, <1>5, Zenon DEF n, bytes
-----------------------------------------------------------------------------
(* What the invariants need: what each message on the way is.              *)

States == {"new", "sent", "queued", "answered", "heard", "unheard", "failed", "ok"}

Shape ==
  /\ services \subseteq Services
  /\ pc \in [Calls -> States]
  /\ ask = [c \in Calls |-> ask[c]]
  /\ wire = [c \in Calls |-> wire[c]]
  /\ task = [c \in Calls |-> task[c]]
  /\ answer = [c \in Calls |-> answer[c]]
  /\ result = [c \in Calls |-> result[c]]

\* The three fields of an RpcRequest or an RpcResponse, the two of the arguments and the
\* one of a result.
Triple(x, y, z) == [i \in 1 .. 3 |-> IF i = 1 THEN x ELSE IF i = 2 THEN y ELSE z]
Pair(x, y) == [i \in 1 .. 2 |-> IF i = 1 THEN x ELSE y]
Single(x) == [i \in 1 .. 1 |-> x]

\* The request as the server must see it.
Request(q) == Message({}, Triple(q.service, q.method, Arguments(q)))

\* What the server may answer.
Answers(q) == IF q.cut = "header" THEN {WrongProto} ELSE DispatchRequest(Request(q))

\* The messages of a call, by how far it has come.
Conversation(c) ==
  /\ pc[c] # "new" => ask[c] \in Asks
  /\ pc[c] \notin {"new", "sent"} => server # "new"
  /\ pc[c] = "sent" => wire[c] = MakeRequest(ask[c])
  /\ pc[c] = "queued" => ask[c].cut # "header" /\ task[c] = Request(ask[c])
  /\ pc[c] = "answered" => \E r \in Answers(ask[c]) : wire[c] = Serialize(RpcResponse, r)
  /\ pc[c] \in {"heard", "failed", "ok"} =>
       answer[c] \in Answers(ask[c]) /\ Serialize(RpcResponse, answer[c]) # <<>>
  /\ pc[c] = "failed" => Get(answer[c], 1) # Error.NO_ERROR
  /\ pc[c] = "ok" =>
       /\ Get(answer[c], 1) = Error.NO_ERROR
       /\ result[c] = Parse(ResponseOf(ask[c].method), Get(answer[c], 3)).msg

DispatchInv ==
  Shape /\ (\A c \in Calls : Conversation(c)) /\ UnheardOnlyIfMute /\ OnlySubCrashes

\* The classes of the two headers: three fields, presence by value.
LEMMA HeaderClasses ==
  ASSUME NEW C \in {RpcRequest, RpcResponse}
  PROVE  /\ IsClass(C) /\ C.explicit = FALSE
         /\ DOMAIN C.types = 1 .. 3 /\ Len(C.types) = 3
         /\ C.types[2] = "string" /\ C.types[3] = "bytes"
         /\ C.types[1] = IF C = RpcRequest THEN "string" ELSE "enum"
<1>1. RpcRequest.name = "rpc.RpcRequest" /\ RpcResponse.name = "rpc.RpcResponse"
  BY DEF RpcRequest, RpcResponse
<1>2. CASE C = RpcRequest
  <2>1. C.types = <<"string", "string", "bytes">> /\ C.explicit = FALSE
    BY <1>2 DEF RpcRequest
  <2>2. DOMAIN C.types = 1 .. 3 /\ Len(C.types) = 3
    BY <2>1
  <2>3. C.types[1] = "string" /\ C.types[2] = "string" /\ C.types[3] = "bytes"
    BY <2>1
  <2> QED BY <1>2, <2>1, <2>2, <2>3 DEF IsClass
<1>3. CASE C = RpcResponse
  <2>1. C.types = <<"enum", "string", "bytes">> /\ C.explicit = FALSE
    BY <1>3 DEF RpcResponse
  <2>2. C # RpcRequest
    BY <1>1, <1>3
  <2>3. DOMAIN C.types = 1 .. 3 /\ Len(C.types) = 3
    BY <2>1
  <2>4. C.types[1] = "enum" /\ C.types[2] = "string" /\ C.types[3] = "bytes"
    BY <2>1
  <2> QED BY <2>1, <2>2, <2>3, <2>4 DEF IsClass
<1> QED BY <1>2, <1>3

\* The classes of the arguments: two integers, explicit presence.
LEMMA ArgumentClasses ==
  ASSUME NEW C \in {AddRequest, SubRequest}
  PROVE  /\ IsClass(C) /\ C.explicit = TRUE
         /\ DOMAIN C.types = 1 .. 2 /\ Len(C.types) = 2
         /\ C.types = AddRequest.types /\ C.types[1] = "int32" /\ C.types[2] = "int32"
<1>1. C.types = <<"int32", "int32">> /\ C.explicit = TRUE /\ AddRequest.types = <<"int32", "int32">>
  BY DEF AddRequest, SubRequest
<1>2. DOMAIN C.types = 1 .. 2 /\ Len(C.types) = 2
  BY <1>1
<1>3. C.types[1] = "int32" /\ C.types[2] = "int32"
  BY <1>1
<1> QED BY <1>1, <1>2, <1>3 DEF IsClass

\* The class of the sum: one integer, explicit presence.
LEMMA SumClass ==
  /\ IsClass(AddResponse) /\ AddResponse.explicit = TRUE
  /\ DOMAIN AddResponse.types = 1 .. 1 /\ Len(AddResponse.types) = 1
  /\ AddResponse.types[1] = "int32"
<1>1. AddResponse.types = <<"int32">> /\ AddResponse.explicit = TRUE
  BY DEF AddResponse
<1>2. DOMAIN AddResponse.types = 1 .. 1 /\ Len(AddResponse.types) = 1
  BY <1>1
<1>3. AddResponse.types[1] = "int32"
  BY <1>1
<1> QED BY <1>1, <1>2, <1>3 DEF IsClass

\* A header as it is constructed.
LEMMA HeaderNew ==
  ASSUME NEW C \in {RpcRequest, RpcResponse}
  PROVE  New(C) = Message({}, Triple(Default(C.types[1]), "", <<>>))
<1>0. DOMAIN C.types = 1 .. 3 /\ C.types[2] = "string" /\ C.types[3] = "bytes"
  BY HeaderClasses
<1>1. Default("string") = "" /\ Default("bytes") = <<>>
  BY Zenon DEF Default
<1>2. [i \in 1 .. 3 |-> Default(C.types[i])] = Triple(Default(C.types[1]), "", <<>>)
  <2>1. ASSUME NEW i \in 1 .. 3
        PROVE  Default(C.types[i]) =
                 IF i = 1 THEN Default(C.types[1]) ELSE IF i = 2 THEN "" ELSE <<>>
    <3>1. i = 1 \/ i = 2 \/ i = 3
      OBVIOUS
    <3> QED BY <1>0, <1>1, <3>1
  <2> QED BY <2>1, Zenon DEF Triple
<1> QED BY <1>0, <1>2, Zenon DEF New, Message

\* Setting the fields of a header.
LEMMA HeaderSet ==
  ASSUME NEW C \in {RpcRequest, RpcResponse}, NEW x, NEW y, NEW z, NEW u,
         NEW m, m = Message({}, Triple(x, y, z))
  PROVE  /\ SetField(C, m, 1, u) = Message({}, Triple(u, y, z))
         /\ SetField(C, m, 2, u) = Message({}, Triple(x, u, z))
         /\ SetField(C, m, 3, u) = Message({}, Triple(x, y, u))
<1>0. C.explicit = FALSE
  BY HeaderClasses
<1>1. ASSUME NEW i PROVE SetField(C, m, i, u) = Message({}, [Triple(x, y, z) EXCEPT ![i] = u])
  <2>1. m.has = {} /\ m.val = Triple(x, y, z) /\ m.unknown = <<>>
    BY DEF Message
  <2> QED BY <1>0, <2>1, Zenon DEF SetField, Message
<1>2. [Triple(x, y, z) EXCEPT ![1] = u] = Triple(u, y, z)
  <2>1. ASSUME NEW i \in 1 .. 3
        PROVE  [Triple(x, y, z) EXCEPT ![1] = u][i] = Triple(u, y, z)[i]
    BY DEF Triple
  <2>2. DOMAIN [Triple(x, y, z) EXCEPT ![1] = u] = 1 .. 3 /\ DOMAIN Triple(u, y, z) = 1 .. 3
    BY DEF Triple
  <2> QED BY <2>1, <2>2 DEF Triple
<1>3. [Triple(x, y, z) EXCEPT ![2] = u] = Triple(x, u, z)
  <2>1. ASSUME NEW i \in 1 .. 3
        PROVE  [Triple(x, y, z) EXCEPT ![2] = u][i] = Triple(x, u, z)[i]
    BY DEF Triple
  <2>2. DOMAIN [Triple(x, y, z) EXCEPT ![2] = u] = 1 .. 3 /\ DOMAIN Triple(x, u, z) = 1 .. 3
    BY DEF Triple
  <2> QED BY <2>1, <2>2 DEF Triple
<1>4. [Triple(x, y, z) EXCEPT ![3] = u] = Triple(x, y, u)
  <2>1. ASSUME NEW i \in 1 .. 3
        PROVE  [Triple(x, y, z) EXCEPT ![3] = u][i] = Triple(x, y, u)[i]
    BY DEF Triple
  <2>2. DOMAIN [Triple(x, y, z) EXCEPT ![3] = u] = 1 .. 3 /\ DOMAIN Triple(x, y, u) = 1 .. 3
    BY DEF Triple
  <2> QED BY <2>1, <2>2 DEF Triple
<1>5. /\ SetField(C, m, 1, u) = Message({}, [Triple(x, y, z) EXCEPT ![1] = u])
      /\ SetField(C, m, 2, u) = Message({}, [Triple(x, y, z) EXCEPT ![2] = u])
      /\ SetField(C, m, 3, u) = Message({}, [Triple(x, y, z) EXCEPT ![3] = u])
  BY <1>1, Zenon
<1> QED BY <1>2, <1>3, <1>4, <1>5, Zenon

\* What is made of its fields is a message.
LEMMA HeaderIsMessage ==
  ASSUME NEW C \in {RpcRequest, RpcResponse}, NEW x, NEW y, NEW z
  PROVE  IsMessage(C, {}, Triple(x, y, z))
<1>1. C.explicit = FALSE /\ DOMAIN C.types = 1 .. 3
  BY HeaderClasses
<1> QED BY <1>1 DEF IsMessage, Triple

-----------------------------------------------------------------------------
(* The request.                                                            *)

\* What may be asked for.
LEMMA AskFacts ==
  ASSUME NEW q \in Asks
  PROVE  /\ q.service \in Services \cup {"nobody"} /\ q.method \in Methods
         /\ q.cut \in {"nothing", "header", "args"}
         /\ q.service \notin NotUtf8 /\ q.method \notin NotUtf8
<1>1. /\ q.service \in Services \cup {"nobody"} /\ q.method \in Methods
      /\ q.cut \in {"nothing", "header", "args"}
  BY DEF Asks, Services, Methods
<1> QED BY <1>1, DispatchAssumption

\* An argument that was not set is its default.
ValueOf(x) == IF x = Unset THEN 0 ELSE x

\* The arguments as the server must see them.
ArgumentsOf(q) ==
  Message((IF q.a = Unset THEN {} ELSE {1}) \cup (IF q.b = Unset THEN {} ELSE {2}),
          Pair(ValueOf(q.a), ValueOf(q.b)))

\* The server reads the arguments of Add and of Sub with the class of Add, and gets what
\* the caller had set, unless they are cut.
LEMMA ArgumentsArrive ==
  ASSUME NEW q
  PROVE  IF q.cut = "args"
         THEN ~ParseArguments(Arguments(q)).ok
         ELSE ParseArguments(Arguments(q)) = [ok |-> TRUE, msg |-> ArgumentsOf(q)]
<1> DEFINE C == RequestOf(q.method)
           h == (IF q.a = Unset THEN {} ELSE {1}) \cup (IF q.b = Unset THEN {} ELSE {2})
           v == Pair(ValueOf(q.a), ValueOf(q.b))
           withA == IF q.a = Unset THEN New(C) ELSE SetField(C, New(C), 1, q.a)
           args == IF q.b = Unset THEN withA ELSE SetField(C, withA, 2, q.b)
<1>0. C \in {AddRequest, SubRequest}
  BY DEF RequestOf
<1>1. /\ IsClass(C) /\ C.explicit = TRUE
      /\ DOMAIN C.types = 1 .. 2 /\ Len(C.types) = 2
      /\ C.types = AddRequest.types /\ C.types[1] = "int32" /\ C.types[2] = "int32"
      /\ AddRequest.explicit = TRUE
  BY <1>0, ArgumentClasses
<1>2. Arguments(q) = Serialize(C, args) \o (IF q.cut = "args" THEN <<CutEntry>> ELSE <<>>)
  BY DEF Arguments
<1> HIDE DEF C
<1>3. New(C) = Message({}, Pair(0, 0))
  <2>1. Default("int32") = 0
    BY Zenon DEF Default
  <2>2. ASSUME NEW i \in 1 .. 2 PROVE Default(C.types[i]) = 0
    <3>1. i = 1 \/ i = 2
      OBVIOUS
    <3> QED BY <1>1, <2>1, <3>1
  <2>3. [i \in 1 .. 2 |-> Default(C.types[i])] = Pair(0, 0)
    BY <2>2 DEF Pair
  <2> QED BY <1>1, <2>3, Zenon DEF New, Message
<1>4. ASSUME NEW g, NEW w, NEW i, NEW u, NEW m, m = Message(g, w)
      PROVE  SetField(C, m, i, u) = Message(g \cup {i}, [w EXCEPT ![i] = u])
  <2>1. m.has = g /\ m.val = w /\ m.unknown = <<>>
    BY <1>4 DEF Message
  <2> QED BY <1>1, <2>1, Zenon DEF SetField, Message
<1>5. withA = Message(IF q.a = Unset THEN {} ELSE {1}, Pair(ValueOf(q.a), 0))
  <2>1. CASE q.a = Unset
    BY <1>3, <2>1, Zenon DEF ValueOf
  <2>2. CASE q.a # Unset
    <3>1. SetField(C, New(C), 1, q.a) = Message({} \cup {1}, [Pair(0, 0) EXCEPT ![1] = q.a])
      BY <1>3, <1>4
    <3>2. {} \cup {1} = {1}
      OBVIOUS
    <3>3. [Pair(0, 0) EXCEPT ![1] = q.a] = Pair(q.a, 0)
      BY DEF Pair
    <3> QED BY <2>2, <3>1, <3>2, <3>3, Zenon DEF ValueOf
  <2> QED BY <2>1, <2>2
<1>6. args = Message(h, v)
  <2> HIDE DEF withA
  <2>1. CASE q.b = Unset
    <3>1. h = IF q.a = Unset THEN {} ELSE {1}
      BY <2>1
    <3> HIDE DEF h
    <3> QED BY <1>5, <2>1, <3>1, Zenon DEF ValueOf
  <2>2. CASE q.b # Unset
    <3> DEFINE g == IF q.a = Unset THEN {} ELSE {1}
    <3>1. h = g \cup {2}
      BY <2>2
    <3> HIDE DEF g, h
    <3>2. PICK x : x = ValueOf(q.a)
      OBVIOUS
    <3>3. SetField(C, withA, 2, q.b) = Message(g \cup {2}, [Pair(x, 0) EXCEPT ![2] = q.b])
      <4>1. withA = Message(g, Pair(x, 0))
        BY <1>5, <3>2, Zenon DEF g
      <4> QED BY <1>4, <4>1
    <3>4. [Pair(x, 0) EXCEPT ![2] = q.b] = Pair(x, q.b)
      <4>1. ASSUME NEW i \in 1 .. 2 PROVE [Pair(x, 0) EXCEPT ![2] = q.b][i] = Pair(x, q.b)[i]
        BY DEF Pair
      <4>2. DOMAIN [Pair(x, 0) EXCEPT ![2] = q.b] = 1 .. 2 /\ DOMAIN Pair(x, q.b) = 1 .. 2
        BY DEF Pair
      <4> QED BY <4>1, <4>2 DEF Pair
    <3> QED BY <2>2, <3>1, <3>2, <3>3, <3>4, Zenon DEF ValueOf
  <2> QED BY <2>1, <2>2
<1> HIDE DEF args
<1>7. IsMessage(C, h, v)
  <2>1. v = [i \in DOMAIN C.types |-> v[i]]
    BY <1>1 DEF Pair
  <2>2. h \subseteq DOMAIN C.types
    BY <1>1
  <2>3. ASSUME NEW i \in DOMAIN C.types \ h PROVE v[i] = Default(C.types[i])
    <3>1. Default("int32") = 0
      BY Zenon DEF Default
    <3>2. i = 1 \/ i = 2
      BY <1>1
    <3>3. CASE i = 1
      <4>1. q.a = Unset /\ v[1] = ValueOf(q.a)
        BY <3>3 DEF Pair
      <4> QED BY <1>1, <3>1, <3>3, <4>1 DEF ValueOf
    <3>4. CASE i = 2
      <4>1. q.b = Unset /\ v[2] = ValueOf(q.b)
        BY <3>4 DEF Pair
      <4> QED BY <1>1, <3>1, <3>4, <4>1 DEF ValueOf
    <3> QED BY <3>2, <3>3, <3>4
  <2> HIDE DEF h, v
  <2> QED BY <1>1, <2>1, <2>2, <2>3 DEF IsMessage
<1>8. Readable(C, h, v, Len(C.types))
  <2>1. ASSUME NEW i \in 1 .. 2 PROVE C.types[i] # "string"
    <3>1. i = 1 \/ i = 2
      OBVIOUS
    <3> QED BY <1>1, <3>1
  <2> HIDE DEF h, v
  <2> QED BY <1>1, <2>1, Zenon DEF Readable
<1>9. ArgumentsOf(q) = Message(h, v)
  BY DEF ArgumentsOf
<1> HIDE DEF h, v
<1>10. /\ Serialize(C, args) \in Seq(EntriesOf(C, v))
       /\ Parse(AddRequest, Serialize(C, args)) = [ok |-> TRUE, msg |-> Message(h, v)]
       /\ ~Parse(AddRequest, Serialize(C, args) \o <<CutEntry>>).ok
  BY <1>1, <1>6, <1>7, <1>8, RoundTrip
<1>11. CASE q.cut = "args"
  BY <1>2, <1>10, <1>11, Zenon DEF ParseArguments, GetRequestPrototype
<1>12. CASE q.cut # "args"
  <2>1. Serialize(C, args) \o <<>> = Serialize(C, args)
    BY <1>10
  <2> QED BY <1>2, <1>9, <1>10, <1>12, <2>1, Zenon DEF ParseArguments, GetRequestPrototype
<1> QED BY <1>11, <1>12
\* The server gets the service, the method and the arguments the caller asked for, unless
\* the header is cut.
LEMMA RequestArrives ==
  ASSUME NEW q \in Asks
  PROVE  IF q.cut = "header"
         THEN ~Parse(RpcRequest, MakeRequest(q)).ok
         ELSE Parse(RpcRequest, MakeRequest(q)) = [ok |-> TRUE, msg |-> Request(q)]
<1> DEFINE x == q.service
           y == q.method
           z == Arguments(q)
           v == Triple(x, y, z)
           m1 == SetField(RpcRequest, New(RpcRequest), 1, x)
           m2 == SetField(RpcRequest, m1, 2, y)
           m == SetField(RpcRequest, m2, 3, z)
           bytes == Serialize(RpcRequest, m)
<1>0. RpcRequest \in {RpcRequest, RpcResponse}
  OBVIOUS
<1>1. MakeRequest(q) = bytes \o (IF q.cut = "header" THEN <<CutEntry>> ELSE <<>>)
  BY DEF MakeRequest
<1>2. Request(q) = Message({}, v)
  BY DEF Request
<1>3. x \notin NotUtf8 /\ y \notin NotUtf8
  BY AskFacts
<1> HIDE DEF x, y, z
<1>4. m = Message({}, v)
  <2>1. PICK d, n, e : New(RpcRequest) = Message({}, Triple(d, n, e))
    BY <1>0, HeaderNew
  <2>2. SetField(RpcRequest, New(RpcRequest), 1, x) = Message({}, Triple(x, n, e))
    BY <1>0, <2>1, HeaderSet
  <2>3. SetField(RpcRequest, SetField(RpcRequest, New(RpcRequest), 1, x), 2, y) =
          Message({}, Triple(x, y, e))
    BY <1>0, <2>2, HeaderSet
  <2> QED BY <1>0, <2>3, HeaderSet
<1> HIDE DEF m
<1>5. IsMessage(RpcRequest, {}, v)
  BY <1>0, HeaderIsMessage
<1>6. IsClass(RpcRequest) /\ Len(RpcRequest.types) = 3 /\ RpcRequest.types[3] = "bytes"
  BY <1>0, HeaderClasses
<1>7. Readable(RpcRequest, {}, v, Len(RpcRequest.types))
  <2>1. ASSUME NEW i \in 1 .. 3, RpcRequest.types[i] = "string" PROVE v[i] \notin NotUtf8
    <3>1. i # 3
      BY <1>6, <2>1
    <3> QED BY <1>3, <3>1 DEF Triple
  <2> HIDE DEF v
  <2> QED BY <1>6, <2>1, Zenon DEF Readable
<1> HIDE DEF v
<1>8. /\ bytes \in Seq(EntriesOf(RpcRequest, v))
      /\ Parse(RpcRequest, bytes) = [ok |-> TRUE, msg |-> Message({}, v)]
      /\ ~Parse(RpcRequest, bytes \o <<CutEntry>>).ok
  BY <1>4, <1>5, <1>6, <1>7, RoundTrip
<1> HIDE DEF bytes
<1>9. bytes \o <<>> = bytes
  BY <1>8
<1> QED BY <1>1, <1>2, <1>8, <1>9, Zenon
-----------------------------------------------------------------------------
(* The response.                                                           *)

\* The responses the server makes.
LEMMA ResponsesMade ==
  ASSUME NEW code, NEW text, NEW bytes
  PROVE  /\ WrongProto = Message({}, Triple(Error.WRONG_PROTO, "", <<>>))
         /\ Failure(code, text) = {Message({}, Triple(code, text, <<>>))}
         /\ Success(bytes) = {Message({}, Triple(Error.NO_ERROR, "", bytes))}
<1>0. RpcResponse \in {RpcRequest, RpcResponse}
  OBVIOUS
<1>1. PICK n, e : n = "" /\ e = <<>>
  OBVIOUS
<1>2. ASSUME NEW x
      PROVE  SetField(RpcResponse, New(RpcResponse), 1, x) = Message({}, Triple(x, n, e))
  <2>1. PICK d : New(RpcResponse) = Message({}, Triple(d, n, e))
    BY <1>0, <1>1, HeaderNew
  <2> QED BY <1>0, <2>1, HeaderSet
<1>3. PICK x : x = Error.WRONG_PROTO
  OBVIOUS
<1>4. WrongProto = Message({}, Triple(x, n, e))
  BY <1>2, <1>3, Zenon DEF WrongProto
<1>5. PICK m : m = SetField(RpcResponse, New(RpcResponse), 1, code)
  OBVIOUS
<1>6. m = Message({}, Triple(code, n, e))
  BY <1>2, <1>5
<1>7. SetField(RpcResponse, m, 2, text) = Message({}, Triple(code, text, e))
  BY <1>0, <1>6, HeaderSet
<1>8. PICK z, k : z = Error.NO_ERROR /\ k = SetField(RpcResponse, New(RpcResponse), 1, z)
  OBVIOUS
<1>9. k = Message({}, Triple(z, n, e))
  BY <1>2, <1>8
<1>10. SetField(RpcResponse, k, 3, bytes) = Message({}, Triple(z, n, bytes))
  BY <1>0, <1>9, HeaderSet
<1>11. Failure(code, text) = {Message({}, Triple(code, text, e))}
  BY <1>5, <1>7, Zenon DEF Failure
<1>12. Success(bytes) = {Message({}, Triple(z, n, bytes))}
  BY <1>8, <1>10, Zenon DEF Success
<1> QED BY <1>1, <1>3, <1>4, <1>8, <1>11, <1>12, Zenon

\* A response that the caller can parse is the one the server made; only its text can keep
\* it from being parsed, and only one without fields has no bytes.
LEMMA ResponseArrives ==
  ASSUME NEW code, NEW text, NEW bytes, NEW m, m = Message({}, Triple(code, text, bytes))
  PROVE  LET s == Serialize(RpcResponse, m)
             p == Parse(RpcResponse, s)
         IN /\ p.ok => p.msg = m
            /\ text = "" \/ text \notin NotUtf8 => p.ok
            /\ s = <<>> => code = 0 /\ text = "" /\ bytes = <<>>
<1> DEFINE C == RpcResponse
           v == Triple(code, text, bytes)
           s == Serialize(C, Message({}, v))
           p == Parse(C, s)
           readable == Readable(C, {}, v, Len(C.types))
<1>0. C \in {RpcRequest, RpcResponse}
  OBVIOUS
<1>1. /\ IsClass(C) /\ C.explicit = FALSE /\ DOMAIN C.types = 1 .. 3 /\ Len(C.types) = 3
      /\ C.types[2] = "string" /\ C.types[3] = "bytes"
  BY <1>0, HeaderClasses
<1>2. C.types[1] = "enum" /\ Default("enum") = 0 /\ Default("string") = ""
  <2>1. C.types = <<"enum", "string", "bytes">>
    BY DEF RpcResponse
  <2>2. C.types[1] = "enum"
    BY <2>1
  <2>3. Default("enum") = 0 /\ Default("string") = ""
    BY Zenon DEF Default
  <2> QED BY <2>2, <2>3
<1>3. IsMessage(C, {}, v)
  BY <1>0, HeaderIsMessage
<1>4. v[1] = code /\ v[2] = text /\ v[3] = bytes
  BY DEF Triple
<1>5. New(C) = Message({}, Triple(0, "", <<>>))
  BY <1>0, <1>2, HeaderNew
<1> HIDE DEF C, v
<1>6. /\ readable => p = [ok |-> TRUE, msg |-> Message({}, v)]
      /\ ~readable => ~p.ok
  BY <1>1, <1>3, RoundTrip
<1>7. text = "" \/ text \notin NotUtf8 => readable
  <2>1. ASSUME NEW i \in 1 .. 3, C.types[i] = "string" PROVE i = 2
    <3>1. ASSUME NEW j \in 1 .. 3 PROVE j = 1 \/ j = 2 \/ j = 3
      OBVIOUS
    <3> QED BY <1>1, <1>2, <2>1, <3>1
  <2>2. Has(C, Message({}, v), 2) => text # ""
    BY <1>1, <1>2, <1>4 DEF Has, Message
  <2> QED BY <1>1, <1>4, <2>1, <2>2, Zenon DEF Readable
<1>8. readable => p.ok /\ p.msg = Message({}, v)
  BY <1>6
<1>9. s = <<>> => code = 0 /\ text = "" /\ bytes = <<>>
  <2> SUFFICES ASSUME s = <<>> PROVE code = 0 /\ text = "" /\ bytes = <<>>
    OBVIOUS
  <2>1. Parse(C, <<>>) = [ok |-> TRUE, msg |-> New(C)]
    BY ParseStep, <<>> \in Seq({})
  <2>2. p.ok /\ p.msg = New(C)
    BY <2>1
  <2> HIDE DEF p, s, readable
  <2>3. Message({}, v) = Message({}, Triple(0, "", <<>>))
    BY <1>5, <1>6, <1>8, <2>2, Zenon
  <2>4. v = Triple(0, "", <<>>)
    BY <2>3 DEF Message
  <2>5. v[1] = 0 /\ v[2] = "" /\ v[3] = <<>>
    <3>1. PICK x, y, z : x = 0 /\ y = "" /\ z = <<>>
      OBVIOUS
    <3>2. v = Triple(x, y, z)
      BY <2>4, <3>1
    <3>3. v[1] = x /\ v[2] = y /\ v[3] = z
      BY <3>2 DEF Triple
    <3> QED BY <3>1, <3>3
  <2> QED BY <1>4, <2>5
<1>10. m = Message({}, v)
  BY DEF v
<1> HIDE DEF readable
<1> QED BY <1>6, <1>7, <1>8, <1>9, <1>10, Zenon DEF C
\* The bytes of a sum.
SumBytes(n) == Serialize(AddResponse, SetField(AddResponse, New(AddResponse), 1, n))

\* A sum is never without bytes, be it zero, and the caller reads it.
LEMMA SumArrives ==
  ASSUME NEW n
  PROVE  /\ SumBytes(n) # <<>>
         /\ Parse(AddResponse, SumBytes(n)).msg = Message({1}, Single(n))
<1> DEFINE C == AddResponse
           v == Single(n)
<1>1. /\ IsClass(C) /\ C.explicit = TRUE /\ DOMAIN C.types = 1 .. 1 /\ Len(C.types) = 1
      /\ C.types[1] = "int32"
  BY SumClass
<1> HIDE DEF C
<1>2. PICK w : New(C) = Message({}, w) /\ w = [i \in 1 .. 1 |-> Default(C.types[i])]
  BY <1>1, Zenon DEF New, Message
<1>3. SetField(C, New(C), 1, n) = Message({1}, v)
  <2>1. New(C).has = {} /\ New(C).val = w /\ New(C).unknown = <<>>
    BY <1>2 DEF Message
  <2>2. {} \cup {1} = {1} /\ [w EXCEPT ![1] = n] = v
    BY <1>2 DEF Single
  <2> QED BY <1>1, <2>1, <2>2, Zenon DEF SetField, Message
<1>4. IsMessage(C, {1}, v)
  BY <1>1 DEF IsMessage, Single
<1> HIDE DEF v
<1>5. Readable(C, {1}, v, Len(C.types))
  <2>1. ASSUME NEW i \in 1 .. 1 PROVE C.types[i] # "string"
    <3>1. i = 1
      OBVIOUS
    <3> QED BY <1>1, <3>1
  <2> QED BY <1>1, <2>1, Zenon DEF Readable
<1>6. Parse(C, SumBytes(n)) = [ok |-> TRUE, msg |-> Message({1}, v)]
  <2>1. Parse(C, Serialize(C, Message({1}, v))) = [ok |-> TRUE, msg |-> Message({1}, v)]
    <3>1. PICK h : h = {1}
      OBVIOUS
    <3>2. IsMessage(C, h, v) /\ Readable(C, h, v, Len(C.types))
      BY <1>4, <1>5, <3>1
    <3>3. Parse(C, Serialize(C, Message(h, v))) = [ok |-> TRUE, msg |-> Message(h, v)]
      BY <1>1, <3>2, RoundTrip
    <3> QED BY <3>1, <3>3
  <2> QED BY <1>3, <2>1, Zenon DEF SumBytes, C
<1>7. Parse(C, SumBytes(n)).msg = Message({1}, v)
  BY <1>6
<1>8. SumBytes(n) # <<>>
  <2>1. SUFFICES ASSUME SumBytes(n) = <<>> PROVE FALSE
    OBVIOUS
  <2>2. Parse(C, <<>>) = [ok |-> TRUE, msg |-> New(C)]
    BY ParseStep, <<>> \in Seq({})
  <2>3. Message({1}, v) = Message({}, w)
    BY <1>2, <1>7, <2>1, <2>2
  <2>4. {1} = {}
    BY <2>3 DEF Message
  <2> QED BY <2>4
<1> QED BY <1>7, <1>8 DEF C, v

\* The service is registered and has the method, and nothing of the request is cut.
Found(q, s, m) == s \in services /\ q.service = s /\ q.method = m /\ q.cut = "nothing"

\* What dispatchRequest makes of a request: an error that names what is wrong with it, the
\* sum, a response without bytes, the text of an exception, or the end of the process.
LEMMA DispatchIs ==
  ASSUME services \subseteq Services, NEW q \in Asks, q.cut # "header"
  PROVE  LET d == DispatchRequest(Request(q))
         IN \/ /\ Cause(q) # Error.NO_ERROR
               /\ d = {Message({}, Triple(Cause(q), "", <<>>))}
            \/ /\ Found(q, "math.MathService", "Add") /\ Cause(q) = Error.NO_ERROR
               /\ d = {Message({}, Triple(Error.NO_ERROR, "",
                                          SumBytes(Wrap(ValueOf(q.a) + ValueOf(q.b)))))}
            \/ Found(q, "math.MathService", "Sub") /\ d = {}
            \/ /\ Found(q, "user.UserService", "Void") /\ Cause(q) = Error.NO_ERROR
               /\ d = {Message({}, Triple(Error.NO_ERROR, "", <<>>))}
            \/ /\ Found(q, "user.UserService", "Throw") /\ Cause(q) = Error.INTERNAL_ERROR
               /\ d = {Message({}, Triple(Error.INTERNAL_ERROR, text, <<>>)) : text \in Texts}
<1> DEFINE s == q.service
           m == q.method
           p == ParseArguments(Arguments(q))
           d == DispatchRequest(Request(q))
<1>1. /\ Get(Request(q), 1) = s /\ Get(Request(q), 2) = m
      /\ Get(Request(q), 3) = Arguments(q)
  BY DEF Get, Request, Message, Triple
<1>2. /\ s \in Services \cup {"nobody"} /\ m \in Methods
      /\ q.cut \in {"nothing", "args"}
  BY AskFacts
<1>3. /\ q.cut = "args" => ~p.ok
      /\ q.cut # "args" => p = [ok |-> TRUE, msg |-> ArgumentsOf(q)]
  BY ArgumentsArrive
<1>4. q.cut # "args" => p.ok /\ p.msg = ArgumentsOf(q)
  BY <1>3
<1>5. /\ Error.NO_ERROR = 0 /\ Error.NO_SERVICE = 2 /\ Error.NO_METHOD = 3
      /\ Error.INVALID_ARGUMENT = 4 /\ Error.INTERNAL_ERROR = 5
  BY DEF Error
<1> HIDE DEF p
<1>6. d = CASE s \notin services -> Failure(Error.NO_SERVICE, "")
            [] s \in services /\ m \notin MethodsOf(s) -> Failure(Error.NO_METHOD, "")
            [] s \in services /\ m \in MethodsOf(s) /\ ~p.ok -> Failure(Error.INVALID_ARGUMENT, "")
            [] OTHER -> IF s = "math.MathService" THEN CallMath(m, p.msg) ELSE CallUser(m)
  BY <1>1, Zenon DEF DispatchRequest, findService, p
<1>7. CASE s \notin services
  <2>1. d = Failure(Error.NO_SERVICE, "")
    BY <1>6, <1>7, Zenon
  <2>2. Cause(q) = Error.NO_SERVICE
    BY <1>7, Zenon DEF Cause
  <2>3. Failure(Error.NO_SERVICE, "") = {Message({}, Triple(Error.NO_SERVICE, "", <<>>))}
    BY ResponsesMade, Zenon
  <2>4. Cause(q) # Error.NO_ERROR
    BY <1>5, <2>2
  <2> QED BY <2>1, <2>2, <2>3, <2>4, Zenon
<1>8. CASE s \in services /\ m \notin MethodsOf(s)
  <2>1. d = Failure(Error.NO_METHOD, "")
    BY <1>6, <1>8, Zenon
  <2>2. Cause(q) = Error.NO_METHOD
    BY <1>8, Zenon DEF Cause
  <2>3. Failure(Error.NO_METHOD, "") = {Message({}, Triple(Error.NO_METHOD, "", <<>>))}
    BY ResponsesMade, Zenon
  <2>4. Cause(q) # Error.NO_ERROR
    BY <1>5, <2>2
  <2> QED BY <2>1, <2>2, <2>3, <2>4, Zenon
<1>9. CASE s \in services /\ m \in MethodsOf(s) /\ q.cut = "args"
  <2>1. d = Failure(Error.INVALID_ARGUMENT, "")
    BY <1>3, <1>6, <1>9, Zenon
  <2>2. Cause(q) = Error.INVALID_ARGUMENT
    BY <1>9, Zenon DEF Cause
  <2>3. Failure(Error.INVALID_ARGUMENT, "") =
          {Message({}, Triple(Error.INVALID_ARGUMENT, "", <<>>))}
    BY ResponsesMade, Zenon
  <2>4. Cause(q) # Error.NO_ERROR
    BY <1>5, <2>2
  <2> QED BY <2>1, <2>2, <2>3, <2>4, Zenon
<1>10. CASE s \in services /\ m \in MethodsOf(s) /\ q.cut # "args"
  <2>1. d = IF s = "math.MathService" THEN CallMath(m, ArgumentsOf(q)) ELSE CallUser(m)
    BY <1>4, <1>6, <1>10, Zenon
  <2>2. Cause(q) = IF m = "Throw" THEN Error.INTERNAL_ERROR ELSE Error.NO_ERROR
    BY <1>10, Zenon DEF Cause
  <2>3. q.cut = "nothing" /\ s \in Services
    BY <1>2, <1>10
  <2>4. CASE s = "math.MathService"
    <3>1. m = "Add" \/ m = "Sub"
      BY <1>10, <2>4 DEF MethodsOf
    <3>2. Casts(AddRequest, AddResponse) /\ ~Casts(SubRequest, SubResponse)
      BY DEF Casts, GetRequestPrototype, GetResponsePrototype, AddRequest, AddResponse,
             SubRequest, SubResponse
    <3>3. /\ Get(ArgumentsOf(q), 1) = ValueOf(q.a)
          /\ Get(ArgumentsOf(q), 2) = ValueOf(q.b)
      BY DEF Get, ArgumentsOf, Message, Pair
    <3>4. CASE m = "Add"
      <4>1. CallMath(m, ArgumentsOf(q)) = Success(SumBytes(Wrap(ValueOf(q.a) + ValueOf(q.b))))
        BY <3>2, <3>3, <3>4, Zenon DEF CallMath, SumBytes
      <4>2. Cause(q) = Error.NO_ERROR
        BY <2>2, <3>4
      <4>3. Success(SumBytes(Wrap(ValueOf(q.a) + ValueOf(q.b)))) =
              {Message({}, Triple(Error.NO_ERROR, "",
                                  SumBytes(Wrap(ValueOf(q.a) + ValueOf(q.b)))))}
        BY ResponsesMade, Zenon
      <4>4. Found(q, "math.MathService", "Add")
        BY <1>10, <2>3, <2>4, <3>4 DEF Found
      <4> QED BY <2>1, <2>4, <4>1, <4>2, <4>3, <4>4, Zenon
    <3>5. CASE m = "Sub"
      <4>1. CallMath(m, ArgumentsOf(q)) = {}
        BY <3>2, <3>5 DEF CallMath, Crash
      <4>2. Found(q, "math.MathService", "Sub")
        BY <1>10, <2>3, <2>4, <3>5 DEF Found
      <4> QED BY <2>1, <2>4, <4>1, <4>2, Zenon
    <3> QED BY <3>1, <3>4, <3>5
  <2>5. CASE s # "math.MathService"
    <3>1. s = "user.UserService" /\ (m = "Void" \/ m = "Throw")
      BY <1>10, <2>3, <2>5 DEF MethodsOf, Services
    <3>2. CASE m = "Void"
      <4>1. CallUser(m) = Success(<<>>)
        BY <3>2 DEF CallUser
      <4>2. Cause(q) = Error.NO_ERROR
        BY <2>2, <3>2
      <4>3. Success(<<>>) = {Message({}, Triple(Error.NO_ERROR, "", <<>>))}
        BY ResponsesMade, Zenon
      <4>4. Found(q, "user.UserService", "Void")
        BY <1>10, <2>3, <3>1, <3>2 DEF Found
      <4> QED BY <2>1, <2>5, <4>1, <4>2, <4>3, <4>4, Zenon
    <3>3. CASE m = "Throw"
      <4>1. CallUser(m) = UNION {Failure(Error.INTERNAL_ERROR, text) : text \in Texts}
        BY <3>3 DEF CallUser
      <4>2. Cause(q) = Error.INTERNAL_ERROR
        BY <2>2, <3>3
      <4>3. ASSUME NEW text PROVE Failure(Error.INTERNAL_ERROR, text) =
                                    {Message({}, Triple(Error.INTERNAL_ERROR, text, <<>>))}
        BY ResponsesMade, Zenon
      <4>4. UNION {Failure(Error.INTERNAL_ERROR, text) : text \in Texts} =
              {Message({}, Triple(Error.INTERNAL_ERROR, text, <<>>)) : text \in Texts}
        BY <4>3
      <4>5. Found(q, "user.UserService", "Throw")
        BY <1>10, <2>3, <3>1, <3>3 DEF Found
      <4> QED BY <2>1, <2>5, <4>1, <4>2, <4>4, <4>5, Zenon
    <3> QED BY <3>1, <3>2, <3>3
  <2> QED BY <2>4, <2>5
<1> QED BY <1>7, <1>8, <1>9, <1>10
\* What the server answers: the code is that of the first thing wrong, a code that says
\* all is well comes with the sum or with nothing, and only an exception has a text.
LEMMA AnswersAre ==
  ASSUME services \subseteq Services, NEW q \in Asks, NEW r \in Answers(q)
  PROVE  \E text, bytes :
           /\ r = Message({}, Triple(Cause(q), text, bytes))
           /\ text # "" => Found(q, "user.UserService", "Throw") /\ text \in Texts
           /\ Cause(q) = Error.NO_ERROR =>
                \/ Found(q, "user.UserService", "Void")
                \/ bytes # <<>> /\ Found(q, "math.MathService", "Add")
           /\ Found(q, "math.MathService", "Add") =>
                /\ Cause(q) = Error.NO_ERROR
                /\ bytes = SumBytes(Wrap(ValueOf(q.a) + ValueOf(q.b)))
<1> DEFINE n == Wrap(ValueOf(q.a) + ValueOf(q.b))
           d == DispatchRequest(Request(q))
<1>0. /\ Error.NO_ERROR = 0 /\ Error.WRONG_PROTO = 1 /\ Error.INTERNAL_ERROR = 5
  BY DEF Error
<1>1. CASE q.cut = "header"
  <2>1. Cause(q) = Error.WRONG_PROTO
    BY <1>1, Zenon DEF Cause
  <2>2. r = Message({}, Triple(Cause(q), "", <<>>))
    <3>1. WrongProto = Message({}, Triple(Error.WRONG_PROTO, "", <<>>))
      BY ResponsesMade, Zenon
    <3>2. r = WrongProto
      BY <1>1 DEF Answers
    <3> QED BY <2>1, <3>1, <3>2
  <2>3. Cause(q) # Error.NO_ERROR
    BY <1>0, <2>1
  <2>4. ~Found(q, "math.MathService", "Add")
    BY <1>1 DEF Found
  <2> QED BY <2>2, <2>3, <2>4, Zenon
<1>2. CASE q.cut # "header"
  <2>0. r \in d
    BY <1>2 DEF Answers
  <2>1. CASE Cause(q) # Error.NO_ERROR /\ d = {Message({}, Triple(Cause(q), "", <<>>))}
    <3>1. r = Message({}, Triple(Cause(q), "", <<>>))
      BY <2>0, <2>1
    <3>2. ~Found(q, "math.MathService", "Add")
      <4>1. SUFFICES ASSUME Found(q, "math.MathService", "Add") PROVE Cause(q) = Error.NO_ERROR
        BY <2>1
      <4>2. q.method \in MethodsOf(q.service) /\ q.method # "Throw"
        BY <4>1 DEF Found, MethodsOf
      <4> QED BY <4>1, <4>2 DEF Found, Cause
    <3> QED BY <2>1, <3>1, <3>2, Zenon
  <2>2. CASE /\ Found(q, "math.MathService", "Add") /\ Cause(q) = Error.NO_ERROR
             /\ d = {Message({}, Triple(Error.NO_ERROR, "", SumBytes(n)))}
    <3>1. r = Message({}, Triple(Cause(q), "", SumBytes(n)))
      BY <2>0, <2>2
    <3>2. SumBytes(n) # <<>>
      BY SumArrives, Zenon
    <3> QED BY <2>2, <3>1, <3>2, Zenon
  <2>3. CASE Found(q, "math.MathService", "Sub") /\ d = {}
    BY <2>0, <2>3
  <2>4. CASE /\ Found(q, "user.UserService", "Void") /\ Cause(q) = Error.NO_ERROR
             /\ d = {Message({}, Triple(Error.NO_ERROR, "", <<>>))}
    <3>1. r = Message({}, Triple(Cause(q), "", <<>>))
      BY <2>0, <2>4
    <3>2. ~Found(q, "math.MathService", "Add")
      BY <2>4 DEF Found
    <3> QED BY <2>4, <3>1, <3>2, Zenon
  <2>5. CASE /\ Found(q, "user.UserService", "Throw") /\ Cause(q) = Error.INTERNAL_ERROR
             /\ d = {Message({}, Triple(Error.INTERNAL_ERROR, text, <<>>)) : text \in Texts}
    <3>1. PICK text \in Texts : r = Message({}, Triple(Cause(q), text, <<>>))
      BY <2>0, <2>5
    <3>2. ~Found(q, "math.MathService", "Add") /\ Cause(q) # Error.NO_ERROR
      BY <1>0, <2>5 DEF Found
    <3> QED BY <2>5, <3>1, <3>2, Zenon
  <2> QED BY <1>2, <2>1, <2>2, <2>3, <2>4, <2>5, DispatchIs, Zenon
<1> QED BY <1>1, <1>2

\* Only Sub is not answered.
LEMMA NoAnswer ==
  ASSUME services \subseteq Services, NEW q \in Asks, q.cut # "header",
         DispatchRequest(Request(q)) = {}
  PROVE  Found(q, "math.MathService", "Sub")
<1> DEFINE d == DispatchRequest(Request(q))
<1>1. {Message({}, Triple(Error.INTERNAL_ERROR, text, <<>>)) : text \in Texts} # {}
  BY DispatchAssumption
<1> QED BY <1>1, DispatchIs, Zenon
-----------------------------------------------------------------------------
(* The steps.                                                              *)

\* What a call is about stays what it is once the server is up.
LEMMA ReachesStays ==
  ASSUME NEW k, NEW s, NEW m, Reaches(k, s, m), services' = services,
         ask'[k] = ask[k], pc'[k] # "new", server' # "new"
  PROVE  Reaches(k, s, m)'
BY DEF Reaches

\* What the server may answer does not change either.
LEMMA SameAnswers ==
  ASSUME services' = services, NEW q
  PROVE  Answers(q)' = Answers(q)
BY DEF Answers, DispatchRequest, findService

\* What must hold of a call after a step.
LEMMA ConversationAfter ==
  ASSUME NEW k, NEW q, q = ask'[k], services' = services
  PROVE  Conversation(k)' <=>
           /\ pc'[k] # "new" => q \in Asks
           /\ pc'[k] \notin {"new", "sent"} => server' # "new"
           /\ pc'[k] = "sent" => wire'[k] = MakeRequest(q)
           /\ pc'[k] = "queued" => q.cut # "header" /\ task'[k] = Request(q)
           /\ pc'[k] = "answered" => \E r \in Answers(q) : wire'[k] = Serialize(RpcResponse, r)
           /\ pc'[k] \in {"heard", "failed", "ok"} =>
                answer'[k] \in Answers(q) /\ Serialize(RpcResponse, answer'[k]) # <<>>
           /\ pc'[k] = "failed" => Get(answer'[k], 1) # Error.NO_ERROR
           /\ pc'[k] = "ok" =>
                /\ Get(answer'[k], 1) = Error.NO_ERROR
                /\ result'[k] = Parse(ResponseOf(q.method), Get(answer'[k], 3)).msg
<1>1. Answers(q)' = Answers(q)
  BY SameAnswers
<1> QED BY <1>1 DEF Conversation

\* A step of another call leaves a call as it was.
LEMMA ConversationStays ==
  ASSUME NEW k, Conversation(k), services' = services, server = "new" \/ server' # "new",
         pc'[k] = pc[k], ask'[k] = ask[k], wire'[k] = wire[k], task'[k] = task[k],
         answer'[k] = answer[k], result'[k] = result[k]
  PROVE  Conversation(k)'
<1>1. PICK q : q = ask[k] /\ q = ask'[k]
  OBVIOUS
<1> QED BY <1>1, ConversationAfter DEF Conversation

\* The steps of a call.
OwnStep(c) == Send(c) \/ OnMessage(c) \/ RunTask(c) \/ OnRpcResponse(c) \/ TakeAnswer(c)

\* They change nothing of another call, and neither the services nor a server that has
\* crashed.
LEMMA OwnStepIsOwn ==
  ASSUME DispatchInv, NEW c \in Calls, OwnStep(c)
  PROVE  /\ Shape' /\ services' = services
         /\ server = "new" => server' = "new"
         /\ server # "new" => server' # "new"
         /\ server = "crashed" => server' = "crashed"
         /\ \A k \in Calls \ {c} :
              /\ pc'[k] = pc[k] /\ ask'[k] = ask[k] /\ wire'[k] = wire[k] /\ task'[k] = task[k]
              /\ answer'[k] = answer[k] /\ result'[k] = result[k]
<1>0. Shape
  BY DEF DispatchInv
<1>1. CASE Send(c)
  <2>1. \A k \in Calls \ {c} : pc'[k] = pc[k] /\ ask'[k] = ask[k] /\ wire'[k] = wire[k]
    BY <1>0, <1>1 DEF Send, Shape
  <2>2. Shape'
    BY <1>0, <1>1 DEF Send, Shape, States
  <2> QED BY <1>1, <2>1, <2>2 DEF Send
<1>2. CASE OnMessage(c)
  <2>1. \A k \in Calls \ {c} : pc'[k] = pc[k] /\ task'[k] = task[k] /\ wire'[k] = wire[k]
    BY <1>0, <1>2 DEF OnMessage, Shape
  <2>2. Shape'
    BY <1>0, <1>2 DEF OnMessage, Shape, States
  <2> QED BY <1>2, <2>1, <2>2 DEF OnMessage
<1>3. CASE RunTask(c)
  <2>1. \A k \in Calls \ {c} : pc'[k] = pc[k] /\ wire'[k] = wire[k]
    BY <1>0, <1>3 DEF RunTask, Shape
  <2>2. Shape'
    BY <1>0, <1>3 DEF RunTask, Shape, States
  <2>3. server = "up" /\ server' # "new"
    BY <1>3 DEF RunTask
  <2> QED BY <1>3, <2>1, <2>2, <2>3 DEF RunTask
<1>4. CASE OnRpcResponse(c)
  <2>1. \A k \in Calls \ {c} : pc'[k] = pc[k] /\ answer'[k] = answer[k]
    BY <1>0, <1>4 DEF OnRpcResponse, Shape
  <2>2. Shape'
    BY <1>0, <1>4 DEF OnRpcResponse, Shape, States
  <2> QED BY <1>4, <2>1, <2>2 DEF OnRpcResponse
<1>5. CASE TakeAnswer(c)
  <2>1. \A k \in Calls \ {c} : pc'[k] = pc[k] /\ result'[k] = result[k]
    BY <1>0, <1>5 DEF TakeAnswer, Shape
  <2>2. Shape'
    BY <1>0, <1>5 DEF TakeAnswer, Shape, States
  <2> QED BY <1>5, <2>1, <2>2 DEF TakeAnswer
<1> QED BY <1>1, <1>2, <1>3, <1>4, <1>5 DEF OwnStep

\* An answer nobody hears of: one without bytes, or one whose text is not UTF-8 or too long.
Mute(c) ==
  \/ Reaches(c, "user.UserService", "Void")
  \/ Reaches(c, "user.UserService", "Throw") /\ Texts \cap (NotUtf8 \cup TooLong) # {}

\* The caller sends its request.
LEMMA SendStep ==
  ASSUME DispatchInv, NEW c \in Calls, Send(c)
  PROVE  Conversation(c)' /\ pc'[c] # "unheard"
<1>1. pc = [k \in Calls |-> pc[k]] /\ ask = [k \in Calls |-> ask[k]]
      /\ wire = [k \in Calls |-> wire[k]]
  BY DEF DispatchInv, Shape
<1>2. PICK q \in Asks : ask' = [ask EXCEPT ![c] = q] /\ wire' = [wire EXCEPT ![c] = MakeRequest(q)]
  BY DEF Send
<1>3. q = ask'[c] /\ wire'[c] = MakeRequest(q) /\ pc'[c] = "sent" /\ services' = services
  BY <1>1, <1>2 DEF Send
<1> QED BY <1>2, <1>3, ConversationAfter

\* The server parses the request, or answers that it cannot.
LEMMA OnMessageStep ==
  ASSUME DispatchInv, NEW c \in Calls, OnMessage(c)
  PROVE  Conversation(c)' /\ pc'[c] # "unheard"
<1>1. pc = [k \in Calls |-> pc[k]] /\ task = [k \in Calls |-> task[k]]
      /\ wire = [k \in Calls |-> wire[k]]
  BY DEF DispatchInv, Shape
<1>2. PICK q : q = ask[c]
  OBVIOUS
<1>3. q \in Asks /\ wire[c] = MakeRequest(q) /\ q = ask'[c]
  BY <1>2 DEF DispatchInv, Conversation, OnMessage
<1>4. server' # "new" /\ services' = services
  BY DEF OnMessage
<1>5. CASE q.cut = "header"
  <2>1. ~Parse(RpcRequest, wire[c]).ok
    BY <1>3, <1>5, RequestArrives
  <2>2. wire'[c] = Serialize(RpcResponse, WrongProto) /\ pc'[c] = "answered"
    BY <1>1, <2>1 DEF OnMessage
  <2>3. WrongProto \in Answers(q)
    BY <1>5 DEF Answers
  <2> QED BY <1>3, <1>4, <2>2, <2>3, ConversationAfter
<1>6. CASE q.cut # "header"
  <2>1. Parse(RpcRequest, wire[c]) = [ok |-> TRUE, msg |-> Request(q)]
    BY <1>3, <1>6, RequestArrives
  <2>2. Parse(RpcRequest, wire[c]).ok /\ Parse(RpcRequest, wire[c]).msg = Request(q)
    BY <2>1
  <2>3. task'[c] = Request(q) /\ pc'[c] = "queued"
    BY <1>1, <2>2 DEF OnMessage
  <2> QED BY <1>3, <1>4, <1>6, <2>3, ConversationAfter
<1> QED BY <1>5, <1>6

\* The pool's task answers, or there is nothing to answer with and it was Sub.
LEMMA RunTaskStep ==
  ASSUME DispatchInv, NEW c \in Calls, RunTask(c)
  PROVE  /\ Conversation(c)' /\ pc'[c] # "unheard"
         /\ server' = "crashed" => pc'[c] = "queued" /\ Reaches(c, "math.MathService", "Sub")'
<1>1. pc = [k \in Calls |-> pc[k]] /\ wire = [k \in Calls |-> wire[k]]
      /\ services \subseteq Services
  BY DEF DispatchInv, Shape
<1>2. PICK q : q = ask[c]
  OBVIOUS
<1>3. q \in Asks /\ q.cut # "header" /\ task[c] = Request(q) /\ q = ask'[c] /\ server = "up"
  BY <1>2 DEF DispatchInv, Conversation, RunTask
<1>4. server' # "new" /\ services' = services
  BY DEF RunTask
<1>5. CASE \E response \in DispatchRequest(task[c]) :
             /\ wire' = [wire EXCEPT ![c] = Serialize(RpcResponse, response)]
             /\ pc' = [pc EXCEPT ![c] = "answered"]
             /\ UNCHANGED server
  <2>1. PICK r \in Answers(q) : wire'[c] = Serialize(RpcResponse, r) /\ pc'[c] = "answered"
    BY <1>1, <1>3, <1>5 DEF Answers
  <2>2. server' # "crashed"
    BY <1>3, <1>5
  <2> QED BY <1>3, <1>4, <2>1, <2>2, ConversationAfter
<1>6. CASE /\ DispatchRequest(task[c]) = Crash
           /\ server' = "crashed"
           /\ UNCHANGED <<pc, wire>>
  <2>1. Found(q, "math.MathService", "Sub")
    BY <1>1, <1>3, <1>6, NoAnswer DEF Crash
  <2>2. pc'[c] = "queued" /\ task'[c] = Request(q)
    BY <1>3, <1>6 DEF RunTask
  <2>3. Reaches(c, "math.MathService", "Sub")'
    BY <1>3, <1>4, <2>1, <2>2 DEF Reaches, Found
  <2> QED BY <1>3, <1>4, <2>2, <2>3, ConversationAfter
<1> QED BY <1>5, <1>6 DEF RunTask

\* The caller hears what the server answered, or the answer is mute.
LEMMA OnRpcResponseStep ==
  ASSUME DispatchInv, NEW c \in Calls, OnRpcResponse(c)
  PROVE  Conversation(c)' /\ (pc'[c] = "unheard" => Mute(c)')
<1>1. pc = [k \in Calls |-> pc[k]] /\ answer = [k \in Calls |-> answer[k]]
      /\ services \subseteq Services
  BY DEF DispatchInv, Shape
<1>2. PICK q : q = ask[c]
  OBVIOUS
<1>3. q \in Asks /\ q = ask'[c] /\ server' # "new" /\ server # "new" /\ services' = services
  BY <1>2 DEF DispatchInv, Conversation, OnRpcResponse
<1>4. PICK r \in Answers(q) : wire[c] = Serialize(RpcResponse, r)
  BY <1>2 DEF DispatchInv, Conversation, OnRpcResponse
<1>5. PICK text, bytes :
        /\ r = Message({}, Triple(Cause(q), text, bytes))
        /\ text # "" => Found(q, "user.UserService", "Throw") /\ text \in Texts
        /\ Cause(q) = Error.NO_ERROR =>
             \/ Found(q, "user.UserService", "Void")
             \/ bytes # <<>> /\ Found(q, "math.MathService", "Add")
        /\ Found(q, "math.MathService", "Add") =>
             /\ Cause(q) = Error.NO_ERROR
             /\ bytes = SumBytes(Wrap(ValueOf(q.a) + ValueOf(q.b)))
  BY <1>1, <1>3, AnswersAre
<1> DEFINE p == Parse(RpcResponse, wire[c])
<1>6. /\ p.ok => p.msg = r
      /\ text = "" \/ text \notin NotUtf8 => p.ok
      /\ wire[c] = <<>> => Cause(q) = 0 /\ text = "" /\ bytes = <<>>
  <2>1. PICK code : code = Cause(q) /\ r = Message({}, Triple(code, text, bytes))
    BY <1>5
  <2>2. LET s == Serialize(RpcResponse, r)
            t == Parse(RpcResponse, s)
        IN /\ t.ok => t.msg = r
           /\ text = "" \/ text \notin NotUtf8 => t.ok
           /\ s = <<>> => code = 0 /\ text = "" /\ bytes = <<>>
    BY <2>1, ResponseArrives
  <2> QED BY <1>4, <2>1, <2>2
<1> HIDE DEF p
<1>f. p.ok => Get(p.msg, 2) = text
  <2>1. PICK code : r = Message({}, Triple(code, text, bytes))
    BY <1>5
  <2>2. Get(r, 2) = text
    BY <2>1 DEF Get, Message, Triple
  <2> QED BY <1>6, <2>2
<1>7. CASE FitsFrame(p.msg) /\ wire[c] # <<>> /\ p.ok
  <2>1. pc'[c] = "heard" /\ answer'[c] = Copy(p.msg)
    BY <1>1, <1>7 DEF OnRpcResponse, p
  <2>2. Copy(r) = r
    BY <1>5 DEF Copy, Message
  <2>3. answer'[c] = r
    BY <1>6, <1>7, <2>1, <2>2
  <2> QED BY <1>3, <1>4, <1>7, <2>1, <2>3, ConversationAfter
<1>8. CASE ~(FitsFrame(p.msg) /\ wire[c] # <<>> /\ p.ok)
  <2>1. pc'[c] = "unheard"
    BY <1>1, <1>8 DEF OnRpcResponse, p
  <2>2. ASSUME NEW m, Found(q, "user.UserService", m)
        PROVE  Reaches(c, "user.UserService", m)'
    BY <1>3, <2>1, <2>2 DEF Found, Reaches
  <2>3. Mute(c)'
    <3>1. CASE wire[c] = <<>>
      <4>1. Cause(q) = Error.NO_ERROR
        BY <1>6, <3>1 DEF Error
      <4>2. Found(q, "user.UserService", "Void")
        BY <1>5, <1>6, <3>1, <4>1
      <4> QED BY <2>2, <4>2 DEF Mute
    <3>2. CASE ~p.ok \/ (p.ok /\ ~FitsFrame(p.msg))
      <4>1. text # "" /\ text \in NotUtf8 \cup TooLong
        BY <1>6, <1>f, <3>2, DispatchAssumption DEF FitsFrame
      <4>2. Found(q, "user.UserService", "Throw") /\ Texts \cap (NotUtf8 \cup TooLong) # {}
        BY <1>5, <4>1
      <4> QED BY <2>2, <4>2 DEF Mute
    <3> QED BY <1>8, <3>1, <3>2
  <2> QED BY <1>3, <2>1, <2>3, ConversationAfter
<1> QED BY <1>7, <1>8

\* The caller takes the result or the error.
LEMMA TakeAnswerStep ==
  ASSUME DispatchInv, NEW c \in Calls, TakeAnswer(c)
  PROVE  Conversation(c)' /\ pc'[c] # "unheard"
<1>1. pc = [k \in Calls |-> pc[k]] /\ result = [k \in Calls |-> result[k]]
  BY DEF DispatchInv, Shape
<1>2. PICK q : q = ask[c]
  OBVIOUS
<1>3. /\ q \in Asks /\ q = ask'[c] /\ server' # "new" /\ services' = services
      /\ answer'[c] = answer[c] /\ answer[c] \in Answers(q)
      /\ Serialize(RpcResponse, answer[c]) # <<>>
  BY <1>2 DEF DispatchInv, Conversation, TakeAnswer
<1>4. CASE Get(answer[c], 1) # Error.NO_ERROR
  <2>1. pc'[c] = "failed"
    BY <1>1, <1>4 DEF TakeAnswer
  <2> QED BY <1>3, <1>4, <2>1, ConversationAfter
<1>5. CASE Get(answer[c], 1) = Error.NO_ERROR
  <2>1. pc'[c] = "ok" /\ result'[c] = Parse(ResponseOf(q.method), Get(answer[c], 3)).msg
    BY <1>1, <1>2, <1>5 DEF TakeAnswer
  <2> QED BY <1>3, <1>5, <2>1, ConversationAfter
<1> QED BY <1>4, <1>5
\* A step of a call keeps the invariant.
LEMMA OwnStepKeeps ==
  ASSUME DispatchInv, NEW c \in Calls, OwnStep(c)
  PROVE  DispatchInv'
<1>1. /\ Shape' /\ services' = services
      /\ server = "new" => server' = "new"
      /\ server # "new" => server' # "new"
      /\ server = "crashed" => server' = "crashed"
      /\ \A k \in Calls \ {c} :
           /\ pc'[k] = pc[k] /\ ask'[k] = ask[k] /\ wire'[k] = wire[k] /\ task'[k] = task[k]
           /\ answer'[k] = answer[k] /\ result'[k] = result[k]
  BY OwnStepIsOwn
<1>2. Conversation(c)' /\ (pc'[c] = "unheard" => Mute(c)')
  BY SendStep, OnMessageStep, RunTaskStep, OnRpcResponseStep, TakeAnswerStep DEF OwnStep
<1>3. ASSUME NEW k \in Calls \ {c} PROVE Conversation(k)'
  <2>1. Conversation(k)
    BY DEF DispatchInv
  <2> QED BY <1>1, <1>3, <2>1, ConversationStays
<1>4. ASSUME NEW k \in Calls \ {c}, pc'[k] = "unheard" PROVE Mute(k)'
  <2>1. pc[k] = "unheard" /\ ask'[k] = ask[k] /\ k \in Calls
    BY <1>1, <1>4
  <2>2. Mute(k)
    BY <2>1 DEF DispatchInv, UnheardOnlyIfMute, Mute
  <2>3. server' # "new"
    <3>1. server # "new"
      BY <2>1 DEF DispatchInv, Conversation
    <3> QED BY <1>1, <3>1
  <2>4. ASSUME NEW m, Reaches(k, "user.UserService", m)
        PROVE  Reaches(k, "user.UserService", m)'
    BY <1>1, <1>4, <2>1, <2>3, <2>4, ReachesStays
  <2> QED BY <2>2, <2>4 DEF Mute
<1>5. UnheardOnlyIfMute'
  <2>1. ASSUME NEW k \in Calls, pc'[k] = "unheard" PROVE Mute(k)'
    BY <1>2, <1>4, <2>1
  <2> QED BY <2>1 DEF UnheardOnlyIfMute, Mute
<1>6. OnlySubCrashes'
  <2>1. SUFFICES ASSUME server' = "crashed"
                 PROVE  \E k \in Calls : pc'[k] = "queued" /\ Reaches(k, "math.MathService", "Sub")'
    BY DEF OnlySubCrashes
  <2>2. CASE RunTask(c)
    BY <2>1, <2>2, RunTaskStep
  <2>3. CASE ~RunTask(c)
    <3>1. server = "crashed"
      BY <2>1, <2>3 DEF OwnStep, Send, OnMessage, OnRpcResponse, TakeAnswer
    <3>2. PICK k \in Calls : pc[k] = "queued" /\ Reaches(k, "math.MathService", "Sub")
      BY <3>1 DEF DispatchInv, OnlySubCrashes
    <3>3. k # c
      BY <2>3, <3>1, <3>2 DEF OwnStep, Send, OnMessage, OnRpcResponse, TakeAnswer
    <3>4. pc'[k] = "queued" /\ ask'[k] = ask[k]
      BY <1>1, <3>2, <3>3
    <3>5. Reaches(k, "math.MathService", "Sub")'
      BY <1>1, <2>1, <3>2, <3>4, ReachesStays
    <3> QED BY <3>4, <3>5
  <2> QED BY <2>2, <2>3
<1>7. \A k \in Calls : Conversation(k)'
  BY <1>2, <1>3
<1> QED BY <1>1, <1>5, <1>6, <1>7 DEF DispatchInv

\* Nobody has been answered while services are registered.
LEMMA RegisterKeeps ==
  ASSUME DispatchInv, NEW s \in Services, RegisterService(s)
  PROVE  DispatchInv'
<1>1. /\ server = "new" /\ server' = "new" /\ services' = services \cup {s}
      /\ pc' = pc /\ ask' = ask /\ wire' = wire /\ task' = task /\ answer' = answer
      /\ result' = result
  BY DEF RegisterService
<1>2. Shape'
  BY <1>1 DEF DispatchInv, Shape
<1>3. ASSUME NEW k \in Calls PROVE Conversation(k)' /\ pc'[k] # "unheard"
  <2>1. /\ pc[k] \in {"new", "sent"} /\ (pc[k] # "new" => ask[k] \in Asks)
        /\ pc[k] = "sent" => wire[k] = MakeRequest(ask[k])
    BY <1>1 DEF DispatchInv, Conversation
  <2> QED BY <1>1, <2>1 DEF Conversation
<1>4. UnheardOnlyIfMute' /\ OnlySubCrashes'
  BY <1>1, <1>3 DEF UnheardOnlyIfMute, OnlySubCrashes
<1> QED BY <1>2, <1>3, <1>4 DEF DispatchInv

\* The server starts.
LEMMA StartKeeps ==
  ASSUME DispatchInv, Start
  PROVE  DispatchInv'
<1>1. /\ server = "new" /\ server' = "up" /\ services' = services
      /\ pc' = pc /\ ask' = ask /\ wire' = wire /\ task' = task /\ answer' = answer
      /\ result' = result
  BY DEF Start
<1>2. Shape'
  BY <1>1 DEF DispatchInv, Shape
<1>3. ASSUME NEW k \in Calls PROVE Conversation(k)'
  <2>1. Conversation(k)
    BY DEF DispatchInv
  <2> QED BY <1>1, <2>1, ConversationStays
<1>4. ASSUME NEW k \in Calls PROVE pc'[k] # "unheard"
  BY <1>1 DEF DispatchInv, Conversation
<1>5. UnheardOnlyIfMute' /\ OnlySubCrashes'
  BY <1>1, <1>4 DEF UnheardOnlyIfMute, OnlySubCrashes
<1> QED BY <1>2, <1>3, <1>5 DEF DispatchInv

\* Every message on its way is what the call's state says, in every state.
LEMMA Invariance == Spec => []DispatchInv
<1>1. Init => DispatchInv
  <2> SUFFICES ASSUME Init PROVE DispatchInv
    OBVIOUS
  <2>1. services \subseteq Services /\ server = "new" /\ \A c \in Calls : pc[c] = "new"
    BY DEF Init
  <2>2. Shape
    BY DEF Init, Shape, States
  <2>3. \A c \in Calls : Conversation(c)
    BY <2>1 DEF Conversation
  <2>4. UnheardOnlyIfMute /\ OnlySubCrashes
    BY <2>1 DEF UnheardOnlyIfMute, OnlySubCrashes
  <2> QED BY <2>2, <2>3, <2>4 DEF DispatchInv
<1>2. DispatchInv /\ [Next]_vars => DispatchInv'
  <2> SUFFICES ASSUME DispatchInv, [Next]_vars PROVE DispatchInv'
    OBVIOUS
  <2>1. CASE Next
    <3>1. CASE \E s \in Services : RegisterService(s)
      BY <3>1, RegisterKeeps
    <3>2. CASE Start
      BY <3>2, StartKeeps
    <3>3. CASE \E c \in Calls : OwnStep(c)
      BY <3>3, OwnStepKeeps
    <3> QED BY <2>1, <3>1, <3>2, <3>3 DEF Next, OwnStep
  <2>2. CASE UNCHANGED vars
    <3>1. /\ services' = services /\ server' = server /\ pc' = pc /\ ask' = ask /\ wire' = wire
          /\ task' = task /\ answer' = answer /\ result' = result
      BY <2>2 DEF vars
    <3>2. Shape'
      BY <3>1 DEF DispatchInv, Shape
    <3>3. ASSUME NEW k \in Calls PROVE Conversation(k)'
      <4>1. Conversation(k)
        BY DEF DispatchInv
      <4> QED BY <3>1, <4>1, ConversationStays
    <3>4. UnheardOnlyIfMute' /\ OnlySubCrashes'
      BY <3>1 DEF DispatchInv, UnheardOnlyIfMute, OnlySubCrashes, Reaches
    <3> QED BY <3>2, <3>3, <3>4 DEF DispatchInv
  <2> QED BY <2>1, <2>2
<1> QED BY <1>1, <1>2, PTL DEF Spec

-----------------------------------------------------------------------------
(* The theorems.                                                           *)

\* No call but one of Sub ever kills the server, whatever is asked for and however the
\* workers interleave: every other task is answered (dispatchRequest and its try block).
THEOREM ServerSurvives == Spec => []OnlySubCrashes
<1>1. DispatchInv => OnlySubCrashes
  BY DEF DispatchInv
<1> QED BY <1>1, Invariance, PTL

\* An answer goes unheard only if it has no bytes or a text that is not UTF-8 or too long for
\* a frame (onRpcResponse, tryUnpackWithId, dispatchRequest).
THEOREM AnswersAreHeard == Spec => []UnheardOnlyIfMute
<1>1. DispatchInv => UnheardOnlyIfMute
  BY DEF DispatchInv
<1> QED BY <1>1, Invariance, PTL

\* The caller's error code is that of the first thing wrong with its request
\* (dispatchRequest, doCall).
THEOREM ErrorIsTheCause == Spec => []ErrorNamesTheCause
<1>1. DispatchInv => ErrorNamesTheCause
  <2> SUFFICES ASSUME DispatchInv, NEW c \in Calls, pc[c] \in {"failed", "ok"}
               PROVE  Get(answer[c], 1) = Cause(ask[c])
    BY DEF ErrorNamesTheCause
  <2>1. PICK q, r : q = ask[c] /\ r = answer[c]
    OBVIOUS
  <2>2. services \subseteq Services /\ q \in Asks /\ r \in Answers(q)
    BY <2>1 DEF DispatchInv, Shape, Conversation
  <2>3. PICK text, bytes :
          /\ r = Message({}, Triple(Cause(q), text, bytes))
          /\ text # "" => Found(q, "user.UserService", "Throw") /\ text \in Texts
    BY <2>2, AnswersAre
  <2>4. Get(r, 1) = Cause(q)
    <3>1. PICK code : code = Cause(q) /\ r = Message({}, Triple(code, text, bytes))
      BY <2>3
    <3>2. Get(r, 1) = code
      BY <3>1 DEF Get, Message, Triple
    <3> QED BY <3>1, <3>2
  <2> QED BY <2>1, <2>4
<1> QED BY <1>1, Invariance, PTL

\* A call of Add that comes back has the sum of its arguments, wrapped to the width of an
\* int, for every width, every pair of arguments and arguments that are not set (Add of
\* MathServiceImpl, doCall).
THEOREM AddBringsTheSum == Spec => []AddIsAnswered
<1>1. DispatchInv => AddIsAnswered
  <2> SUFFICES ASSUME DispatchInv, NEW c \in Calls, Reaches(c, "math.MathService", "Add")
               PROVE  /\ pc[c] \notin {"failed", "unheard"}
                      /\ pc[c] = "ok" =>
                           /\ Has(AddResponse, result[c], 1)
                           /\ Get(result[c], 1) = Wrap(ValueOf(ask[c].a) + ValueOf(ask[c].b))
    BY Zenon DEF AddIsAnswered, ValueOf
  <2>1. PICK q, r, n : /\ q = ask[c] /\ r = answer[c]
                       /\ n = Wrap(ValueOf(q.a) + ValueOf(q.b))
    OBVIOUS
  <2>2. Found(q, "math.MathService", "Add")
    BY <2>1 DEF Reaches, Found
  <2>3. pc[c] # "unheard"
    BY <2>1, <2>2 DEF DispatchInv, UnheardOnlyIfMute, Reaches, Found
  <2>4. CASE pc[c] \in {"failed", "ok"}
    <3>1. services \subseteq Services /\ q \in Asks /\ r \in Answers(q)
      BY <2>1, <2>4 DEF DispatchInv, Shape, Conversation
    <3>2. PICK text, bytes :
            /\ r = Message({}, Triple(Cause(q), text, bytes))
            /\ Found(q, "math.MathService", "Add") =>
                 /\ Cause(q) = Error.NO_ERROR
                 /\ bytes = SumBytes(Wrap(ValueOf(q.a) + ValueOf(q.b)))
      BY <3>1, AnswersAre
    <3>3. Get(r, 1) = Cause(q) /\ Get(r, 3) = bytes
      BY <3>2 DEF Get, Message, Triple
    <3>4. Cause(q) = Error.NO_ERROR /\ bytes = SumBytes(n)
      BY <2>1, <2>2, <3>2
    <3>5. pc[c] # "failed"
      BY <2>1, <3>3, <3>4 DEF DispatchInv, Conversation
    <3>6. CASE pc[c] = "ok"
      <4>1. ResponseOf(q.method) = AddResponse
        BY <2>2 DEF Found, ResponseOf
      <4>2. result[c] = Parse(ResponseOf(q.method), Get(r, 3)).msg
        BY <2>1, <3>6 DEF DispatchInv, Conversation
      <4>3. Parse(AddResponse, SumBytes(n)).msg = Message({1}, Single(n))
        BY SumArrives, Zenon
      <4>4. result[c] = Message({1}, Single(n))
        BY <3>3, <3>4, <4>1, <4>2, <4>3
      <4>5. AddResponse.explicit = TRUE
        BY SumClass
      <4>6. Has(AddResponse, result[c], 1) /\ Get(result[c], 1) = n
        BY <4>4, <4>5 DEF Has, Get, Message, Single
      <4> QED BY <2>1, <2>3, <3>5, <4>6
    <3> QED BY <2>3, <2>4, <3>5, <3>6
  <2> QED BY <2>3, <2>4
<1> QED BY <1>1, Invariance, PTL
=============================================================================
