---------------------------- MODULE DiscoveryProofs ----------------------------
(***************************************************************************)
(* What is proved of Discovery for any threads, registry contents and      *)
(* crashes: that the file on disk is a whole list the registry answered,   *)
(* that a caller gets an address of such a list, and that the round robin  *)
(* gives every address its turn.                                           *)
(***************************************************************************)
EXTENDS Discovery, QueueLemmas

Saving == {"write", "rename"}
Steps == {"idle", "fetch", "save", "load", "store", "select"} \cup Saving

\* What is kept per thread and per file.
Shape ==
  /\ pc \in [Threads -> Steps]
  /\ file = [n \in Names |-> file[n]]
  /\ addrs = [t \in Threads |-> addrs[t]]
  /\ open = [t \in Threads |-> open[t]]

\* A thread saves a list the registry has answered.
SavesAnAnswer == \A t \in Threads : pc[t] \in {"save"} \cup Saving => addrs[t] \in answered

\* fileMutex_ lets one thread at a time into saveToDisk.
OneSaver == \A t, u \in Threads : pc[t] \in Saving /\ pc[u] \in Saving => t = u

\* The temporary file is empty when a thread begins to write, and holds the whole list
\* when it is renamed.
TmpIsMine ==
  \A t \in Threads :
    /\ pc[t] = "write" => open[t] = "tmp" /\ file["tmp"] = <<>>
    /\ pc[t] = "rename" => file["tmp"] = addrs[t]

\* All of this while the threads share a client and no write has failed.
SaveInv ==
  OneWriter => /\ file["disk"] \in answered \cup {NoFile}
               /\ SavesAnAnswer /\ OneSaver /\ TmpIsMine

\* The threads keep their places, and the files their names.
LEMMA ShapeStep == Shape /\ [Next]_vars => Shape'
<1> SUFFICES ASSUME Shape, [Next]_vars PROVE Shape'
  OBVIOUS
<1> USE DEF Shape, Steps, Saving
<1>1. ASSUME NEW a, Register(a) \/ Unregister(a) PROVE Shape'
  BY <1>1 DEF Register, Unregister
<1>2. ASSUME GoAway \/ ComeBack \/ UNCHANGED vars PROVE Shape'
  BY <1>2 DEF GoAway, ComeBack, vars
<1>3. ASSUME NEW t \in Threads, CheckCache(t) PROVE Shape'
  <2> DEFINE list == CHOOSE l \in cache[client[t]] : TRUE
  <2>1. /\ UNCHANGED <<file, open>>
        /\ \/ addrs' = [addrs EXCEPT ![t] = list] /\ pc' = [pc EXCEPT ![t] = "select"]
           \/ UNCHANGED addrs /\ pc' = [pc EXCEPT ![t] = "fetch"]
    BY <1>3 DEF CheckCache, Goto
  <2> HIDE DEF list
  <2> QED BY <2>1
<1>4. ASSUME NEW c \in Clients, Expire(c) PROVE Shape'
  BY <1>4 DEF Expire
<1>5. ASSUME NEW t \in Threads, Fetch(t) PROVE Shape'
  BY <1>5 DEF Fetch, Goto
<1>6. ASSUME NEW t \in Threads, FetchFails(t) PROVE Shape'
  BY <1>6 DEF FetchFails, Goto
<1>7. ASSUME NEW t \in Threads, OpenTmp(t) \/ CannotOpen(t) PROVE Shape'
  BY <1>7 DEF OpenTmp, CannotOpen, Goto, Names
<1>8. ASSUME NEW t \in Threads, NEW lines, Put(t, lines) PROVE Shape'
  BY <1>8 DEF Put, Goto, Names
<1>9. ASSUME NEW t \in Threads, Rename(t) PROVE Shape'
  BY <1>9 DEF Rename, Goto, Names
<1>10. ASSUME NEW t \in Threads, LoadFromDisk(t) PROVE Shape'
  BY <1>10 DEF LoadFromDisk, Goto
<1>11. ASSUME NEW t \in Threads, Store(t) \/ Select(t) PROVE Shape'
  BY <1>11 DEF Store, Select, Goto
<1>12. ASSUME NEW c \in Clients, Crash(c) PROVE Shape'
  BY <1>12 DEF Crash
<1> QED BY <1>1, <1>2, <1>3, <1>4, <1>5, <1>6, <1>7, <1>8, <1>9, <1>10, <1>11, <1>12
        DEF Next, Step, Write, WriteFails

\* A step with which no thread begins, ends or goes on saving, and after which a thread
\* that is about to save has an answer of the registry, keeps the file whole.
LEMMA NotSaving ==
  ASSUME SaveInv, UNCHANGED <<client, file>>, failed' = failed, answered \subseteq answered',
         \A t \in Threads : pc'[t] \in Saving =>
           pc[t] = pc'[t] /\ addrs'[t] = addrs[t] /\ open'[t] = open[t],
         \A t \in Threads : pc'[t] = "save" =>
           addrs'[t] \in answered' \/ (pc[t] = "save" /\ addrs'[t] = addrs[t])
  PROVE  SaveInv'
<1> SUFFICES ASSUME OneWriter' PROVE SaveInv'
  BY DEF SaveInv
<1>1. OneWriter
  BY DEF OneWriter
<1>2. file["disk"] \in answered \cup {NoFile} /\ SavesAnAnswer /\ OneSaver /\ TmpIsMine
  BY <1>1 DEF SaveInv
<1>3. file'["disk"] \in answered' \cup {NoFile}
  BY <1>2
<1>4. SavesAnAnswer'
  BY <1>2 DEF SavesAnAnswer, Saving
<1>5. OneSaver'
  BY <1>2 DEF OneSaver
<1>6. TmpIsMine'
  BY <1>2 DEF TmpIsMine, Saving
<1> QED BY <1>3, <1>4, <1>5, <1>6 DEF SaveInv

\* Every step keeps the file on disk whole.
LEMMA SaveStep == Shape /\ SaveInv /\ [Next]_vars => SaveInv'
<1> SUFFICES ASSUME Shape, SaveInv, [Next]_vars PROVE SaveInv'
  OBVIOUS
<1>1. ASSUME \/ \E a : Register(a) \/ Unregister(a)
             \/ GoAway \/ ComeBack \/ UNCHANGED vars \/ \E c \in Clients : Expire(c)
      PROVE  SaveInv'
  <2>1. UNCHANGED <<client, file, failed, answered, pc, addrs, open>>
    BY <1>1 DEF Register, Unregister, GoAway, ComeBack, Expire, vars
  <2> QED BY <2>1, NotSaving
<1>2. ASSUME NEW t \in Threads, CheckCache(t) PROVE SaveInv'
  <2> DEFINE list == CHOOSE l \in cache[client[t]] : TRUE
  <2>1. /\ UNCHANGED <<client, file, open, failed, answered>>
        /\ \/ addrs' = [addrs EXCEPT ![t] = list] /\ pc' = [pc EXCEPT ![t] = "select"]
           \/ UNCHANGED addrs /\ pc' = [pc EXCEPT ![t] = "fetch"]
    BY <1>2 DEF CheckCache, Goto
  <2> HIDE DEF list
  <2>2. /\ pc'[t] \in {"select", "fetch"}
        /\ \A u \in Threads : u # t => pc'[u] = pc[u] /\ addrs'[u] = addrs[u]
    BY <2>1 DEF Shape
  <2> QED BY <2>1, <2>2, NotSaving DEF Saving
<1>3. ASSUME NEW t \in Threads, Fetch(t) PROVE SaveInv'
  <2>1. /\ UNCHANGED <<client, file, open, failed>> /\ answered' = answered \cup {Listed}
        /\ addrs' = [addrs EXCEPT ![t] = Listed]
        /\ pc' = [pc EXCEPT ![t] = IF Listed = <<>> THEN "load" ELSE "save"]
    BY <1>3 DEF Fetch, Goto
  <2>2. /\ pc'[t] \in {"load", "save"} /\ addrs'[t] \in answered'
        /\ \A u \in Threads : u # t => pc'[u] = pc[u] /\ addrs'[u] = addrs[u]
    BY <2>1 DEF Shape
  <2> QED BY <2>1, <2>2, NotSaving DEF Saving
<1>4. ASSUME NEW t \in Threads, FetchFails(t) PROVE SaveInv'
  <2>1. /\ UNCHANGED <<client, file, open, failed, addrs, answered>>
        /\ UNCHANGED pc \/ pc' = [pc EXCEPT ![t] = "load"]
    BY <1>4 DEF FetchFails, Goto
  <2>2. \A u \in Threads : pc'[u] = pc[u] \/ pc'[u] = "load"
    BY <2>1 DEF Shape
  <2> QED BY <2>1, <2>2, NotSaving DEF Saving
<1>5. ASSUME NEW t \in Threads, CannotOpen(t) \/ LoadFromDisk(t) \/ Store(t) \/ Select(t)
      PROVE  SaveInv'
  <2>1. UNCHANGED <<client, file, open, failed, answered>>
    BY <1>5 DEF CannotOpen, LoadFromDisk, Store, Select
  <2>2. \/ UNCHANGED addrs \/ addrs' = [addrs EXCEPT ![t] = Loaded]
        \/ addrs' = [addrs EXCEPT ![t] = <<>>]
    BY <1>5 DEF CannotOpen, LoadFromDisk, Store, Select
  <2>3. \/ pc' = [pc EXCEPT ![t] = "store"] \/ pc' = [pc EXCEPT ![t] = "select"]
        \/ pc' = [pc EXCEPT ![t] = "idle"]
    BY <1>5 DEF CannotOpen, LoadFromDisk, Store, Select, Goto
  <2>4. pc'[t] \in {"store", "select", "idle"}
    BY <2>3 DEF Shape
  <2>5. \A u \in Threads : u # t => pc'[u] = pc[u]
    BY <2>3 DEF Shape
  <2>6. \A u \in Threads : u # t => addrs'[u] = addrs[u]
    BY <2>2 DEF Shape
  <2> QED BY <2>1, <2>4, <2>5, <2>6, NotSaving DEF Saving
<1>6. ASSUME NEW t \in Threads, OpenTmp(t) PROVE SaveInv'
  <2> SUFFICES ASSUME OneWriter' PROVE SaveInv'
    BY DEF SaveInv
  <2>1. /\ UNCHANGED <<client, failed, addrs, answered>> /\ pc[t] = "save" /\ ~Locked(t)
        /\ file' = [file EXCEPT !["tmp"] = <<>>]
        /\ open' = [open EXCEPT ![t] = "tmp"] /\ pc' = [pc EXCEPT ![t] = "write"]
    BY <1>6 DEF OpenTmp, Goto
  <2>2. OneWriter
    BY <2>1 DEF OneWriter
  <2>3. file["disk"] \in answered \cup {NoFile} /\ SavesAnAnswer /\ OneSaver /\ TmpIsMine
    BY <2>2 DEF SaveInv
  <2>4. /\ file'["disk"] = file["disk"] /\ file'["tmp"] = <<>>
        /\ pc'[t] = "write" /\ open'[t] = "tmp"
        /\ \A u \in Threads : u # t => pc'[u] = pc[u]
    BY <2>1 DEF Shape, Names
  <2>5. \A u \in Threads : u # t => pc[u] \notin Saving
    BY <2>1, <2>2 DEF Locked, OneWriter, Saving
  <2>6. SavesAnAnswer'
    BY <2>1, <2>3, <2>4 DEF SavesAnAnswer, Saving
  <2>7. OneSaver'
    BY <2>4, <2>5 DEF OneSaver
  <2>8. TmpIsMine'
    BY <2>4, <2>5 DEF TmpIsMine, Saving
  <2> QED BY <2>1, <2>3, <2>4, <2>6, <2>7, <2>8 DEF SaveInv
<1>7. ASSUME NEW t \in Threads, Write(t) PROVE SaveInv'
  <2> SUFFICES ASSUME OneWriter' PROVE SaveInv'
    BY DEF SaveInv
  <2>1. /\ UNCHANGED <<client, failed, addrs, answered>> /\ pc[t] = "write"
        /\ file' = IF open[t] \in Names
                   THEN [file EXCEPT ![open[t]] = Written(file[open[t]], addrs[t])] ELSE file
        /\ pc' = [pc EXCEPT ![t] = "rename"]
    BY <1>7 DEF Write, Put, Goto
  <2>2. OneWriter
    BY <2>1 DEF OneWriter
  <2>3. file["disk"] \in answered \cup {NoFile} /\ SavesAnAnswer /\ OneSaver /\ TmpIsMine
    BY <2>2 DEF SaveInv
  <2>4. open[t] = "tmp" /\ file["tmp"] = <<>>
    BY <2>1, <2>3 DEF TmpIsMine
  <2>5. file' = [file EXCEPT !["tmp"] = addrs[t]]
    BY <2>1, <2>4 DEF Names, Written
  <2>6. /\ file'["disk"] = file["disk"] /\ file'["tmp"] = addrs[t] /\ pc'[t] = "rename"
        /\ \A u \in Threads : u # t => pc'[u] = pc[u]
    BY <2>1, <2>5 DEF Shape, Names
  <2>7. \A u \in Threads : u # t => pc[u] \notin Saving
    BY <2>1, <2>3 DEF OneSaver, Saving
  <2>8. SavesAnAnswer'
    BY <2>1, <2>3, <2>6 DEF SavesAnAnswer, Saving
  <2>9. OneSaver'
    BY <2>6, <2>7 DEF OneSaver
  <2>10. TmpIsMine'
    BY <2>1, <2>6, <2>7 DEF TmpIsMine, Saving
  <2> QED BY <2>1, <2>3, <2>6, <2>8, <2>9, <2>10 DEF SaveInv
<1>8. ASSUME NEW t \in Threads, WriteFails(t) PROVE SaveInv'
  BY <1>8 DEF WriteFails, SaveInv, OneWriter
<1>9. ASSUME NEW t \in Threads, Rename(t) PROVE SaveInv'
  <2> SUFFICES ASSUME OneWriter' PROVE SaveInv'
    BY DEF SaveInv
  <2>1. /\ UNCHANGED <<client, failed, addrs, answered>> /\ pc[t] = "rename"
        /\ \/ file' = [tmp |-> NoFile, disk |-> file["tmp"]]
           \/ UNCHANGED file
        /\ pc' = [pc EXCEPT ![t] = "store"]
    BY <1>9 DEF Rename, Goto
  <2>2. OneWriter
    BY <2>1 DEF OneWriter
  <2>3. file["disk"] \in answered \cup {NoFile} /\ SavesAnAnswer /\ OneSaver /\ TmpIsMine
    BY <2>2 DEF SaveInv
  <2>4. file["tmp"] \in answered
    BY <2>1, <2>3 DEF TmpIsMine, SavesAnAnswer, Saving
  <2>5. file'["disk"] \in answered \cup {NoFile}
    BY <2>1, <2>3, <2>4
  <2>6. pc'[t] = "store" /\ \A u \in Threads : u # t => pc'[u] = pc[u]
    BY <2>1 DEF Shape
  <2>7. \A u \in Threads : pc'[u] \notin Saving
    BY <2>1, <2>3, <2>6 DEF OneSaver, Saving
  <2>8. SavesAnAnswer'
    BY <2>1, <2>3, <2>6 DEF SavesAnAnswer, Saving
  <2>9. OneSaver' /\ TmpIsMine'
    BY <2>7 DEF OneSaver, TmpIsMine, Saving
  <2> QED BY <2>1, <2>5, <2>8, <2>9 DEF SaveInv
<1>10. ASSUME NEW c \in Clients, Crash(c) PROVE SaveInv'
  <2> DEFINE mine == {t \in Threads : client[t] = c}
  <2>1. /\ UNCHANGED <<client, file, failed, answered>>
        /\ pc' = [t \in Threads |-> IF t \in mine THEN "idle" ELSE pc[t]]
        /\ addrs' = [t \in Threads |-> IF t \in mine THEN <<>> ELSE addrs[t]]
        /\ open' = [t \in Threads |-> IF t \in mine THEN "nothing" ELSE open[t]]
    BY <1>10 DEF Crash
  <2> HIDE DEF mine
  <2>2. \A t \in Threads :
          \/ pc'[t] = "idle"
          \/ pc'[t] = pc[t] /\ addrs'[t] = addrs[t] /\ open'[t] = open[t]
    BY <2>1
  <2> QED BY <2>1, <2>2, NotSaving DEF Saving
<1> QED BY <1>1, <1>2, <1>3, <1>4, <1>5, <1>6, <1>7, <1>8, <1>9, <1>10 DEF Next, Step

\* DiskIsWhole, for any number of threads that share a client, any registry contents and
\* any crashes: service_cache.txt never holds part of a list or a mixture of two.
THEOREM DiskHoldsWholeLists == Spec => []DiskIsWhole
<1>1. Init => Shape /\ SaveInv
  BY DEF Init, Shape, Steps, Saving, SaveInv, SavesAnAnswer, OneSaver, TmpIsMine, Names
<1>2. SaveInv => DiskIsWhole
  BY DEF SaveInv, DiskIsWhole
<1> QED BY <1>1, <1>2, ShapeStep, SaveStep, PTL DEF Spec
-----------------------------------------------------------------------------
\* loadFromDisk gives back a list that has no empty line as it was saved.
LEMMA KeepsAll ==
  ASSUME NEW S, NEW s \in Seq(S), Empty \notin S
  PROVE  NonEmpty(s) = s
<1> DEFINE E(f) == [n \in 0 .. Len(s) |->
                      IF n = 0 THEN <<>>
                      ELSE IF s[n] = Empty THEN f[n - 1] ELSE Append(f[n - 1], s[n])]
           kept == CHOOSE f : f = E(f)
           g == [n \in 0 .. Len(s) |-> SubSeq(s, 1, n)]
<1>1. NonEmpty(s) = kept[Len(s)]
  BY DEF NonEmpty
<1>2. Len(s) \in Nat /\ \A n \in 1 .. Len(s) : s[n] \in S
  BY LenProperties, ElementOfSeq
<1>3. ASSUME NEW n \in 1 .. Len(s)
      PROVE  s[n] # Empty /\ SubSeq(s, 1, n) = Append(SubSeq(s, 1, n - 1), s[n])
  <2>1. s[n] \in S
    BY <1>2
  <2>2. 1 \in 1 .. Len(s) /\ \A i \in 1 .. n - 1 : s[i] \in S
    BY <1>2
  <2>3. SubSeq(s, 1, n) = SubSeq(s, 1, n - 1) \o <<s[n]>>
    BY <2>2, SubSeqRecursiveSecond
  <2>4. SubSeq(s, 1, n - 1) \in Seq(S)
    BY <1>2, <2>2, SubSeqProperties
  <2>5. Append(SubSeq(s, 1, n - 1), s[n]) = SubSeq(s, 1, n - 1) \o <<s[n]>>
    BY <2>1, <2>4, AppendIsConcat
  <2> QED BY <2>1, <2>3, <2>5
<1>4. SubSeq(s, 1, 0) = <<>>
  BY SubSeqEmpty
<1>5. g = E(g)
  <2>1. ASSUME NEW n \in 0 .. Len(s)
        PROVE  g[n] = IF n = 0 THEN <<>>
                      ELSE IF s[n] = Empty THEN g[n - 1] ELSE Append(g[n - 1], s[n])
    <3>1. CASE n = 0
      BY <3>1, <1>2, <1>4
    <3>2. CASE n # 0
      <4>1. n \in 1 .. Len(s) /\ n - 1 \in 0 .. Len(s)
        BY <3>2, <1>2
      <4> QED BY <3>2, <4>1, <1>3
    <3> QED BY <3>1, <3>2
  <2> QED BY <2>1
<1>6. kept = E(kept)
  <2> HIDE DEF g
  <2>1. \E f : f = E(f)
    BY <1>5
  <2> QED BY <2>1, Zenon
<1>7. ASSUME NEW n \in 0 .. Len(s) PROVE kept[n] = SubSeq(s, 1, n)
  <2> HIDE DEF kept, g
  <2> DEFINE T == {k \in 0 .. Len(s) : kept[k] # SubSeq(s, 1, k)}
  <2>1. SUFFICES ASSUME T # {} PROVE FALSE
    OBVIOUS
  <2>2. PICK m \in T : \A k \in T : m <= k
    <3>1. T \subseteq Nat
      BY <1>2
    <3> HIDE DEF T
    <3> QED BY <2>1, <3>1, Least
  <2>3. kept[m] = IF m = 0 THEN <<>>
                  ELSE IF s[m] = Empty THEN kept[m - 1] ELSE Append(kept[m - 1], s[m])
    BY <1>6
  <2>4. CASE m = 0
    BY <2>3, <2>4, <1>4
  <2>5. CASE m # 0
    <3>1. m \in 1 .. Len(s) /\ m - 1 \in 0 .. Len(s) /\ ~(m <= m - 1)
      BY <2>5, <1>2
    <3>2. kept[m - 1] = SubSeq(s, 1, m - 1)
      BY <3>1, <2>2
    <3> QED BY <2>3, <2>5, <3>1, <3>2, <1>3
  <2> QED BY <2>4, <2>5
<1>8. SubSeq(s, 1, Len(s)) = s
  BY SubSeqFull
<1> HIDE DEF kept
<1> QED BY <1>1, <1>2, <1>7, <1>8

\* A list of the elements of S, each once, from the least to the greatest.
InOrder(S, list) ==
  /\ list \in [1 .. Cardinality(S) -> S]
  /\ \A i, j \in 1 .. Cardinality(S) : i < j => list[i] < list[j]

\* Taking the least element off puts the others in order, until none is left.
LEMMA OrderExists ==
  ASSUME NEW S, S \subseteq Nat, IsFiniteSet(S)
  PROVE  \E list : InOrder(S, list)
<1> DEFINE Sets(n) == {R \in SUBSET Nat : IsFiniteSet(R) /\ Cardinality(R) = n}
           T == {n \in Nat : \E R \in Sets(n) : ~\E list : InOrder(R, list)}
<1>1. ASSUME T # {} PROVE FALSE
  <2>1. T \subseteq Nat
    OBVIOUS
  <2>2. PICK m \in T : \A k \in T : m <= k
    <3> HIDE DEF T
    <3> QED BY <1>1, <2>1, Least
  <2>3. m \in Nat /\ \A n \in Nat : n < m => n \notin T
    BY <2>2
  <2>4. PICK R \in Sets(m) : ~\E list : InOrder(R, list)
    BY <2>2
  <2>5. R \subseteq Nat /\ IsFiniteSet(R) /\ Cardinality(R) = m
    BY <2>4
  <2>6. CASE m = 0
    <3>1. 1 .. 0 = {}
      OBVIOUS
    <3> DEFINE none == [i \in {} |-> 0]
    <3>2. none \in [{} -> R]
      OBVIOUS
    <3>3. InOrder(R, none)
      BY <2>5, <2>6, <3>1, <3>2 DEF InOrder
    <3> QED BY <2>4, <3>3
  <2>7. CASE m # 0
    <3>1. R # {}
      BY <2>5, <2>7, FS_EmptySet
    <3>2. PICK a \in R : \A k \in R : a <= k
      BY <2>5, <3>1, Least
    <3> DEFINE rest == R \ {a}
    <3>3. IsFiniteSet(rest) /\ Cardinality(rest) = m - 1
      BY <2>5, <3>2, FS_RemoveElement
    <3>4. rest \in Sets(m - 1) /\ m - 1 \notin T /\ m - 1 \in Nat
      BY <2>3, <2>5, <2>7, <3>3
    <3>5. PICK list : InOrder(rest, list)
      BY <3>4
    <3>6. /\ list \in [1 .. m - 1 -> rest]
          /\ \A i, j \in 1 .. m - 1 : i < j => list[i] < list[j]
      BY <3>3, <3>5 DEF InOrder
    <3> DEFINE longer == [i \in 1 .. m |-> IF i = 1 THEN a ELSE list[i - 1]]
    <3>7. ASSUME NEW i \in 1 .. m, i # 1
          PROVE  i - 1 \in 1 .. m - 1 /\ longer[i] = list[i - 1] /\ list[i - 1] \in rest
      BY <2>3, <3>6, <3>7
    <3>8. longer \in [1 .. m -> R]
      <4>1. ASSUME NEW i \in 1 .. m PROVE longer[i] \in R
        BY <3>2, <3>7
      <4> QED BY <4>1
    <3>9. ASSUME NEW i \in 1 .. m, NEW j \in 1 .. m, i < j PROVE longer[i] < longer[j]
      <4>1. j # 1 /\ longer[j] = list[j - 1] /\ list[j - 1] \in rest /\ j - 1 \in 1 .. m - 1
        BY <2>3, <3>7, <3>9
      <4>2. CASE i = 1
        <5>1. list[j - 1] \in R /\ list[j - 1] # a
          BY <4>1
        <5>2. a \in Nat /\ list[j - 1] \in Nat /\ a <= list[j - 1]
          BY <5>1, <3>2, <2>5
        <5>3. longer[i] = a
          BY <4>2
        <5> HIDE DEF longer, rest
        <5> QED BY <4>1, <5>1, <5>2, <5>3
      <4>3. CASE i # 1
        <5>1. i - 1 \in 1 .. m - 1 /\ longer[i] = list[i - 1] /\ i - 1 < j - 1
          BY <4>3, <3>7, <3>9, <2>3
        <5> HIDE DEF longer, rest
        <5> QED BY <4>1, <5>1, <3>6
      <4> QED BY <4>2, <4>3
    <3>10. InOrder(R, longer)
      <4> HIDE DEF longer
      <4> QED BY <2>5, <3>8, <3>9 DEF InOrder
    <3> QED BY <2>4, <3>10
  <2> QED BY <2>6, <2>7
<1>2. Cardinality(S) \in Nat /\ S \in Sets(Cardinality(S))
  BY FS_CardinalityType
<1>3. Cardinality(S) \notin T
  BY <1>1
<1> QED BY <1>2, <1>3

\* The /discover handler answers with a list of what is registered.
LEMMA AscendingInOrder ==
  ASSUME NEW S, S \subseteq Nat, IsFiniteSet(S)
  PROVE  InOrder(S, Ascending(S)) /\ Ascending(S) \in Seq(S)
<1>1. PICK list : InOrder(S, list)
  BY OrderExists
<1>2. InOrder(S, Ascending(S))
  BY <1>1 DEF InOrder, Ascending
<1>3. Cardinality(S) \in Nat
  BY FS_CardinalityType
<1> QED BY <1>2, <1>3, SeqDef DEF InOrder
-----------------------------------------------------------------------------
Handing == {"store", "select"}
Answers == answered \cup {<<>>}

\* What is registered and what is answered are addresses.
RegistryInv ==
  /\ services \subseteq Addresses
  /\ answered \subseteq Seq(Addresses)
  /\ client \in [Threads -> Clients]
  /\ cache = [c \in Clients |-> cache[c]]
  /\ index \in [Clients -> 0 .. 2 ^ Width - 1]

\* A list on its way to a caller, or kept for the next one, is empty or was answered.
HandInv ==
  OneWriter => /\ \A t \in Threads : pc[t] \in Handing => addrs[t] \in Answers
               /\ \A c \in Clients : cache[c] \subseteq Answers

\* What the registry lists is a list of addresses.
LEMMA ListedType ==
  ASSUME services \subseteq Addresses
  PROVE  Listed \in Seq(Addresses)
<1>1. services \subseteq Nat /\ IsFiniteSet(services)
  BY DiscoveryAssumption, FS_Subset
<1>2. Listed \in Seq(services)
  BY <1>1, AscendingInOrder DEF Listed
<1> QED BY <1>2

\* fetch_add wraps index_ within its width.
LEMMA AdvanceType ==
  ASSUME NEW i \in Nat
  PROVE  Advance(i) \in 0 .. 2 ^ Width - 1
<1> DEFINE m == 2 ^ Width
<1>1. m \in Nat \ {0} /\ Advance(i) = (i + 1) % m
  BY DiscoveryAssumption DEF Advance
<1> HIDE DEF m
<1>2. (i + 1) % m \in 0 .. m - 1
  BY <1>1
<1> QED BY <1>1, <1>2 DEF m

\* The registry holds and answers addresses, and index_ stays within its width.
LEMMA RegistryStep == RegistryInv /\ [Next]_vars => RegistryInv'
<1> SUFFICES ASSUME RegistryInv, [Next]_vars PROVE RegistryInv'
  OBVIOUS
<1> USE DEF RegistryInv
<1>1. ASSUME NEW a \in Addresses \cup {Empty}, Register(a) PROVE RegistryInv'
  BY <1>1 DEF Register, Registered
<1>2. ASSUME NEW a \in Addresses, Unregister(a) PROVE RegistryInv'
  BY <1>2 DEF Unregister
<1>3. ASSUME GoAway \/ ComeBack \/ UNCHANGED vars PROVE RegistryInv'
  BY <1>3 DEF GoAway, ComeBack, vars
<1>4. ASSUME NEW t \in Threads, CheckCache(t) \/ FetchFails(t) \/ OpenTmp(t) \/ CannotOpen(t)
      PROVE  RegistryInv'
  <2>1. UNCHANGED <<services, answered, client, cache, index>>
    BY <1>4 DEF CheckCache, FetchFails, OpenTmp, CannotOpen
  <2> QED BY <2>1
<1>5. ASSUME NEW t \in Threads, Write(t) \/ WriteFails(t) \/ Rename(t) \/ LoadFromDisk(t)
      PROVE  RegistryInv'
  <2>1. UNCHANGED <<services, answered, client, cache, index>>
    BY <1>5 DEF Write, WriteFails, Put, Rename, LoadFromDisk
  <2> QED BY <2>1
<1>6. ASSUME NEW t \in Threads, Fetch(t) PROVE RegistryInv'
  <2>1. UNCHANGED <<services, client, cache, index>> /\ answered' = answered \cup {Listed}
    BY <1>6 DEF Fetch
  <2> QED BY <2>1, ListedType
<1>7. ASSUME NEW t \in Threads, Store(t) PROVE RegistryInv'
  BY <1>7 DEF Store
<1>8. ASSUME NEW t \in Threads, Select(t) PROVE RegistryInv'
  <2> DEFINE i == index[client[t]]
             m == 2 ^ Width
  <2>1. /\ UNCHANGED <<services, answered, client, cache>>
        /\ index' = index \/ index' = [index EXCEPT ![client[t]] = Advance(i)]
    BY <1>8 DEF Select
  <2>2. i \in Nat /\ client[t] \in Clients
    BY DiscoveryAssumption
  <2>3. Advance(i) \in 0 .. m - 1 /\ index \in [Clients -> 0 .. m - 1]
    BY <2>2, AdvanceType
  <2> HIDE DEF i, m
  <2>4. index' \in [Clients -> 0 .. m - 1]
    BY <2>1, <2>2, <2>3
  <2> QED BY <2>1, <2>4 DEF m
<1>9. ASSUME NEW c \in Clients, Expire(c) PROVE RegistryInv'
  BY <1>9 DEF Expire
<1>10. ASSUME NEW c \in Clients, Crash(c) PROVE RegistryInv'
  <2> DEFINE m == 2 ^ Width
  <2>1. /\ UNCHANGED <<services, answered, client>>
        /\ cache' = [cache EXCEPT ![c] = {}]
        /\ index' = [index EXCEPT ![c] = 0]
    BY <1>10 DEF Crash
  <2>2. 0 \in 0 .. m - 1 /\ index \in [Clients -> 0 .. m - 1]
    BY DiscoveryAssumption
  <2> HIDE DEF m
  <2>3. index' \in [Clients -> 0 .. m - 1]
    BY <2>1, <2>2
  <2> QED BY <2>1, <2>3 DEF m
<1> QED BY <1>1, <1>2, <1>3, <1>4, <1>5, <1>6, <1>7, <1>8, <1>9, <1>10 DEF Next, Step

\* A step that hands a list on only if it is empty or was answered.
LEMMA HandsAnswers ==
  ASSUME HandInv, UNCHANGED client, failed' \in {failed, TRUE}, answered \subseteq answered',
         OneWriter => \A t \in Threads : pc'[t] \in Handing =>
           \/ pc[t] \in Handing /\ addrs'[t] = addrs[t]
           \/ addrs'[t] \in Answers',
         OneWriter => \A c \in Clients : cache'[c] \subseteq cache[c] \cup Answers'
  PROVE  HandInv'
<1>1. SUFFICES ASSUME OneWriter' PROVE HandInv'
  BY DEF HandInv
<1>2. OneWriter
  <2>1. ~failed' /\ \A t, u \in Threads : client'[t] = client'[u]
    BY <1>1, Zenon DEF OneWriter
  <2>2. failed' = failed \/ failed' = TRUE
    OBVIOUS
  <2>3. ~failed
    BY <2>1, <2>2, Zenon
  <2> QED BY <2>1, <2>3, Zenon DEF OneWriter
<1>3. Answers \subseteq Answers'
  BY DEF Answers
<1> QED BY <1>2, <1>3 DEF HandInv

\* Every step hands on lists of the registry only.
LEMMA HandStep ==
  Shape /\ SaveInv /\ RegistryInv /\ HandInv /\ [Next]_vars => HandInv'
<1> SUFFICES ASSUME Shape, SaveInv, RegistryInv, HandInv, [Next]_vars PROVE HandInv'
  OBVIOUS
<1>1. ASSUME UNCHANGED <<client, failed, answered, pc, addrs, cache>> PROVE HandInv'
  BY <1>1, HandsAnswers
<1>2. ASSUME NEW a, Register(a) \/ Unregister(a) PROVE HandInv'
  BY <1>1, <1>2 DEF Register, Unregister
<1>3. ASSUME GoAway \/ ComeBack \/ UNCHANGED vars PROVE HandInv'
  BY <1>1, <1>3 DEF GoAway, ComeBack, vars
<1>4. ASSUME NEW t \in Threads, CheckCache(t) PROVE HandInv'
  <2> DEFINE list == CHOOSE l \in cache[client[t]] : TRUE
  <2>1. /\ UNCHANGED <<client, answered, cache>> /\ failed' = failed
        /\ \/ /\ cache[client[t]] # {}
              /\ addrs' = [addrs EXCEPT ![t] = list] /\ pc' = [pc EXCEPT ![t] = "select"]
           \/ UNCHANGED addrs /\ pc' = [pc EXCEPT ![t] = "fetch"]
    BY <1>4 DEF CheckCache, Goto
  <2>2. cache[client[t]] # {} => list \in cache[client[t]]
    OBVIOUS
  <2>3. client[t] \in Clients
    BY DEF RegistryInv
  <2>4. OneWriter /\ cache[client[t]] # {} => list \in Answers
    BY <2>2, <2>3 DEF HandInv
  <2> HIDE DEF list
  <2>5. OneWriter => \A u \in Threads : pc'[u] \in Handing =>
          \/ pc[u] \in Handing /\ addrs'[u] = addrs[u]
          \/ addrs'[u] \in Answers
    BY <2>1, <2>4 DEF Shape, Handing
  <2>6. Answers' = Answers
    BY <2>1 DEF Answers
  <2> QED BY <2>1, <2>5, <2>6, HandsAnswers
<1>5. ASSUME NEW t \in Threads, Fetch(t) \/ FetchFails(t) \/ OpenTmp(t) PROVE HandInv'
  <2>1. /\ UNCHANGED <<client, cache>> /\ failed' = failed /\ answered \subseteq answered'
        /\ pc'[t] \notin Handing
        /\ \A u \in Threads : u # t => pc'[u] = pc[u] /\ addrs'[u] = addrs[u]
    BY <1>5 DEF Fetch, FetchFails, OpenTmp, Goto, Shape, Handing
  <2> QED BY <2>1, HandsAnswers
<1>6. ASSUME NEW t \in Threads, NEW lines, Put(t, lines), failed' \in {failed, TRUE}
      PROVE  HandInv'
  <2>1. /\ UNCHANGED <<client, cache, answered, addrs>>
        /\ pc'[t] \notin Handing
        /\ \A u \in Threads : u # t => pc'[u] = pc[u]
    BY <1>6 DEF Put, Goto, Shape, Handing
  <2> QED BY <1>6, <2>1, HandsAnswers
<1>7. ASSUME NEW t \in Threads, CannotOpen(t) \/ Rename(t) PROVE HandInv'
  <2>1. /\ UNCHANGED <<client, cache, answered, addrs>> /\ failed' = failed
        /\ pc[t] \in {"save"} \cup Saving
        /\ \A u \in Threads : u # t => pc'[u] = pc[u]
    BY <1>7 DEF CannotOpen, Rename, Goto, Shape, Saving
  <2>2. OneWriter => addrs'[t] \in Answers'
    BY <2>1 DEF SaveInv, SavesAnAnswer, Answers
  <2> QED BY <2>1, <2>2, HandsAnswers
<1>8. ASSUME NEW t \in Threads, LoadFromDisk(t) PROVE HandInv'
  <2>1. /\ UNCHANGED <<client, cache, answered>> /\ failed' = failed
        /\ addrs'[t] = Loaded
        /\ \A u \in Threads : u # t => pc'[u] = pc[u] /\ addrs'[u] = addrs[u]
    BY <1>8 DEF LoadFromDisk, Goto, Shape
  <2>2. OneWriter => Loaded \in Answers
    <3>1. SUFFICES ASSUME OneWriter, file["disk"] # NoFile PROVE Loaded \in Answers
      BY DEF Loaded, Answers
    <3>2. file["disk"] \in answered
      BY <3>1 DEF SaveInv
    <3>3. file["disk"] \in Seq(Addresses) /\ Empty \notin Addresses
      BY <3>2, DiscoveryAssumption DEF RegistryInv
    <3>4. NonEmpty(file["disk"]) = file["disk"]
      BY <3>3, KeepsAll
    <3> QED BY <3>1, <3>2, <3>4 DEF Loaded, Answers
  <2>3. Answers' = Answers
    BY <2>1 DEF Answers
  <2> QED BY <2>1, <2>2, <2>3, HandsAnswers
<1>9. ASSUME NEW t \in Threads, Store(t) PROVE HandInv'
  <2>1. /\ UNCHANGED <<client, addrs, answered>> /\ failed' = failed
        /\ cache' = [cache EXCEPT ![client[t]] = {addrs[t]}]
        /\ pc[t] \in Handing
        /\ \A u \in Threads : u # t => pc'[u] = pc[u]
    BY <1>9 DEF Store, Goto, Shape, Handing
  <2>2. Answers' = Answers /\ (OneWriter => addrs[t] \in Answers)
    BY <2>1 DEF Answers, HandInv
  <2>3. OneWriter => \A c \in Clients : cache'[c] \subseteq cache[c] \cup Answers
    BY <2>1, <2>2 DEF RegistryInv
  <2> QED BY <2>1, <2>2, <2>3, HandsAnswers
<1>10. ASSUME NEW t \in Threads, Select(t) PROVE HandInv'
  <2>1. /\ UNCHANGED <<client, cache, answered>> /\ failed' = failed
        /\ pc'[t] \notin Handing
        /\ \A u \in Threads : u # t => pc'[u] = pc[u] /\ addrs'[u] = addrs[u]
    BY <1>10 DEF Select, Goto, Shape, Handing
  <2> QED BY <2>1, HandsAnswers
<1>11. ASSUME NEW c \in Clients, Expire(c) PROVE HandInv'
  <2>1. /\ UNCHANGED <<client, answered, pc, addrs>> /\ failed' = failed
        /\ cache' = [cache EXCEPT ![c] = {}]
    BY <1>11 DEF Expire
  <2>2. \A d \in Clients : cache'[d] \subseteq cache[d]
    BY <2>1 DEF RegistryInv
  <2> QED BY <2>1, <2>2, HandsAnswers
<1>12. ASSUME NEW c \in Clients, Crash(c) PROVE HandInv'
  <2> DEFINE mine == {t \in Threads : client[t] = c}
  <2>1. /\ UNCHANGED <<client, answered>> /\ failed' = failed
        /\ cache' = [cache EXCEPT ![c] = {}]
        /\ pc' = [t \in Threads |-> IF t \in mine THEN "idle" ELSE pc[t]]
        /\ addrs' = [t \in Threads |-> IF t \in mine THEN <<>> ELSE addrs[t]]
    BY <1>12 DEF Crash
  <2> HIDE DEF mine
  <2>2. \A t \in Threads :
          \/ pc'[t] = "idle"
          \/ pc'[t] = pc[t] /\ addrs'[t] = addrs[t]
    BY <2>1
  <2>3. \A d \in Clients : cache'[d] \subseteq cache[d]
    BY <2>1 DEF RegistryInv
  <2> QED BY <2>1, <2>2, <2>3, HandsAnswers DEF Handing
<1>13. ASSUME NEW t \in Threads, Write(t) \/ WriteFails(t) PROVE HandInv'
  BY <1>6, <1>13 DEF Write, WriteFails
<1> QED BY <1>2, <1>3, <1>4, <1>5, <1>7, <1>8, <1>9, <1>10, <1>11, <1>12, <1>13 DEF Next, Step

\* select returns an address of the list it is given.
LEMMA SelectsFromList ==
  ASSUME NEW t \in Threads, RegistryInv, NEW S, addrs[t] \in Seq(S), addrs[t] # <<>>
  PROVE  Selected(t) \subseteq Range(addrs[t])
<1> DEFINE s == addrs[t]
           i == index[client[t]]
<1>1. type[client[t]] \in Types /\ i \in Nat
  BY DiscoveryAssumption DEF RegistryInv
<1>2. Len(s) \in Nat \ {0} /\ DOMAIN s = 1 .. Len(s)
  BY LenProperties, EmptySeq
<1>3. CASE type[client[t]] = "ROUND_ROBIN"
  <2>1. Selected(t) = {s[Turn(i, Len(s)) + 1]}
    BY <1>3 DEF Selected
  <2> HIDE DEF i, s
  <2>2. Turn(i, Len(s)) + 1 \in 1 .. Len(s)
    BY <1>1, <1>2 DEF Turn
  <2>3. s[Turn(i, Len(s)) + 1] \in Range(s)
    BY <1>2, <2>2 DEF Range
  <2> QED BY <2>1, <2>3 DEF s
<1>4. CASE type[client[t]] = "RANDOM"
  BY <1>4 DEF Selected
<1> QED BY <1>1, <1>3, <1>4 DEF Types

\* CallerGetsRegistered, for any number of threads, any registry contents, crashes and
\* expiry: neither the cache nor the file nor the balancer makes an address up.
THEOREM CallersGetAnsweredLists == Spec => []CallerGetsRegistered
<1> DEFINE Inv == Shape /\ SaveInv /\ RegistryInv /\ HandInv
<1>1. Init => Shape /\ SaveInv
  BY DEF Init, Shape, Steps, Saving, SaveInv, SavesAnAnswer, OneSaver, TmpIsMine, Names
<1>2. Init => RegistryInv
  BY DiscoveryAssumption DEF Init, RegistryInv
<1>3. Init => HandInv
  BY DEF Init, HandInv, Handing
<1>4. Inv => CallerGetsRegistered
  <2> SUFFICES ASSUME Inv, OneWriter, NEW t \in Threads, pc[t] = "select"
               PROVE  \/ addrs[t] = <<>> /\ Selected(t) = {Empty}
                      \/ addrs[t] \in answered /\ Selected(t) \subseteq Range(addrs[t])
    BY DEF CallerGetsRegistered
  <2>1. addrs[t] \in answered \cup {<<>>}
    BY DEF HandInv, Handing, Answers
  <2>2. CASE addrs[t] = <<>>
    BY <2>2 DEF Selected
  <2>3. CASE addrs[t] # <<>>
    BY <2>1, <2>3, SelectsFromList DEF RegistryInv
  <2> QED BY <2>2, <2>3
<1> QED BY <1>1, <1>2, <1>3, <1>4, ShapeStep, SaveStep, RegistryStep, HandStep, PTL DEF Spec
-----------------------------------------------------------------------------
\* Division with a rest.
LEMMA DivisionOf ==
  ASSUME NEW i \in Nat, NEW n \in Nat \ {0}
  PROVE  \E a \in Nat : i = n * a + (i % n)
<1>1. i = n * (i \div n) + (i % n) /\ i \div n \in Nat
  OBVIOUS
<1> QED BY <1>1

\* n selections in a row from index_ = i: each place of a list of n has its turn, also
\* over the wrap-around when n divides the range m of index_.
LEMMA EveryPlaceOnce ==
  ASSUME NEW m \in Nat \ {0}, NEW n \in 1 .. m, NEW i \in 0 .. m - 1,
         i + n <= m \/ m % n = 0
  PROVE  /\ \A k \in 0 .. n - 1 : Turn((i + k) % m, n) \in 0 .. n - 1
         /\ \A r \in 0 .. n - 1 : \E k \in 0 .. n - 1 : Turn((i + k) % m, n) = r
<1>1. ASSUME NEW k \in 0 .. n - 1 PROVE Turn((i + k) % m, n) \in 0 .. n - 1
  <2>1. (i + k) % m \in Nat
    OBVIOUS
  <2> QED BY <2>1 DEF Turn
<1>2. ASSUME NEW r \in 0 .. n - 1
      PROVE  \E k \in 0 .. n - 1 : Turn((i + k) % m, n) = r
  <2>1. PICK a \in Nat, b \in 0 .. n - 1 : i = n * a + b
    <3>1. i \in Nat /\ n \in Nat \ {0} /\ i % n \in 0 .. n - 1
      OBVIOUS
    <3> QED BY <3>1, DivisionOf
  <2>2. PICK k \in 0 .. n - 1, q \in Nat : i + k = n * q + r
    <3>1. CASE b <= r
      <4>1. r - b \in 0 .. n - 1 /\ i + (r - b) = n * a + r
        BY <2>1, <3>1
      <4> QED BY <4>1
    <3>2. CASE r < b
      <4>1. n * (a + 1) = n * a + n
        OBVIOUS
      <4>2. r - b + n \in 0 .. n - 1 /\ i + (r - b + n) = n * (a + 1) + r
        BY <2>1, <3>2, <4>1
      <4>3. a + 1 \in Nat
        OBVIOUS
      <4> QED BY <4>2, <4>3
    <3> QED BY <3>1, <3>2
  <2>3. CASE i + k < m
    <3>1. (i + k) % m = n * q + r
      BY <2>2, <2>3
    <3>2. Turn((i + k) % m, n) = r
      <4>1. n \in Nat \ {0} /\ q \in Int
        OBVIOUS
      <4>2. (n * q + r) % n = r
        BY <4>1, RestIs
      <4> QED BY <3>1, <4>2 DEF Turn
    <3> QED BY <3>2
  <2>4. CASE i + k >= m
    <3>1. m % n = 0
      BY <2>4
    <3>2. PICK d \in Nat : m = n * d
      <4>1. n \in Nat \ {0}
        OBVIOUS
      <4>2. PICK d \in Nat : m = n * d + (m % n)
        BY <4>1, DivisionOf
      <4>3. m = n * d
        BY <3>1, <4>2
      <4> QED BY <4>3
    <3>3. (i + k) % m = i + k - m
      <4>1. i + k - m \in 0 .. m - 1 /\ i + k = m * 1 + (i + k - m)
        BY <2>4
      <4> QED BY <4>1, RestIs
    <3>4. n * (q - d) = n * q - n * d
      OBVIOUS
    <3>5. (i + k) % m = n * (q - d) + r
      BY <2>2, <3>2, <3>3, <3>4
    <3>6. Turn((i + k) % m, n) = r
      <4>1. n \in Nat \ {0} /\ q - d \in Int
        OBVIOUS
      <4>2. (n * (q - d) + r) % n = r
        BY <4>1, RestIs
      <4> QED BY <3>5, <4>2 DEF Turn
    <3> QED BY <3>6
  <2> QED BY <2>3, <2>4
<1> QED BY <1>1, <1>2

\* What a line of a file, and so an address of a list, may be with any number of clients.
Line == Addresses \cup {Garbage}

\* Lists are made of lines, wherever they are, also when two clients write one file.
ListInv ==
  /\ addrs \in [Threads -> Seq(Line)]
  /\ \A c \in Clients : cache[c] \subseteq Seq(Line)
  /\ file \in [Names -> Seq(Line) \cup {NoFile}]

\* Every step keeps the lists lists.
LEMMA ListStep == RegistryInv /\ ListInv /\ [Next]_vars => ListInv'
<1> SUFFICES ASSUME RegistryInv, ListInv, [Next]_vars PROVE ListInv'
  OBVIOUS
<1> DEFINE Lists == Seq(Line)
<1>0. /\ addrs \in [Threads -> Lists] /\ file \in [Names -> Lists \cup {NoFile}]
      /\ \A c \in Clients : cache[c] \subseteq Lists
      /\ <<>> \in Lists /\ <<Garbage>> \in Lists /\ Listed \in Lists
      /\ client \in [Threads -> Clients]
  <2>1. Listed \in Seq(Addresses)
    BY ListedType DEF RegistryInv
  <2>2. Listed \in Seq(Line)
    BY <2>1 DEF Line
  <2>3. <<>> \in Seq(Line) /\ <<Garbage>> \in Seq(Line)
    BY DEF Line
  <2> QED BY <2>2, <2>3 DEF ListInv, RegistryInv
<1>g. ASSUME addrs' \in [Threads -> Lists], file' \in [Names -> Lists \cup {NoFile}],
             \A c \in Clients : cache'[c] \subseteq Lists
      PROVE  ListInv'
  BY <1>g DEF ListInv
<1> HIDE DEF Lists
<1>1. ASSUME NEW a, Register(a) \/ Unregister(a) PROVE ListInv'
  BY <1>0, <1>g, <1>1 DEF Register, Unregister
<1>2. ASSUME GoAway \/ ComeBack \/ UNCHANGED vars PROVE ListInv'
  BY <1>0, <1>g, <1>2 DEF GoAway, ComeBack, vars
<1>3. ASSUME NEW t \in Threads, CheckCache(t) PROVE ListInv'
  <2> DEFINE list == CHOOSE l \in cache[client[t]] : TRUE
  <2>1. /\ UNCHANGED <<cache, file>>
        /\ \/ cache[client[t]] # {} /\ addrs' = [addrs EXCEPT ![t] = list]
           \/ UNCHANGED addrs
    BY <1>3 DEF CheckCache
  <2>2. cache[client[t]] # {} => list \in cache[client[t]]
    OBVIOUS
  <2> HIDE DEF list
  <2>3. client[t] \in Clients
    BY <1>0
  <2>4. addrs' \in [Threads -> Lists]
    BY <1>0, <2>1, <2>2, <2>3
  <2> QED BY <1>0, <1>g, <2>1, <2>4
<1>4. ASSUME NEW t \in Threads, Fetch(t) PROVE ListInv'
  <2>1. UNCHANGED <<cache, file>> /\ addrs' = [addrs EXCEPT ![t] = Listed]
    BY <1>4 DEF Fetch
  <2> QED BY <1>0, <1>g, <2>1
<1>5. ASSUME NEW t \in Threads, FetchFails(t) \/ CannotOpen(t) PROVE ListInv'
  BY <1>0, <1>g, <1>5 DEF FetchFails, CannotOpen
<1>6. ASSUME NEW t \in Threads, OpenTmp(t) PROVE ListInv'
  <2>1. UNCHANGED <<cache, addrs>> /\ file' = [file EXCEPT !["tmp"] = <<>>]
    BY <1>6 DEF OpenTmp
  <2> QED BY <1>0, <1>g, <2>1 DEF Names
<1>7. ASSUME NEW t \in Threads, NEW lines \in Lists, Put(t, lines) PROVE ListInv'
  <2>1. /\ UNCHANGED <<cache, addrs>>
        /\ \/ UNCHANGED file
           \/ /\ open[t] \in Names
              /\ file' = [file EXCEPT ![open[t]] = Written(file[open[t]], lines)]
    BY <1>7 DEF Put
  <2>2. Written(file[open[t]], lines) \in Lists
    BY <1>0 DEF Written
  <2>3. file' \in [Names -> Lists \cup {NoFile}]
    BY <1>0, <2>1, <2>2
  <2> QED BY <1>0, <1>g, <2>1, <2>3
<1>8. ASSUME NEW t \in Threads, Write(t) PROVE ListInv'
  <2>1. addrs[t] \in Lists
    BY <1>0
  <2> QED BY <1>7, <1>8, <2>1 DEF Write
<1>9. ASSUME NEW t \in Threads, WriteFails(t) PROVE ListInv'
  <2>1. PICK n \in 0 .. Len(addrs[t]) - 1 : Put(t, SubSeq(addrs[t], 1, n))
    BY <1>9 DEF WriteFails
  <2>2. addrs[t] \in Seq(Line)
    BY DEF ListInv
  <2>3. n <= Len(addrs[t]) /\ Len(addrs[t]) \in Nat
    BY <2>2, LenProperties
  <2>4. SubSeq(addrs[t], 1, n) \in Lists
    BY <2>2, <2>3 DEF Lists
  <2> QED BY <1>7, <2>1, <2>4
<1>10. ASSUME NEW t \in Threads, Rename(t) PROVE ListInv'
  <2>1. /\ UNCHANGED <<cache, addrs>>
        /\ file' = [tmp |-> NoFile, disk |-> file["tmp"]] \/ UNCHANGED file
    BY <1>10 DEF Rename
  <2>2. file' \in [Names -> Lists \cup {NoFile}]
    BY <1>0, <2>1 DEF Names
  <2> QED BY <1>0, <1>g, <2>1, <2>2
<1>11. ASSUME NEW t \in Threads, LoadFromDisk(t) PROVE ListInv'
  <2>1. UNCHANGED <<cache, file>> /\ addrs' = [addrs EXCEPT ![t] = Loaded]
    BY <1>11 DEF LoadFromDisk
  <2>2. Loaded \in Lists
    <3>1. CASE file["disk"] = NoFile
      BY <1>0, <3>1 DEF Loaded
    <3>2. CASE file["disk"] # NoFile
      <4>1. file["disk"] \in Seq(Line)
        BY <3>2 DEF ListInv, Names
      <4>2. Empty \notin Line
        BY DiscoveryAssumption DEF Line
      <4>3. NonEmpty(file["disk"]) = file["disk"]
        BY <4>1, <4>2, KeepsAll
      <4> QED BY <3>2, <4>1, <4>3 DEF Loaded, Lists
    <3> QED BY <3>1, <3>2
  <2> QED BY <1>0, <1>g, <2>1, <2>2
<1>12. ASSUME NEW t \in Threads, Store(t) PROVE ListInv'
  <2>1. UNCHANGED <<addrs, file>> /\ cache' = [cache EXCEPT ![client[t]] = {addrs[t]}]
    BY <1>12 DEF Store
  <2>2. addrs[t] \in Lists /\ \A c \in Clients : cache'[c] \in {cache[c], {addrs[t]}}
    BY <1>0, <2>1 DEF RegistryInv
  <2>3. \A c \in Clients : cache'[c] \subseteq Lists
    BY <1>0, <2>2
  <2> QED BY <1>0, <1>g, <2>1, <2>3
<1>13. ASSUME NEW t \in Threads, Select(t) PROVE ListInv'
  <2>1. UNCHANGED <<cache, file>> /\ addrs' = [addrs EXCEPT ![t] = <<>>]
    BY <1>13 DEF Select
  <2> QED BY <1>0, <1>g, <2>1
<1>14. ASSUME NEW c \in Clients, Expire(c) PROVE ListInv'
  <2>1. UNCHANGED <<addrs, file>> /\ cache' = [cache EXCEPT ![c] = {}]
    BY <1>14 DEF Expire
  <2>2. \A d \in Clients : cache'[d] \in {cache[d], {}}
    BY <2>1 DEF RegistryInv
  <2> QED BY <1>0, <1>g, <2>1, <2>2
<1>15. ASSUME NEW c \in Clients, Crash(c) PROVE ListInv'
  <2> DEFINE mine == {t \in Threads : client[t] = c}
  <2>1. /\ UNCHANGED file /\ cache' = [cache EXCEPT ![c] = {}]
        /\ addrs' = [t \in Threads |-> IF t \in mine THEN <<>> ELSE addrs[t]]
    BY <1>15 DEF Crash
  <2> HIDE DEF mine
  <2>2. \A d \in Clients : cache'[d] \in {cache[d], {}}
    BY <2>1 DEF RegistryInv
  <2>3. addrs' \in [Threads -> Lists]
    BY <1>0, <2>1
  <2> QED BY <1>0, <1>g, <2>1, <2>2, <2>3
<1> QED BY <1>1, <1>2, <1>3, <1>4, <1>5, <1>6, <1>8, <1>9, <1>10, <1>11, <1>12, <1>13,
           <1>14, <1>15 DEF Next, Step

\* The range of index_.
Span == 2 ^ Width

\* The addresses in to are those a round robin hands out of from in a row, ending where
\* index_ stands at i.
InTurn(from, to, i) ==
  \E b \in Nat :
    /\ (b + Len(to)) % Span = i
    /\ \A k \in 1 .. Len(to) : to[k] = from[Turn((b + k - 1) % Span, Len(from)) + 1]

\* The account of the round robin is that of selections in a row.
GoodAccount(h, i) ==
  /\ h.from \in Seq(Line) /\ h.to \in Seq(Line)
  /\ Len(h.to) <= Len(h.from)
  /\ InTurn(h.from, h.to, i)

TurnInv ==
  /\ handed = [c \in Clients |-> handed[c]]
  /\ \A c \in Clients : GoodAccount(handed[c], index[c])

\* index_ has a range.
LEMMA SpanIsPositive == Span \in Nat \ {0}
BY DiscoveryAssumption DEF Span

\* Counting on from a rest.
LEMMA RestOfSum ==
  ASSUME NEW m \in Nat \ {0}, NEW b \in Nat, NEW k \in Nat
  PROVE  ((b % m) + k) % m = (b + k) % m
<1> DEFINE d == b % m
           r == (d + k) % m
<1>1. PICK a \in Nat : b = m * a + d
  BY DivisionOf
<1>2. d \in 0 .. m - 1
  OBVIOUS
<1>3. PICK q \in Nat : d + k = m * q + r
  <2>1. d + k \in Nat
    BY <1>2
  <2> HIDE DEF d
  <2> QED BY <2>1, DivisionOf
<1>4. r \in 0 .. m - 1
  BY <1>2
<1> HIDE DEF d, r
<1>5. b + k = m * a + m * q + r
  <2>1. m * a \in Nat /\ m * q \in Nat
    OBVIOUS
  <2> QED BY <1>1, <1>2, <1>3, <1>4, <2>1
<1>6. m * (a + q) = m * a + m * q
  OBVIOUS
<1>7. b + k = m * (a + q) + r
  BY <1>4, <1>5, <1>6
<1>8. (m * (a + q) + r) % m = r
  <2>1. a + q \in Int
    OBVIOUS
  <2> QED BY <1>4, <2>1, RestIs
<1>9. (b + k) % m = r
  BY <1>7, <1>8
<1> QED BY <1>9 DEF r, d

\* One more selection of the place where index_ stands, with the oldest forgotten if there
\* are more than the list is long.
LEMMA OneMoreTurn ==
  ASSUME NEW S, NEW s \in Seq(S), s # <<>>, NEW row \in Seq(S), Len(row) <= Len(s),
         NEW i \in 0 .. Span - 1, InTurn(s, row, i)
  PROVE  LET more == Append(row, s[Turn(i, Len(s)) + 1])
             kept == IF Len(more) > Len(s) THEN Tail(more) ELSE more
         IN /\ kept \in Seq(S) /\ Len(kept) <= Len(s)
            /\ InTurn(s, kept, Advance(i))
<1> DEFINE n == Len(s)
           m == Len(row)
           a == s[Turn(i, n) + 1]
           more == Append(row, a)
<1>1. Span \in Nat \ {0} /\ n \in Nat \ {0} /\ m \in Nat /\ m <= n /\ DOMAIN s = 1 .. n
  BY SpanIsPositive, LenProperties, EmptySeq
<1>2. PICK b \in Nat :
        /\ (b + m) % Span = i
        /\ \A k \in 1 .. m : row[k] = s[Turn((b + k - 1) % Span, n) + 1]
  BY DEF InTurn
<1>3. Turn(i, n) + 1 \in 1 .. n
  BY <1>1 DEF Turn
<1>4. a \in S
  BY <1>3, ElementOfSeq
<1>5. Advance(i) = (b + (m + 1)) % Span
  <2>1. Advance(i) = (((b + m) % Span) + 1) % Span
    BY <1>2 DEF Advance, Span
  <2>2. b + m \in Nat
    BY <1>1
  <2>3. (((b + m) % Span) + 1) % Span = (b + m + 1) % Span
    BY <1>1, <2>2, RestOfSum
  <2>4. b + m + 1 = b + (m + 1)
    BY <1>1
  <2> QED BY <2>1, <2>3, <2>4
<1>6. more \in Seq(S) /\ Len(more) = m + 1
  BY <1>4, AppendProperties
<1>7. ASSUME NEW k \in 1 .. m + 1
      PROVE  more[k] = s[Turn((b + k - 1) % Span, n) + 1]
  <2>1. CASE k = m + 1
    <3>1. more[k] = a
      BY <1>4, <2>1, AppendProperties
    <3>2. b + k - 1 = b + m
      BY <1>1, <2>1
    <3> QED BY <1>2, <3>1, <3>2
  <2>2. CASE k # m + 1
    <3>1. k \in 1 .. m
      BY <1>1, <2>2
    <3>2. more[k] = row[k]
      BY <1>4, <3>1, AppendProperties
    <3> QED BY <1>2, <3>1, <3>2
  <2> QED BY <2>1, <2>2
<1> HIDE DEF a, more
<1>8. CASE Len(more) <= n
  <2>1. InTurn(s, more, Advance(i))
    <3> HIDE DEF n, m
    <3> QED BY <1>5, <1>6, <1>7 DEF InTurn, n
  <2> QED BY <1>1, <1>6, <1>8, <2>1 DEF more, a
<1>9. CASE Len(more) > n
  <2>1. more # <<>>
    BY <1>1, <1>6
  <2>2. /\ Tail(more) \in Seq(S) /\ Len(Tail(more)) = m
        /\ \A k \in 1 .. m : Tail(more)[k] = more[k + 1]
    BY <1>1, <1>6, <2>1, HeadTailProperties
  <2>3. \A k \in 1 .. m : Tail(more)[k] = s[Turn(((b + 1) + k - 1) % Span, n) + 1]
    <3> SUFFICES ASSUME NEW k \in 1 .. m
                 PROVE  Tail(more)[k] = s[Turn(((b + 1) + k - 1) % Span, n) + 1]
      OBVIOUS
    <3>1. k + 1 \in 1 .. m + 1 /\ b + (k + 1) - 1 = (b + 1) + k - 1
      BY <1>1
    <3> QED BY <1>7, <2>2, <3>1
  <2>4. b + (m + 1) = (b + 1) + m /\ b + 1 \in Nat
    BY <1>1
  <2>5. InTurn(s, Tail(more), Advance(i))
    <3> HIDE DEF n, m
    <3> QED BY <1>5, <2>2, <2>3, <2>4 DEF InTurn, n
  <2> QED BY <1>1, <1>9, <2>2, <2>5 DEF more, a
<1>10. Len(more) <= n \/ Len(more) > n
  BY <1>1, <1>6
<1> QED BY <1>8, <1>9, <1>10

\* With nothing handed out, any place of index_ is the right one.
LEMMA NothingHanded ==
  ASSUME NEW i \in 0 .. Span - 1, NEW from \in Seq(Line)
  PROVE  /\ InTurn(from, <<>>, i)
         /\ GoodAccount(NobodyHanded, i)
<1>1. Span \in Nat \ {0} /\ i \in Nat /\ Len(<<>>) = 0 /\ <<>> \in Seq(Line)
  BY SpanIsPositive
<1>2. (i + 0) % Span = i
  <2>1. i = Span * 0 + i
    BY <1>1
  <2>2. 0 \in Int /\ i \in 0 .. Span - 1
    OBVIOUS
  <2>3. (Span * 0 + i) % Span = i
    BY <1>1, <2>2, RestIs
  <2> QED BY <1>1, <2>1, <2>3
<1>3. \A l : InTurn(l, <<>>, i)
  <2>1. ASSUME NEW l, NEW k \in 1 .. 0
        PROVE  <<>>[k] = l[Turn((i + k - 1) % Span, Len(l)) + 1]
    OBVIOUS
  <2> QED BY <1>1, <1>2, <2>1 DEF InTurn
<1> QED BY <1>1, <1>3 DEF GoodAccount, NobodyHanded

\* Every step keeps the account.
LEMMA TurnStep == RegistryInv /\ ListInv /\ TurnInv /\ [Next]_vars => TurnInv'
<1> SUFFICES ASSUME RegistryInv, ListInv, TurnInv, [Next]_vars PROVE TurnInv'
  OBVIOUS
<1>0. index \in [Clients -> 0 .. Span - 1]
  BY DEF RegistryInv, Span
<1>k. ASSUME UNCHANGED <<index, handed>> PROVE TurnInv'
  BY <1>k DEF TurnInv
\* One client's index_ and account change.
<1>o. ASSUME NEW c \in Clients, NEW i, NEW h, index' = [index EXCEPT ![c] = i],
             handed' = [handed EXCEPT ![c] = h], GoodAccount(h, i)
      PROVE  TurnInv'
  <2>1. /\ handed'[c] = h /\ index'[c] = i
        /\ \A d \in Clients : d # c => handed'[d] = handed[d] /\ index'[d] = index[d]
        /\ handed' = [d \in Clients |-> handed'[d]]
    BY <1>0, <1>o DEF TurnInv
  <2>2. ASSUME NEW d \in Clients PROVE GoodAccount(handed'[d], index'[d])
    <3>1. CASE d = c
      BY <1>o, <2>1, <3>1
    <3>2. CASE d # c
      <4>1. GoodAccount(handed[d], index[d])
        BY DEF TurnInv
      <4>2. handed'[d] = handed[d] /\ index'[d] = index[d]
        BY <2>1, <3>2
      <4> QED BY <4>1, <4>2
    <3> QED BY <3>1, <3>2
  <2>3. (\A d \in Clients : GoodAccount(handed[d], index[d]))'
    BY <2>2
  <2> QED BY <2>1, <2>3 DEF TurnInv
<1>1. ASSUME NEW a, Register(a) \/ Unregister(a) PROVE TurnInv'
  BY <1>k, <1>1 DEF Register, Unregister
<1>2. ASSUME GoAway \/ ComeBack \/ UNCHANGED vars PROVE TurnInv'
  BY <1>k, <1>2 DEF GoAway, ComeBack, vars
<1>3. ASSUME NEW t \in Threads, CheckCache(t) \/ Fetch(t) \/ FetchFails(t) PROVE TurnInv'
  <2>1. UNCHANGED <<index, handed>>
    BY <1>3 DEF CheckCache, Fetch, FetchFails
  <2> QED BY <1>k, <2>1
<1>4. ASSUME NEW t \in Threads, OpenTmp(t) \/ CannotOpen(t) \/ Rename(t) PROVE TurnInv'
  <2>1. UNCHANGED <<index, handed>>
    BY <1>4 DEF OpenTmp, CannotOpen, Rename
  <2> QED BY <1>k, <2>1
<1>5. ASSUME NEW t \in Threads, Write(t) \/ WriteFails(t) PROVE TurnInv'
  <2>1. UNCHANGED <<index, handed>>
    BY <1>5 DEF Write, WriteFails, Put
  <2> QED BY <1>k, <2>1
<1>6. ASSUME NEW t \in Threads, LoadFromDisk(t) \/ Store(t) PROVE TurnInv'
  <2>1. UNCHANGED <<index, handed>>
    BY <1>6 DEF LoadFromDisk, Store
  <2> QED BY <1>k, <2>1
<1>7. ASSUME NEW c \in Clients, Expire(c) PROVE TurnInv'
  BY <1>k, <1>7 DEF Expire
<1>8. ASSUME NEW c \in Clients, Crash(c) PROVE TurnInv'
  <2>1. index' = [index EXCEPT ![c] = 0] /\ handed' = [handed EXCEPT ![c] = NobodyHanded]
    BY <1>8 DEF Crash
  <2>2. 0 \in 0 .. Span - 1 /\ <<>> \in Seq(Line)
    BY SpanIsPositive
  <2>3. GoodAccount(NobodyHanded, 0)
    BY <2>2, NothingHanded
  <2> QED BY <1>o, <2>1, <2>3
<1>9. ASSUME NEW t \in Threads, Select(t) PROVE TurnInv'
  <2> DEFINE c == client[t]
             s == addrs[t]
             i == index[c]
             row == IF handed[c].from = s THEN handed[c].to ELSE <<>>
  <2>1. CASE UNCHANGED <<index, handed>>
    BY <1>k, <2>1
  <2>2. CASE ~UNCHANGED <<index, handed>>
    <3>1. s # <<>> /\ type[c] = "ROUND_ROBIN"
      BY <1>9, <2>2, Zenon DEF Select
    <3>2. Selected(t) = {s[Turn(i, Len(s)) + 1]}
      BY <3>1 DEF Selected
    <3>3. /\ index' = [index EXCEPT ![c] = Advance(i)]
          /\ \E a \in Selected(t) : handed' = [handed EXCEPT ![c] = HandedOut(c, s, a)]
      BY <1>9, <3>1 DEF Select
    <3>4. handed' = [handed EXCEPT ![c] = HandedOut(c, s, s[Turn(i, Len(s)) + 1])]
      BY <3>2, <3>3, Zenon
    <3>5. c \in Clients /\ s \in Seq(Line) /\ i \in 0 .. Span - 1
      BY <1>0 DEF RegistryInv, ListInv
    <3>6. GoodAccount(handed[c], i)
      BY <3>5 DEF TurnInv
    <3> DEFINE more == Append(row, s[Turn(i, Len(s)) + 1])
               kept == IF Len(more) > Len(s) THEN Tail(more) ELSE more
    <3>7. row \in Seq(Line) /\ Len(row) <= Len(s) /\ InTurn(s, row, i)
      <4>1. CASE handed[c].from = s
        <5>1. row = handed[c].to
          BY <4>1
        <5> HIDE DEF row, s, i, c
        <5> QED BY <3>6, <4>1, <5>1 DEF GoodAccount
      <4>2. CASE handed[c].from # s
        <5>1. row = <<>>
          BY <4>2
        <5> HIDE DEF row, s, i, c
        <5>2. InTurn(s, <<>>, i) /\ Len(s) \in Nat
          BY <3>5, NothingHanded, LenProperties
        <5> QED BY <5>1, <5>2
      <4> QED BY <4>1, <4>2
    <3>8. HandedOut(c, s, s[Turn(i, Len(s)) + 1]) = [from |-> s, to |-> kept]
      BY DEF HandedOut
    <3> HIDE DEF row, s, i, c
    <3>9. kept \in Seq(Line) /\ Len(kept) <= Len(s) /\ InTurn(s, kept, Advance(i))
      BY <3>1, <3>5, <3>7, OneMoreTurn
    <3> HIDE DEF kept, more
    <3>10. GoodAccount([from |-> s, to |-> kept], Advance(i))
      BY <3>5, <3>9 DEF GoodAccount
    <3> QED BY <1>o, <3>3, <3>4, <3>5, <3>8, <3>10
  <2> QED BY <2>1, <2>2
<1> QED BY <1>1, <1>2, <1>3, <1>4, <1>5, <1>6, <1>7, <1>8, <1>9 DEF Next, Step

\* As many selections in a row as the list is long reach every address.
LEMMA WholeRow ==
  ASSUME NEW from \in Seq(Line), NEW to \in Seq(Line), NEW i \in 0 .. Span - 1,
         InTurn(from, to, i), Len(to) = Len(from), Len(from) \in 1 .. Span,
         i \in 1 .. Len(from) - 1 => Span % Len(from) = 0
  PROVE  Range(to) = Range(from)
<1> DEFINE n == Len(from)
<1>1. /\ Span \in Nat \ {0} /\ n \in 1 .. Span /\ Len(to) = n
      /\ DOMAIN to = 1 .. n /\ DOMAIN from = 1 .. n
  BY SpanIsPositive, LenProperties
<1>2. PICK b \in Nat :
        /\ (b + n) % Span = i
        /\ \A k \in 1 .. n : to[k] = from[Turn((b + k - 1) % Span, n) + 1]
  BY <1>1 DEF InTurn
<1> DEFINE d == b % Span
           place(k) == Turn((d + k) % Span, n)
<1>3. d \in 0 .. Span - 1
  BY <1>1
<1>4. ASSUME NEW k \in Nat PROVE (d + k) % Span = (b + k) % Span
  BY <1>1, RestOfSum
<1> HIDE DEF n, d
<1>5. (d + n) % Span = i
  <2>1. n \in Nat
    BY <1>1
  <2>2. (d + n) % Span = (b + n) % Span
    BY <1>4, <2>1
  <2> QED BY <1>2, <2>2
<1>6. d + n <= Span \/ Span % n = 0
  <2> SUFFICES ASSUME d + n > Span PROVE Span % n = 0
    BY <1>1, <1>3
  <2>1. d + n - Span \in 1 .. n - 1 /\ d + n - Span \in 0 .. Span - 1
    BY <1>1, <1>3
  <2>2. d + n = Span * 1 + (d + n - Span)
    BY <1>1, <1>3
  <2>3. ASSUME NEW r \in 0 .. Span - 1 PROVE (Span * 1 + r) % Span = r
    BY <1>1, RestIs
  <2>4. (Span * 1 + (d + n - Span)) % Span = d + n - Span
    BY <2>1, <2>3
  <2>5. (d + n) % Span = d + n - Span
    BY <2>2, <2>4
  <2>6. i \in 1 .. n - 1
    BY <1>5, <2>1, <2>5
  <2> QED BY <2>6 DEF n
<1>7. /\ \A k \in 0 .. n - 1 : place(k) \in 0 .. n - 1
      /\ \A j \in 0 .. n - 1 : \E k \in 0 .. n - 1 : place(k) = j
  BY <1>1, <1>3, <1>6, EveryPlaceOnce
<1>8. \A k \in 0 .. n - 1 : to[k + 1] = from[place(k) + 1]
  <2> SUFFICES ASSUME NEW k \in 0 .. n - 1 PROVE to[k + 1] = from[place(k) + 1]
    OBVIOUS
  <2>1. k + 1 \in 1 .. n /\ b + (k + 1) - 1 = b + k /\ k \in Nat
    BY <1>1
  <2>2. to[k + 1] = from[Turn((b + k) % Span, n) + 1]
    BY <1>2, <2>1
  <2>3. (d + k) % Span = (b + k) % Span
    BY <1>4, <2>1
  <2> QED BY <2>2, <2>3
<1> HIDE DEF place
<1>9. Range(to) \subseteq Range(from)
  <2> SUFFICES ASSUME NEW j \in 1 .. n PROVE to[j] \in Range(from)
    BY <1>1 DEF Range
  <2>1. j - 1 \in 0 .. n - 1 /\ (j - 1) + 1 = j
    BY <1>1
  <2>2. to[j] = from[place(j - 1) + 1]
    <3>1. to[(j - 1) + 1] = from[place(j - 1) + 1]
      BY <1>8, <2>1
    <3> QED BY <2>1, <3>1
  <2>3. place(j - 1) \in 0 .. n - 1
    BY <1>7, <2>1
  <2>4. place(j - 1) + 1 \in 1 .. n
    BY <1>1, <2>3
  <2> QED BY <1>1, <2>2, <2>4 DEF Range
<1>10. Range(from) \subseteq Range(to)
  <2> SUFFICES ASSUME NEW j \in 1 .. n PROVE from[j] \in Range(to)
    BY <1>1 DEF Range
  <2>1. j - 1 \in 0 .. n - 1 /\ (j - 1) + 1 = j
    BY <1>1
  <2>2. PICK k \in 0 .. n - 1 : place(k) = j - 1
    BY <1>7, <2>1
  <2>3. to[k + 1] = from[j] /\ k + 1 \in 1 .. n
    BY <1>1, <1>8, <2>1, <2>2
  <2> QED BY <1>1, <2>3 DEF Range
<1> QED BY <1>9, <1>10

\* RoundRobinTurns, for any width of index_, any number of threads that share the balancer
\* and any lists: the addresses that select has handed out in a row leave none out.
THEOREM RoundRobinLeavesNobodyOut == Spec => []RoundRobinTurns
<1>1. Init => RegistryInv /\ ListInv /\ TurnInv
  <2> SUFFICES ASSUME Init PROVE RegistryInv /\ ListInv /\ TurnInv
    OBVIOUS
  <2>1. RegistryInv
    BY DiscoveryAssumption DEF Init, RegistryInv
  <2>2. ListInv
    BY DEF Init, ListInv
  <2>3. 0 \in 0 .. Span - 1 /\ <<>> \in Seq(Line)
    BY SpanIsPositive
  <2>4. GoodAccount(NobodyHanded, 0)
    BY <2>3, NothingHanded
  <2>5. TurnInv
    BY <2>4 DEF Init, TurnInv
  <2> QED BY <2>1, <2>2, <2>5
<1>2. RegistryInv /\ TurnInv => RoundRobinTurns
  <2> SUFFICES ASSUME RegistryInv, TurnInv, NEW c \in Clients,
                      Len(handed[c].from) \in 1 .. Span,
                      Len(handed[c].to) = Len(handed[c].from),
                      index[c] \in 1 .. Len(handed[c].from) - 1
                        => Span % Len(handed[c].from) = 0
               PROVE  Range(handed[c].to) = Range(handed[c].from)
    BY DEF RoundRobinTurns, Span
  <2>1. index[c] \in 0 .. Span - 1
    BY DEF RegistryInv, Span
  <2>2. GoodAccount(handed[c], index[c])
    BY DEF TurnInv
  <2> QED BY <2>1, <2>2, WholeRow DEF GoodAccount
<1> QED BY <1>1, <1>2, RegistryStep, ListStep, TurnStep, PTL DEF Spec
=============================================================================
