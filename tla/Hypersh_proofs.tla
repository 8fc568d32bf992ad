--------------------------- MODULE Hypersh_proofs ---------------------------
(* Theorems about Hypersh, for any number of vCPUs and any command lines.  *)
EXTENDS Hypersh, FiniteSetTheorems, SequenceTheorems, TLAPS

(***************************************************************************)
(* buf: the path of a command through the shared buffer.                   *)
(***************************************************************************)
First(s) == IF s = <<>> THEN "" ELSE Head(s)
Rest(s)  == IF s = <<>> THEN <<>> ELSE Tail(s)

TextTypes ==
  /\ DOMAIN pc = VCPU /\ DOMAIN target = VCPU
  /\ DOMAIN argv = VCPU /\ DOMAIN excuse = VCPU
  /\ sent \in [VCPU -> Commands \cup {<<>>}]

\* The plugin t gets these words for the line s.
Delivered(s, t, words) == s # <<>> /\ t = Addressee(s) /\ words = Given(s)

\* From its own copy on, buf holds what the vCPU sent, as far as it has copied
\* it, unless somebody else has written to it since.
Own(v) ==
  /\ pc[v] \in {"rest", "parse", "print"} => head = First(sent[v])
  /\ pc[v] \in {"parse", "print"} => tail = Rest(sent[v])
  /\ pc[v] = "print" => head = "p"
  /\ pc[v] = "scan" => Delivered(sent[v], target[v], argv[v])
  /\ pc[v] = "act" => sent[v] # <<>> /\ target[v] = Addressee(sent[v])

BufInv == TextTypes /\ \A v \in VCPU : "buf" \notin excuse[v] => Own(v)

LEMMA FirstAndRest ==
  ASSUME NEW s \in Seq(STRING), s # <<>>
  PROVE  <<First(s)>> \o Rest(s) = s
BY DEF First, Rest

LEMMA BufInvSent == BufInv => RunsWhatWasSent
<1> SUFFICES ASSUME BufInv, NEW v \in VCPU, "buf" \notin excuse[v]
             PROVE  /\ pc[v] = "scan" => sent[v] # <<>> /\ argv[v] = Given(sent[v])
                    /\ pc[v] = "print" => Words = sent[v]
  BY DEF RunsWhatWasSent
<1>1. Own(v) /\ sent[v] \in Commands \cup {<<>>}
  BY DEF BufInv, TextTypes
<1>2. ASSUME pc[v] = "print" PROVE Words = sent[v]
  <2>1. First(sent[v]) = "p" /\ Words = <<First(sent[v])>> \o Rest(sent[v])
    BY <1>1, <1>2 DEF Own, Words
  <2>2. sent[v] # <<>>
    BY <2>1 DEF First
  <2> QED BY <1>1, <2>1, <2>2, FirstAndRest, CommandAssumption DEF Commands
<1> QED BY <1>1, <1>2 DEF Own, Delivered

\* Nobody's excuses shrink but those of a vCPU that sends a new command.
LEMMA OthersUndisturbed ==
  ASSUME BufInv, NEW v \in VCPU, NEW w \in VCPU, w # v,
         UNCHANGED <<head, tail>>,
         pc'[w] = pc[w], sent'[w] = sent[w], target'[w] = target[w], argv'[w] = argv[w],
         excuse[w] \subseteq excuse'[w], "buf" \notin excuse'[w]
  PROVE  Own(w)'
<1>1. Own(w)
  BY DEF BufInv
<1> QED BY <1>1 DEF Own

LEMMA SendKeepsBuf == ASSUME BufInv, NEW v \in VCPU, hypersh_exec(v) PROVE BufInv'
<1>1. TextTypes'
  BY DEF hypersh_exec, Goto, BufInv, TextTypes
<1>2. ASSUME NEW w \in VCPU, "buf" \notin excuse'[w] PROVE Own(w)'
  <2>1. CASE w = v
    BY <2>1 DEF hypersh_exec, Goto, BufInv, TextTypes, Own
  <2>2. CASE w # v
    <3>1. /\ UNCHANGED <<head, tail>> /\ pc'[w] = pc[w] /\ sent'[w] = sent[w]
          /\ target'[w] = target[w] /\ argv'[w] = argv[w] /\ excuse'[w] = excuse[w]
      BY <2>2 DEF hypersh_exec, Goto, BufInv, TextTypes
    <3> QED BY <1>2, <2>2, <3>1, OthersUndisturbed
  <2> QED BY <2>1, <2>2
<1> QED BY <1>1, <1>2 DEF BufInv

LEMMA CopyKeepsBuf ==
  ASSUME BufInv, NEW v \in VCPU, CopyHead(v) \/ CopyRest(v) PROVE BufInv'
<1>1. TextTypes'
  BY DEF CopyHead, CopyRest, Goto, Disturb, BufInv, TextTypes, local
<1>2. ASSUME NEW w \in VCPU, "buf" \notin excuse'[w] PROVE Own(w)'
  <2>1. "buf" \notin excuse[w]
    BY <1>2 DEF CopyHead, CopyRest, Disturb
  <2>2. Own(w)
    BY <2>1 DEF BufInv
  <2>3. CASE w = v
    BY <2>2, <2>3 DEF CopyHead, CopyRest, Goto, BufInv, TextTypes, Own, First, Rest, local
  <2>4. CASE w # v
    <3>1. pc[w] \notin {"rest", "parse", "print"}
      BY <1>2, <2>4 DEF CopyHead, CopyRest, Disturb
    <3>2. pc'[w] = pc[w] /\ sent' = sent /\ target' = target /\ argv' = argv
      BY <2>4 DEF CopyHead, CopyRest, Goto, BufInv, TextTypes, local
    <3> QED BY <2>2, <3>1, <3>2 DEF Own
  <2> QED BY <2>3, <2>4
<1> QED BY <1>1, <1>2 DEF BufInv

LEMMA ReturnKeepsBuf ==
  ASSUME BufInv, NEW v \in VCPU, NEW from, Return(v, from), UNCHANGED <<head, tail, excuse>>
  PROVE  BufInv'
<1>1. TextTypes'
  BY DEF Return, Goto, BufInv, TextTypes
<1>2. ASSUME NEW w \in VCPU, "buf" \notin excuse'[w] PROVE Own(w)'
  <2>1. CASE w = v
    <3>1. pc'[w] = "guest"
      BY <2>1 DEF Return, Goto, BufInv, TextTypes
    <3> QED BY <3>1 DEF Own
  <2>2. CASE w # v
    <3>1. /\ pc'[w] = pc[w] /\ sent'[w] = sent[w]
          /\ target'[w] = target[w] /\ argv'[w] = argv[w]
      BY <2>2 DEF Return, Goto, BufInv, TextTypes
    <3> QED BY <1>2, <2>2, <3>1, OthersUndisturbed
  <2> QED BY <2>1, <2>2
<1> QED BY <1>1, <1>2 DEF BufInv

LEMMA ParseKeepsBuf == ASSUME BufInv, NEW v \in VCPU, Parse(v) PROVE BufInv'
<1>1. CASE Return(v, "parse")
  BY <1>1, ReturnKeepsBuf DEF Parse
<1>2. ASSUME head = "p", Goto(v, "parse", "print"), UNCHANGED local PROVE BufInv'
  <2>1. TextTypes'
    BY <1>2 DEF Parse, Goto, BufInv, TextTypes, local
  <2>2. ASSUME NEW w \in VCPU, "buf" \notin excuse'[w] PROVE Own(w)'
    <3>1. Own(w)
      BY <2>2 DEF Parse, BufInv
    <3> QED BY <1>2, <3>1 DEF Parse, Goto, BufInv, TextTypes, Own, local
  <2> QED BY <2>1, <2>2 DEF BufInv
<1>3. ASSUME NEW t, NEW words, Dispatch(v, t, words),
             \/ head = "debug" /\ t = "pmem" /\ words = tail
             \/ head \in Loaded /\ t = head /\ words = Words
      PROVE  BufInv'
  <2>1. TextTypes'
    BY <1>3 DEF Parse, SendToNobody, Return, Dispatch, Goto, BufInv, TextTypes
  <2>2. ASSUME NEW w \in VCPU, "buf" \notin excuse'[w] PROVE Own(w)'
    <3>1. Own(w) /\ "buf" \notin excuse[w]
      BY <2>2 DEF Parse, BufInv
    <3>2. CASE w # v
      <4>1. /\ pc'[w] = pc[w] /\ sent' = sent
            /\ target'[w] = target[w] /\ argv'[w] = argv[w]
            /\ UNCHANGED <<head, tail, excuse>>
        BY <1>3, <3>2 DEF Parse, Dispatch, Goto, BufInv, TextTypes
      <4> QED BY <2>2, <3>2, <4>1, OthersUndisturbed
    <3>3. CASE w = v
      <4>1. pc'[v] = "scan" /\ target'[v] = t /\ argv'[v] = words /\ sent' = sent
        BY <1>3 DEF Dispatch, Goto, BufInv, TextTypes
      <4>2. head = First(sent[v]) /\ tail = Rest(sent[v])
        BY <1>3, <3>1, <3>3 DEF Own, Dispatch, Goto
      <4>3. sent[v] # <<>>
        BY <1>3, <4>2, PluginAssumption DEF First
      <4>4. sent[v] \in Seq(STRING)
        BY <4>3, CommandAssumption DEF BufInv, TextTypes, Commands
      <4>5. Words = sent[v]
        BY <4>2, <4>3, <4>4, FirstAndRest DEF Words
      <4>6. Delivered(sent[v], t, words)
        BY <1>3, <4>2, <4>3, <4>5, PluginAssumption DEF Delivered, Addressee, Given, First, Rest
      <4> QED BY <3>3, <4>1, <4>6 DEF Own
    <3> QED BY <3>2, <3>3
  <2> QED BY <2>1, <2>2 DEF BufInv
<1> QED BY <1>1, <1>2, <1>3 DEF Parse, SendToNobody

LEMMA ControlKeepsBuf == ASSUME BufInv, NEW v \in VCPU, Control(v) PROVE BufInv'
<1>1. CASE Refuse(v)
  BY <1>1, ReturnKeepsBuf DEF Control, Refuse
<1>2. CASE SkipScan(v) \/ Scan(v)
  <2>1. /\ Goto(v, "scan", "act") /\ UNCHANGED <<head, tail, sent, target>>
        /\ \E a : argv' = [argv EXCEPT ![v] = a]
    BY <1>2, Zenon DEF Control, SkipScan, Scan, getopt
  <2>2. DOMAIN excuse' = VCPU /\ \A w \in VCPU : excuse[w] \subseteq excuse'[w]
    <3>1. CASE SkipScan(v)
      BY <3>1 DEF SkipScan, BufInv, TextTypes
    <3>2. CASE Scan(v)
      BY <3>2 DEF Scan, BufInv, TextTypes
    <3> QED BY <1>2, <3>1, <3>2
  <2>3. TextTypes'
    BY <2>1, <2>2 DEF Goto, BufInv, TextTypes
  <2>4. ASSUME NEW w \in VCPU, "buf" \notin excuse'[w] PROVE Own(w)'
    <3>1. CASE w = v
      <4>1. /\ pc[v] = "scan" /\ pc'[v] = "act"
            /\ sent'[v] = sent[v] /\ target'[v] = target[v]
        BY <2>1 DEF Goto, BufInv, TextTypes
      <4>2. Delivered(sent[v], target[v], argv[v])
        BY <2>2, <2>4, <3>1, <4>1 DEF BufInv, Own
      <4> QED BY <3>1, <4>1, <4>2 DEF Own, Delivered
    <3>2. CASE w # v
      <4>1. pc'[w] = pc[w] /\ target'[w] = target[w] /\ argv'[w] = argv[w]
        BY <2>1, <3>2 DEF Goto, BufInv, TextTypes
      <4> QED BY <2>1, <2>2, <2>4, <3>2, <4>1, OthersUndisturbed
    <3> QED BY <3>1, <3>2
  <2> QED BY <2>3, <2>4 DEF BufInv
<1> QED BY <1>1, <1>2 DEF Control

LEMMA BufInvInductive == BufInv /\ [Next]_vars => BufInv'
<1> SUFFICES ASSUME BufInv, [Next]_vars PROVE BufInv'
  OBVIOUS
<1>1. CASE UNCHANGED vars
  BY <1>1 DEF vars, local, BufInv, TextTypes, Own
<1>2. ASSUME NEW v \in VCPU, CopyFails(v) \/ PrintText(v) \/ Act(v) PROVE BufInv'
  BY <1>2, ReturnKeepsBuf DEF CopyFails, PrintText, Act
<1> QED BY <1>1, <1>2, SendKeepsBuf, CopyKeepsBuf, ParseKeepsBuf, ControlKeepsBuf, Zenon
        DEF Next, Aborted

\* However the commands of the vCPUs interleave in buf, a plugin gets, and "p"
\* prints, what its own vCPU sent, unless another one has written to buf since.
THEOREM BufferTheorem == Spec => []RunsWhatWasSent
<1>1. Init => BufInv
  BY DEF Init, BufInv, TextTypes, Own
<1> QED BY <1>1, BufInvInductive, BufInvSent, PTL DEF Spec

(***************************************************************************)
(* What getopt leaves of the words it is given.                            *)
(***************************************************************************)
\* A finite set of numbers has an element of every rank.
LEMMA NthIsElement ==
  ASSUME NEW S \in SUBSET Nat, IsFiniteSet(S), NEW k \in 1 .. Cardinality(S)
  PROVE  Nth(S, k) \in S
<1> DEFINE UpTo(i) == {j \in S : j <= i}
           rank    == [i \in S |-> Cardinality(UpTo(i))]
<1>1. \A i \in S : /\ IsFiniteSet(UpTo(i))
                   /\ Cardinality(UpTo(i)) \in 1 .. Cardinality(S)
  <2> TAKE i \in S
  <2>1. IsFiniteSet(UpTo(i)) /\ Cardinality(UpTo(i)) <= Cardinality(S)
    BY FS_Subset
  <2>2. Cardinality(UpTo(i)) \in Nat /\ Cardinality(S) \in Nat
    BY <2>1, FS_CardinalityType
  <2>3. i \in UpTo(i)
    OBVIOUS
  <2>4. Cardinality(UpTo(i)) # 0
    BY <2>1, <2>3, FS_EmptySet
  <2> HIDE DEF UpTo
  <2> QED BY <2>1, <2>2, <2>4
<1>2. ASSUME NEW i \in S, NEW j \in S, i < j
      PROVE  Cardinality(UpTo(i)) # Cardinality(UpTo(j))
  <2>1. i \in Nat /\ j \in Nat /\ ~ (j <= i) /\ j <= j
    BY <1>2
  <2>2. \A x \in S : x <= i => x <= j
    BY <1>2, <2>1
  <2>3. UpTo(i) \in SUBSET UpTo(j) /\ j \in UpTo(j) /\ j \notin UpTo(i)
    BY <2>1, <2>2
  <2> HIDE DEF UpTo
  <2> QED BY <1>1, <2>3, FS_Subset
<1>3. rank \in Injection(S, 1 .. Cardinality(S))
  <2>1. rank \in [S -> 1 .. Cardinality(S)]
    BY <1>1
  <2>2. ASSUME NEW i \in S, NEW j \in S, rank[i] = rank[j] PROVE i = j
    <3>1. ~ (i < j) /\ ~ (j < i)
      BY <1>2, <2>2
    <3> QED BY <3>1
  <2> HIDE DEF rank
  <2> QED BY <2>1, <2>2 DEF Injection, IsInjective
<1>4. rank \in Surjection(S, 1 .. Cardinality(S))
  <2>1. Cardinality(S) \in Nat
    BY FS_CardinalityType
  <2>2. /\ IsFiniteSet(1 .. Cardinality(S))
        /\ Cardinality(1 .. Cardinality(S)) = Cardinality(S)
    BY <2>1, FS_Interval
  <2> HIDE DEF rank
  <2> QED BY <1>3, <2>2, FS_Injection
<1>5. PICK i \in S : rank[i] = k
  BY <1>4 DEF Surjection
<1>6. Cardinality({j \in S : j <= i}) = k
  BY <1>5
<1> QED BY <1>6 DEF Nth

LEMMA WordsAtType ==
  ASSUME NEW W, NEW words \in Seq(W), NEW S \in SUBSET (0 .. Len(words) - 1)
  PROVE  WordsAt(words, S) \in Seq(W)
<1>1. Len(words) \in Nat
  BY LenProperties
<1>2. IsFiniteSet(S) /\ S \in SUBSET Nat
  <2>1. IsFiniteSet(0 .. Len(words) - 1)
    BY <1>1, FS_Interval
  <2>2. IsFiniteSet(S)
    BY <2>1, FS_Subset
  <2> QED BY <1>1, <2>2
<1>3. Cardinality(S) \in Nat
  BY <1>2, FS_CardinalityType
<1>4. ASSUME NEW k \in 1 .. Cardinality(S) PROVE words[Nth(S, k) + 1] \in W
  <2>1. Nth(S, k) \in 0 .. Len(words) - 1
    BY <1>2, NthIsElement
  <2>2. Nth(S, k) + 1 \in 1 .. Len(words)
    BY <1>1, <2>1
  <2> QED BY <2>2, ElementOfSeq
<1> QED BY <1>3, <1>4 DEF WordsAt

LEMMA PermutedType ==
  ASSUME NEW W, NEW words \in Seq(W), NEW n \in 1 .. Len(words), NEW t
  PROVE  /\ Permuted(t, words, n).front \in Seq(W)
         /\ Permuted(t, words, n).plain \in Seq(W)
         /\ Len(Permuted(t, words, n).front) \in Nat
         /\ Permuted(t, words, n).front \o Permuted(t, words, n).plain \in Seq(W) \ {<<>>}
         /\ Head(Permuted(t, words, n).front \o Permuted(t, words, n).plain) = Head(words)
<1> DEFINE all   == n .. Len(words) - 1
           plain == {i \in all : IsPlain(t, words, n, i)}
           first == SubSeq(words, 1, n)
           front == first \o WordsAt(words, all \ plain)
           back  == WordsAt(words, plain)
<1>1. Permuted(t, words, n).front = front /\ Permuted(t, words, n).plain = back
  BY DEF Permuted
<1>2. Len(words) \in Nat /\ words # <<>>
  BY LenProperties, EmptySeq
<1>3. plain \in SUBSET (0 .. Len(words) - 1) /\ all \ plain \in SUBSET (0 .. Len(words) - 1)
  BY <1>2
<1> HIDE DEF all, plain
<1>4. back \in Seq(W) /\ WordsAt(words, all \ plain) \in Seq(W)
  BY <1>3, WordsAtType
<1>5. first \in Seq(W) /\ Len(first) = n /\ first[1] = words[1]
  <2>1. \A i \in 1 .. n : words[i] \in W
    BY <1>2, ElementOfSeq
  <2> QED BY <1>2, <2>1, SubSeqProperties
<1> HIDE DEF first, back
<1>6. front \in Seq(W) /\ Len(front) >= 1 /\ Len(front) \in Nat /\ front[1] = words[1]
  BY <1>2, <1>4, <1>5, ConcatProperties, LenProperties
<1> HIDE DEF front
<1>7. front \o back \in Seq(W) /\ Len(front \o back) >= 1 /\ (front \o back)[1] = words[1]
  BY <1>4, <1>6, ConcatProperties, LenProperties
<1>8. front \o back # <<>>
  BY <1>7, EmptySeq
<1>9. Head(front \o back) = words[1] /\ Head(words) = words[1]
  BY <1>2, <1>7, <1>8
<1> QED BY <1>1, <1>4, <1>6, <1>7, <1>8, <1>9

LEMMA FoundType ==
  ASSUME NEW W, NEW words \in Seq(W), NEW n \in 1 .. Len(words), NEW t
  PROVE  Found(t, words, n) \subseteq Seq(W)
<1>1. Len(words) \in Nat /\ \A i \in 1 .. Len(words) : words[i] \in W
  BY LenProperties, ElementOfSeq
<1>2. ASSUME NEW i \in n .. Len(words) - 1 PROVE <<words[i + 1]>> \in Seq(W)
  BY <1>1
<1>3. ASSUME NEW i \in n .. Len(words) - 2 PROVE <<words[i + 1], words[i + 2]>> \in Seq(W)
  <2>1. words[i + 1] \in W /\ words[i + 2] \in W
    BY <1>1
  <2> QED BY <2>1
<1> QED BY <1>2, <1>3 DEF Found

(***************************************************************************)
(* Types.                                                                  *)
(***************************************************************************)
LEMMA LinesAreWords ==
  ASSUME NEW c \in Commands
  PROVE  /\ c \in Seq(Word) /\ c # <<>>
         /\ Head(c) \in Word /\ Tail(c) \in Seq(Word)
<1>1. c \in Seq(STRING) /\ c # <<>>
  BY CommandAssumption DEF Commands
<1>2. \A i \in DOMAIN c : c[i] \in Word
  <2>1. \A i \in DOMAIN c : c[i] \in ToSet(c)
    BY DEF ToSet
  <2> QED BY <2>1 DEF Word
<1>3. Len(c) \in Nat /\ c \in [1 .. Len(c) -> STRING]
  BY <1>1, LenProperties
<1>4. c \in Seq(Word)
  BY <1>2, <1>3
<1> QED BY <1>1, <1>4, HeadTailProperties

LEMMA ReturnKeepsTypes ==
  ASSUME TypeOK, NEW v \in VCPU, NEW from, Return(v, from)
  PROVE  /\ pc' \in [VCPU -> {"guest", "copy", "rest", "parse", "print", "scan", "act"}]
         /\ sent' \in [VCPU -> Commands \cup {<<>>}]
         /\ target' \in [VCPU -> Loaded \cup {"none"}]
         /\ argv' \in [VCPU -> Seq(Word)]
         /\ opts' \in [VCPU -> SUBSET Seq(Word)]
<1>1. <<>> \in Seq(Word)
  BY EmptySeq
<1> QED BY <1>1 DEF TypeOK, Return, Goto

\* What getopt is given and what it leaves are words.
LEMMA ScanKeepsTypes ==
  ASSUME TypeOK, NEW v \in VCPU, Scan(v)
  PROVE  /\ argv' \in [VCPU -> Seq(Word)]
         /\ opts' \in [VCPU -> SUBSET Seq(Word)]
         /\ optind' \in Nat
<1> DEFINE words  == Scanned(target[v], argv[v])
           sorted == Permuted(target[v], words, Position)
<1>1. argv \in [VCPU -> Seq(Word)] /\ opts \in [VCPU -> SUBSET Seq(Word)] /\ optind \in Nat
  BY DEF TypeOK
<1>2. words \in Seq(Word)
  <2>1. argv[v] \in Seq(Word) /\ argv[v] # <<>>
    BY <1>1 DEF Scan, Directed
  <2> QED BY <2>1, HeadTailProperties DEF Scanned
<1>3. Position \in Nat \ {0} /\ Len(words) \in Nat
  BY <1>1, <1>2, LenProperties DEF Position
<1>4. CASE Position <= Len(words)
  <2>1. Position \in 1 .. Len(words)
    BY <1>3, <1>4
  <2>2. /\ argv' = [argv EXCEPT ![v] = sorted.front \o sorted.plain]
        /\ opts' = [opts EXCEPT ![v] = Found(target[v], words, Position)]
        /\ optind' = Len(sorted.front)
    <3>1. Position <= Len(words) /\ ~ (Position > Len(words))
      BY <1>3, <1>4
    <3> QED BY <3>1, Zenon DEF Scan, getopt
  <2>3. sorted.front \o sorted.plain \in Seq(Word) /\ Len(sorted.front) \in Nat
    BY <1>2, <2>1, PermutedType
  <2>4. Found(target[v], words, Position) \in SUBSET Seq(Word)
    BY <1>2, <2>1, FoundType
  <2> HIDE DEF sorted, words
  <2> QED BY <1>1, <2>2, <2>3, <2>4
<1>5. CASE Position > Len(words)
  <2>1. argv' = [argv EXCEPT ![v] = words] /\ UNCHANGED <<opts, optind>>
    <3>1. ~ (Position <= Len(words))
      BY <1>3, <1>5
    <3> QED BY <3>1, Zenon DEF Scan, getopt
  <2> QED BY <1>1, <1>2, <2>1
<1> QED BY <1>3, <1>4, <1>5

LEMMA TypeInductive == TypeOK /\ [Next]_vars => TypeOK'
<1> SUFFICES ASSUME TypeOK, [Next]_vars PROVE TypeOK'
  OBVIOUS
<1> DEFINE Step == {"guest", "copy", "rest", "parse", "print", "scan", "act"}
<1>1. /\ pc \in [VCPU -> Step]
      /\ sent \in [VCPU -> Commands \cup {<<>>}]
      /\ target \in [VCPU -> Loaded \cup {"none"}]
      /\ argv \in [VCPU -> Seq(Word)]
      /\ opts \in [VCPU -> SUBSET Seq(Word)]
      /\ excuse \in [VCPU -> SUBSET {"buf", "getopt", "optind"}]
      /\ head \in Word /\ tail \in Seq(Word)
      /\ optind \in Nat
      /\ leaver \in Loaded \cup {"none"}
      /\ fault \in {"none", "plugin", "getopt", "strtol"}
  BY DEF TypeOK
<1>2. CASE UNCHANGED vars
  BY <1>1, <1>2 DEF vars, local, TypeOK
<1>3. ASSUME NEW v \in VCPU, hypersh_exec(v) PROVE TypeOK'
  BY <1>1, <1>3 DEF hypersh_exec, Goto, TypeOK
<1>4. ASSUME NEW v \in VCPU, CopyHead(v) \/ CopyRest(v) PROVE TypeOK'
  <2>1. PICK to \in Step : pc' = [pc EXCEPT ![v] = to]
    BY <1>4 DEF CopyHead, CopyRest, Goto
  <2>2. excuse' \in [VCPU -> SUBSET {"buf", "getopt", "optind"}]
    <3>1. excuse' = [u \in VCPU |-> IF u # v /\ pc[u] \in {"rest", "parse", "print"}
                                     THEN excuse[u] \cup {"buf"} ELSE excuse[u]]
      BY <1>4 DEF CopyHead, CopyRest, Disturb
    <3>2. \A u \in VCPU : excuse[u] \in SUBSET {"buf", "getopt", "optind"}
      BY <1>1
    <3> QED BY <3>1, <3>2
  <2>3. head' \in Word /\ tail' \in Seq(Word)
    <3>1. "" \in Word /\ <<>> \in Seq(Word)
      BY EmptySeq DEF Word
    <3>2. sent[v] # <<>> => Head(sent[v]) \in Word /\ Tail(sent[v]) \in Seq(Word)
      BY <1>1, LinesAreWords
    <3> QED BY <1>1, <1>4, <3>1, <3>2 DEF CopyHead, CopyRest
  <2>4. UNCHANGED <<sent, target, argv, opts, optind, leaver, fault>>
    BY <1>4 DEF CopyHead, CopyRest, local
  <2> QED BY <1>1, <2>1, <2>2, <2>3, <2>4 DEF TypeOK
<1>5. ASSUME NEW v \in VCPU, NEW from, Return(v, from),
             fault' \in {fault, "plugin"}, UNCHANGED <<head, tail, optind, leaver, excuse>>
      PROVE  TypeOK'
  BY <1>1, <1>5, ReturnKeepsTypes DEF TypeOK
<1>6. ASSUME NEW v \in VCPU, Parse(v) PROVE TypeOK'
  <2>1. CASE Return(v, "parse")
    BY <1>5, <1>6, <2>1 DEF Parse, SendToNobody, Goto, Return, Dispatch
  <2>2. CASE Goto(v, "parse", "print") /\ UNCHANGED local
    BY <1>1, <1>6, <2>2 DEF Parse, SendToNobody, Return, Goto, local, TypeOK
  <2>3. ASSUME NEW t \in Loaded, NEW words \in Seq(Word), Dispatch(v, t, words) PROVE TypeOK'
    BY <1>1, <1>6, <2>3 DEF Parse, SendToNobody, Return, Dispatch, Goto, TypeOK
  <2>4. Words \in Seq(Word)
    BY <1>1, ConcatProperties DEF Words
  <2> QED BY <1>1, <1>6, <2>1, <2>2, <2>3, <2>4 DEF Parse, SendToNobody
<1>7. ASSUME NEW v \in VCPU, SkipScan(v), UNCHANGED <<head, tail, leaver>> PROVE TypeOK'
  <2>1. Scanned(target[v], argv[v]) \in Seq(Word)
    BY <1>1, <1>7, HeadTailProperties DEF SkipScan, Directed, Scanned
  <2> QED BY <1>1, <1>7, <2>1 DEF SkipScan, Goto, TypeOK
<1>8. ASSUME NEW v \in VCPU, Scan(v), UNCHANGED <<head, tail, leaver>> PROVE TypeOK'
  <2>1. /\ pc' = [pc EXCEPT ![v] = "act"] /\ UNCHANGED <<sent, target>>
        /\ fault' \in {"none", "plugin", "getopt", "strtol"}
    BY <1>1, <1>8 DEF Scan, getopt, Goto
  <2>2. excuse' \in [VCPU -> SUBSET {"buf", "getopt", "optind"}]
    BY <1>1, <1>8 DEF Scan
  <2> QED BY <1>1, <1>8, <2>1, <2>2, ScanKeepsTypes DEF TypeOK
<1>9. ASSUME NEW v \in VCPU, Act(v) PROVE TypeOK'
  <2>1. /\ optind' \in Nat /\ leaver' \in Loaded \cup {"none"}
        /\ fault' \in {"none", "plugin", "getopt", "strtol"} /\ UNCHANGED <<head, tail, excuse>>
    BY <1>1, <1>9 DEF Act
  <2> QED BY <1>1, <1>9, <2>1, ReturnKeepsTypes DEF Act, TypeOK
<1> HIDE DEF Step
<1> QED BY <1>2, <1>3, <1>4, <1>5, <1>6, <1>7, <1>8, <1>9, Zenon
        DEF Next, Control, Refuse, CopyFails, PrintText, Aborted

LEMMA TypeInit == Init => TypeOK
<1>1. <<>> \in Seq(Word) /\ "" \in Word
  BY EmptySeq DEF Word
<1> SUFFICES ASSUME Init PROVE TypeOK
  OBVIOUS
<1>2. argv \in [VCPU -> Seq(Word)] /\ opts \in [VCPU -> SUBSET Seq(Word)]
  BY <1>1 DEF Init
<1>3. /\ pc \in [VCPU -> {"guest", "copy", "rest", "parse", "print", "scan", "act"}]
      /\ sent \in [VCPU -> Commands \cup {<<>>}]
      /\ target \in [VCPU -> Loaded \cup {"none"}]
      /\ excuse \in [VCPU -> SUBSET {"buf", "getopt", "optind"}]
  BY DEF Init
<1>4. head = "" /\ tail = <<>> /\ optind = 1 /\ leaver = "none" /\ fault = "none"
  BY DEF Init
<1> QED BY <1>1, <1>2, <1>3, <1>4 DEF TypeOK

\* Command lines are sequences of words, wherever they are copied and however
\* getopt moves them about.
THEOREM HypershTypeCorrect == Spec => []TypeOK
BY TypeInit, TypeInductive, PTL DEF Spec

(***************************************************************************)
(* getopt and optind.  Between the scan of a command and its action optind *)
(* is that command's own: another scan excuses both, and an action that    *)
(* sets optind back belongs to a plugin that has scanned.                  *)
(***************************************************************************)
\* A command at its action that has scanned its words: pmem does for a start only.
Scanner(v) ==
  pc[v] = "act" /\ (target[v] = "pmem" /\ argv[v] # <<>> => Head(argv[v]) = "start")

Dispatched ==
  /\ \A v \in VCPU : pc[v] \in {"scan", "act"} => target[v] \in Loaded
  /\ \A v \in VCPU : pc[v] # "act" => opts[v] = {}

\* Beyond its first position, optind is left behind by mcount or belongs to a
\* command that is still to act.
PositionOwned == optind > 1 /\ leaver # "mcount" => \E v \in VCPU : Scanner(v)

OneScan == \A u, v \in VCPU : u # v /\ Scanner(u) /\ Scanner(v) => excuse[u] # {}

GetoptExcused == fault = "getopt" => \E v \in VCPU : pc[v] = "act" /\ excuse[v] # {}

ScanInv == Dispatched /\ PositionOwned /\ OneScan /\ GetoptExcused /\ ActsAsAlone

\* A step of a vCPU that is in no plugin's control.
Elsewhere(v) ==
  /\ pc[v] # "act" /\ pc'[v] # "act"
  /\ pc'[v] = "scan" => target'[v] \in Loaded
  /\ opts'[v] = opts[v] \/ opts'[v] = {}
  /\ UNCHANGED <<optind, leaver>> /\ (fault = "none" /\ fault' \in {"none", "plugin"})
  /\ \A u \in VCPU : u # v =>
       /\ pc'[u] = pc[u] /\ sent'[u] = sent[u] /\ target'[u] = target[u]
       /\ argv'[u] = argv[u] /\ opts'[u] = opts[u]
       /\ pc[u] = "act" => excuse'[u] = excuse[u]

LEMMA ElsewhereKeepsScan ==
  ASSUME ScanInv, NEW v \in VCPU, Elsewhere(v)
  PROVE  ScanInv'
<1>1. \A u \in VCPU : /\ Scanner(u)' <=> Scanner(u)
                      /\ pc'[u] = "act" <=> pc[u] = "act"
                      /\ pc'[u] = "act" => u # v /\ excuse'[u] = excuse[u]
  BY DEF Elsewhere, Scanner
<1>2. Dispatched'
  BY DEF ScanInv, Dispatched, Elsewhere
<1>3. PositionOwned'
  BY <1>1 DEF ScanInv, PositionOwned, Elsewhere
<1>4. OneScan'
  BY <1>1 DEF ScanInv, OneScan, Scanner
<1>5. GetoptExcused'
  BY DEF GetoptExcused, Elsewhere
<1>6. ASSUME NEW u \in VCPU, pc'[u] = "act", excuse'[u] = {} PROVE EffectOf(u)' = Alone(sent'[u])
  <2>1. /\ EffectOf(u) = Alone(sent[u])
        /\ target'[u] = target[u] /\ argv'[u] = argv[u] /\ opts'[u] = opts[u]
        /\ optind' = optind /\ sent'[u] = sent[u]
    BY <1>1, <1>6 DEF ScanInv, ActsAsAlone, Elsewhere
  <2> QED BY <2>1 DEF EffectOf
<1> QED BY <1>2, <1>3, <1>4, <1>5, <1>6 DEF ScanInv, ActsAsAlone

LEMMA OthersElsewhere ==
  ASSUME TypeOK, ScanInv, NEW v \in VCPU,
         \/ hypersh_exec(v) \/ CopyHead(v) \/ CopyRest(v) \/ CopyFails(v)
         \/ Parse(v) \/ PrintText(v) \/ (Control(v) /\ Refuse(v))
  PROVE  Elsewhere(v)
<1>1. /\ DOMAIN pc = VCPU /\ DOMAIN sent = VCPU /\ DOMAIN target = VCPU
      /\ DOMAIN argv = VCPU /\ DOMAIN opts = VCPU /\ DOMAIN excuse = VCPU
  BY DEF TypeOK
<1>2. CASE hypersh_exec(v)
  BY <1>1, <1>2 DEF hypersh_exec, Goto, Elsewhere
<1>3. CASE CopyHead(v) \/ CopyRest(v)
  BY <1>1, <1>3 DEF CopyHead, CopyRest, Goto, Disturb, local, Elsewhere
<1>4. ASSUME NEW from, from # "act", Return(v, from),
             fault' \in {fault, "plugin"}, UNCHANGED <<optind, leaver, excuse>>
      PROVE  Elsewhere(v)
  BY <1>1, <1>4 DEF Return, Goto, Elsewhere
<1>5. CASE Parse(v)
  <2>1. CASE Return(v, "parse")
    BY <1>4, <1>5, <2>1 DEF Parse, SendToNobody, Goto, Return, Dispatch
  <2>2. CASE Goto(v, "parse", "print") /\ UNCHANGED local
    BY <1>1, <1>5, <2>2 DEF Parse, SendToNobody, Return, Goto, local, Elsewhere
  <2>3. ASSUME NEW t \in Loaded, NEW words, Dispatch(v, t, words) PROVE Elsewhere(v)
    BY <1>1, <1>5, <2>3 DEF Parse, SendToNobody, Return, Dispatch, Goto, Elsewhere
  <2> QED BY <1>5, <2>1, <2>2, <2>3 DEF Parse, SendToNobody
<1> QED BY <1>2, <1>3, <1>4, <1>5 DEF CopyFails, PrintText, Control, Refuse

\* pmem acts on its first word, wherever getopt has stopped.
LEMMA PmemIgnoresPosition ==
  ASSUME NEW words, NEW n, NEW m, NEW found
  PROVE  EffectOn("pmem", words, n, found) = EffectOn("pmem", words, m, found)
BY DEF EffectOn

LEMMA PmemStarts ==
  ASSUME NEW v \in VCPU, target[v] = "pmem"
  PROVE  EffectOf(v).verb = "start" <=> argv[v] = <<>> \/ Head(argv[v]) = "start"
<1>1. EffectOf(v) = PmemEffect(argv[v], opts[v])
  BY DEF EffectOf, EffectOn
<1> QED BY <1>1 DEF PmemEffect, Effect, Nothing

LEMMA AloneByScan ==
  ASSUME NEW line, NEW t \in Loaded, t = Addressee(line), Directed(t, Given(line)),
         NEW words, words = Scanned(t, Given(line))
  PROVE  /\ Scans(t, words) /\ words # <<>> =>
              Alone(line) = EffectOn(t, Permuted(t, words, 1).front \o Permuted(t, words, 1).plain,
                                     Len(Permuted(t, words, 1).front), Found(t, words, 1))
         /\ ~ (Scans(t, words) /\ words # <<>>) => Alone(line) = EffectOn(t, words, 1, {})
BY DEF Alone

\* A pmem command other than a start acts without a scan.
LEMMA SkipKeepsScan ==
  ASSUME TypeOK, BufInv, ScanInv, NEW v \in VCPU, SkipScan(v), UNCHANGED <<head, tail, leaver>>
  PROVE  ScanInv'
<1> DEFINE words == Scanned(target[v], argv[v])
<1>1. /\ DOMAIN pc = VCPU /\ DOMAIN argv = VCPU
      /\ pc[v] = "scan" /\ pc' = [pc EXCEPT ![v] = "act"] /\ argv' = [argv EXCEPT ![v] = words]
      /\ UNCHANGED <<sent, target, opts, optind, excuse, fault, leaver>> /\ fault = "none"
  BY DEF SkipScan, Goto, TypeOK
<1>2. /\ target[v] = "pmem" /\ words # <<>> /\ Head(words) # "start"
      /\ Directed(target[v], argv[v])
  BY DEF SkipScan, Scans
<1> HIDE DEF words
<1>3. ~ Scanner(v)' /\ \A u \in VCPU : u # v => (Scanner(u)' <=> Scanner(u))
  BY <1>1, <1>2 DEF Scanner
<1>4. ~ Scanner(v)
  BY <1>1 DEF Scanner
<1>5. Dispatched'
  BY <1>1 DEF ScanInv, Dispatched
<1>6. PositionOwned' /\ OneScan'
  BY <1>1, <1>3, <1>4 DEF ScanInv, PositionOwned, OneScan
<1>7. GetoptExcused'
  BY <1>1 DEF GetoptExcused
<1>8. ASSUME NEW u \in VCPU, pc'[u] = "act", excuse'[u] = {} PROVE EffectOf(u)' = Alone(sent'[u])
  <2>1. CASE u # v
    <3>1. EffectOf(u) = Alone(sent[u]) /\ argv'[u] = argv[u]
      BY <1>1, <1>8, <2>1 DEF ScanInv, ActsAsAlone
    <3> QED BY <1>1, <3>1 DEF EffectOf
  <2>2. CASE u = v
    <3>1. Delivered(sent[v], target[v], argv[v])
      BY <1>1, <1>8, <2>2 DEF BufInv, Own
    <3>2. target[v] \in Loaded /\ opts[v] = {}
      BY <1>1 DEF ScanInv, Dispatched
    <3>3. Alone(sent[v]) = EffectOn("pmem", words, 1, {})
      BY <1>2, <3>1, <3>2, AloneByScan DEF Delivered, words, Scans
    <3>4. EffectOf(v)' = EffectOn("pmem", words, optind, {})
      BY <1>1, <1>2, <3>2 DEF EffectOf
    <3> QED BY <1>1, <2>2, <3>3, <3>4, PmemIgnoresPosition
  <2> QED BY <2>1, <2>2
<1> QED BY <1>5, <1>6, <1>7, <1>8 DEF ScanInv, ActsAsAlone

\* A scan that is not excused starts at the first word, and what it leaves is
\* what it would leave alone.
LEMMA ScanKeepsScan ==
  ASSUME TypeOK, BufInv, ScanInv, NEW v \in VCPU, Scan(v), UNCHANGED <<head, tail, leaver>>
  PROVE  ScanInv'
<1> DEFINE words  == Scanned(target[v], argv[v])
           sorted == Permuted(target[v], words, Position)
           raced  == {u \in VCPU \ {v} : pc[u] = "act"}
<1>1. /\ DOMAIN pc = VCPU /\ argv \in [VCPU -> Seq(Word)] /\ DOMAIN opts = VCPU
      /\ optind \in Nat
  BY DEF TypeOK
<1>2. /\ pc[v] = "scan" /\ pc' = [pc EXCEPT ![v] = "act"] /\ fault = "none"
      /\ UNCHANGED <<sent, target, leaver>>
      /\ Directed(target[v], argv[v]) /\ Scans(target[v], words)
  BY DEF Scan, Goto
<1>3. \A u \in VCPU : /\ u \in raced => excuse'[u] # {} /\ excuse'[v] # {}
                      /\ excuse'[u] = {} => excuse[u] = {}
                      /\ u # v /\ u \notin raced => excuse'[u] = excuse[u]
  <2>1. excuse' = [u \in VCPU |->
           excuse[u]
           \cup (IF raced # {} /\ u \in raced \cup {v} THEN {"getopt"} ELSE {})
           \cup (IF u = v /\ optind > 1 /\ leaver = "mcount" THEN {"optind"} ELSE {})]
    BY DEF Scan
  <2> HIDE DEF raced
  <2> QED BY <2>1
<1>4. excuse'[v] = {} => ~ (optind > 1 /\ leaver = "mcount")
  BY DEF Scan
<1>5. words \in Seq(Word) /\ Len(words) \in Nat
  BY <1>1, <1>2, HeadTailProperties, LenProperties DEF Scanned, Directed
<1>6. Position \in Nat \ {0}
  BY <1>1 DEF Position
<1>7. target[v] \in Loaded /\ opts[v] = {}
  BY <1>2 DEF ScanInv, Dispatched
<1>8. \/ /\ Position \in 1 .. Len(words)
         /\ argv' = [argv EXCEPT ![v] = sorted.front \o sorted.plain]
         /\ opts' = [opts EXCEPT ![v] = Found(target[v], words, Position)]
         /\ optind' = Len(sorted.front)
         /\ fault' = fault
      \/ /\ Position > Len(words)
         /\ argv' = [argv EXCEPT ![v] = words] /\ opts' = opts /\ optind' = optind
         /\ fault' \in {"none", "getopt"} /\ (words = <<>> => fault' = "none")
  <2>1. CASE Position <= Len(words)
    <3>1. ~ (Position > Len(words)) /\ Position \in 1 .. Len(words)
      BY <1>5, <1>6, <2>1
    <3> QED BY <3>1, Zenon DEF Scan, getopt
  <2>2. CASE Position > Len(words)
    <3>1. ~ (Position <= Len(words))
      BY <1>5, <1>6, <2>2
    <3>2. /\ fault' \in {"none"} \cup (IF words = <<>> THEN {} ELSE {"getopt"})
          /\ argv' = [argv EXCEPT ![v] = words] /\ opts' = opts /\ optind' = optind
      BY <3>1, Zenon DEF Scan, getopt
    <3> QED BY <2>2, <3>2
  <2>3. Position <= Len(words) \/ Position > Len(words)
    BY <1>5, <1>6
  <2> HIDE DEF words, sorted
  <2> QED BY <2>1, <2>2, <2>3, Zenon
<1>9. Scanner(v)'
  <2>1. target[v] = "pmem" /\ words # <<>> => Head(words) = "start"
    BY <1>2 DEF Scans
  <2>2. ASSUME Position \in 1 .. Len(words)
        PROVE  Head(sorted.front \o sorted.plain) = Head(words) /\ words # <<>>
    <3> HIDE DEF words
    <3>1. words # <<>>
      BY <2>2, EmptySeq
    <3> QED BY <1>5, <2>2, <3>1, PermutedType
  <2> HIDE DEF words, sorted
  <2> QED BY <1>1, <1>2, <1>8, <2>1, <2>2 DEF Scanner
<1>10. \A u \in VCPU : u # v => /\ pc'[u] = pc[u] /\ argv'[u] = argv[u] /\ opts'[u] = opts[u]
                                /\ Scanner(u)' <=> Scanner(u)
  <2> HIDE DEF words, sorted
  <2> QED BY <1>1, <1>2, <1>8 DEF Scanner
<1>11. Dispatched'
  BY <1>1, <1>2, <1>7, <1>10 DEF ScanInv, Dispatched
<1>12. PositionOwned'
  BY <1>9 DEF PositionOwned
<1>13. OneScan'
  <2> SUFFICES ASSUME NEW u \in VCPU, NEW w \in VCPU, u # w, Scanner(u)', Scanner(w)'
               PROVE  excuse'[u] # {}
    BY DEF OneScan
  <2>1. CASE u = v \/ w = v
    BY <1>3, <1>10, <2>1 DEF Scanner
  <2>2. CASE u # v /\ w # v
    BY <1>3, <1>10, <2>2 DEF ScanInv, OneScan
  <2> QED BY <2>1, <2>2
<1>14. ASSUME excuse'[v] = {} PROVE Position = 1
  <2>1. \A u \in VCPU : pc[u] # "act"
    BY <1>2, <1>3, <1>14
  <2>2. ~ (optind > 1)
    BY <1>4, <1>14, <2>1 DEF ScanInv, PositionOwned, Scanner
  <2> QED BY <1>1, <2>2 DEF Position
<1>15. GetoptExcused'
  <2> SUFFICES ASSUME fault' = "getopt" PROVE excuse'[v] # {}
    BY <1>1, <1>2 DEF GetoptExcused
  <2>1. Position > Len(words) /\ words # <<>>
    BY <1>2, <1>8
  <2>2. Len(words) # 0
    BY <1>5, <2>1, EmptySeq
  <2> QED BY <1>5, <1>14, <2>1, <2>2
<1>16. ASSUME NEW u \in VCPU, pc'[u] = "act", excuse'[u] = {} PROVE EffectOf(u)' = Alone(sent'[u])
  <2>1. u = v
    BY <1>3, <1>10, <1>16
  <2>2. Position = 1
    BY <1>14, <1>16, <2>1
  <2>3. Delivered(sent[v], target[v], argv[v])
    BY <1>2, <1>3, <1>16, <2>1 DEF BufInv, Own
  <2>4. CASE words # <<>>
    <3>1. Position \in 1 .. Len(words)
      BY <1>5, <2>2, <2>4, EmptySeq
    <3>2. ~ (Position > Len(words))
      BY <1>5, <3>1
    <3>3. EffectOf(v)' = EffectOn(target[v], sorted.front \o sorted.plain, Len(sorted.front),
                                  Found(target[v], words, Position))
      BY <1>1, <1>2, <1>8, <3>2, Zenon DEF EffectOf
    <3>4. Alone(sent[v]) = EffectOn(target[v], sorted.front \o sorted.plain, Len(sorted.front),
                                    Found(target[v], words, Position))
      BY <1>2, <1>7, <2>2, <2>3, <2>4, AloneByScan DEF Delivered
    <3> QED BY <1>2, <2>1, <3>3, <3>4
  <2>5. CASE words = <<>>
    <3>1. target[v] = "pmem"
      BY <1>2, <2>5 DEF Scanned, Directed
    <3>2. ~ (Position \in 1 .. Len(words))
      BY <1>5, <2>5, EmptySeq
    <3>3. argv' = [argv EXCEPT ![v] = words] /\ opts' = opts
      BY <1>8, <3>2, Zenon
    <3>4. argv'[v] = <<>> /\ opts'[v] = {}
      BY <1>1, <1>7, <2>5, <3>3
    <3>5. EffectOf(v)' = EffectOn("pmem", <<>>, optind', {})
      BY <1>2, <3>1, <3>4 DEF EffectOf
    <3>6. Alone(sent[v]) = EffectOn("pmem", <<>>, 1, {})
      BY <1>2, <1>7, <2>3, <2>5, <3>1, AloneByScan DEF Delivered
    <3> QED BY <1>2, <2>1, <3>5, <3>6, PmemIgnoresPosition
  <2> QED BY <2>4, <2>5
<1> QED BY <1>11, <1>12, <1>13, <1>15, <1>16 DEF ScanInv, ActsAsAlone

\* An action sets optind back only if its command has scanned, so no other
\* command is at its action that reads it; and mcount alone leaves it behind.
LEMMA ActKeepsScan ==
  ASSUME TypeOK, ScanInv, NEW v \in VCPU, Act(v)
  PROVE  ScanInv'
<1>1. /\ DOMAIN pc = VCPU /\ DOMAIN sent = VCPU /\ DOMAIN target = VCPU
      /\ DOMAIN argv = VCPU /\ DOMAIN opts = VCPU /\ optind \in Nat
  BY DEF TypeOK
<1>2. /\ pc[v] = "act" /\ pc'[v] = "guest" /\ opts'[v] = {} /\ fault = "none"
      /\ optind' = (IF SetsBack(v) THEN 0 ELSE optind)
      /\ leaver' = (IF optind' <= 1 THEN "none" ELSE IF target[v] = "pmem" THEN leaver ELSE target[v])
      /\ fault' \in {"none", "strtol"} /\ excuse' = excuse
  BY <1>1 DEF Act, Return, Goto
<1>3. \A u \in VCPU : u # v => /\ pc'[u] = pc[u] /\ sent'[u] = sent[u] /\ target'[u] = target[u]
                               /\ argv'[u] = argv[u] /\ opts'[u] = opts[u]
                               /\ Scanner(u)' <=> Scanner(u)
  BY <1>1 DEF Act, Return, Goto, Scanner
<1>4. ~ Scanner(v)'
  BY <1>2 DEF Scanner
<1>5. target[v] \in {"trace", "mcount", "pmem", "slomo"}
  BY <1>2, PluginAssumption DEF ScanInv, Dispatched
<1>6. SetsBack(v) => Scanner(v)
  BY <1>2, <1>5, PmemStarts DEF SetsBack, Scanner
<1>7. Scanner(v) /\ ~ SetsBack(v) => target[v] = "mcount"
  BY <1>2, <1>5, PmemStarts DEF SetsBack, Scanner
<1>8. Dispatched'
  BY <1>2, <1>3 DEF ScanInv, Dispatched
<1>9. PositionOwned'
  <2> SUFFICES ASSUME optind' > 1, leaver' # "mcount" PROVE \E u \in VCPU : Scanner(u)'
    BY DEF PositionOwned
  <2>1. ~ SetsBack(v) /\ optind' = optind /\ ~ (optind' <= 1)
    BY <1>1, <1>2
  <2>2. target[v] = "pmem" /\ leaver' = leaver
    BY <1>2, <1>5, <2>1 DEF SetsBack
  <2>3. PICK u \in VCPU : Scanner(u)
    BY <2>1, <2>2 DEF ScanInv, PositionOwned
  <2>4. u # v
    BY <1>7, <2>1, <2>2, <2>3
  <2> QED BY <1>3, <2>3, <2>4
<1>10. OneScan'
  BY <1>2, <1>3, <1>4 DEF ScanInv, OneScan
<1>11. GetoptExcused'
  BY <1>2 DEF GetoptExcused
<1>12. ASSUME NEW u \in VCPU, pc'[u] = "act", excuse'[u] = {} PROVE EffectOf(u)' = Alone(sent'[u])
  <2>1. u # v /\ EffectOf(u) = Alone(sent[u])
    BY <1>2, <1>3, <1>12 DEF ScanInv, ActsAsAlone
  <2>2. CASE ~ SetsBack(v)
    BY <1>2, <1>3, <2>1, <2>2 DEF EffectOf
  <2>3. CASE SetsBack(v)
    <3>1. ~ Scanner(u)
      BY <1>2, <1>6, <1>12, <2>1, <2>3 DEF ScanInv, OneScan
    <3>2. target[u] = "pmem"
      BY <1>3, <1>12, <2>1, <3>1 DEF Scanner
    <3>3. /\ EffectOf(u) = EffectOn("pmem", argv[u], optind, opts[u])
          /\ EffectOf(u)' = EffectOn("pmem", argv[u], optind', opts[u])
      BY <1>3, <2>1, <3>2 DEF EffectOf
    <3>4. EffectOf(u)' = EffectOf(u)
      BY <3>3, PmemIgnoresPosition
    <3> QED BY <1>3, <2>1, <3>4
  <2> QED BY <2>2, <2>3
<1> QED BY <1>8, <1>9, <1>10, <1>11, <1>12 DEF ScanInv, ActsAsAlone

LEMMA ScanInvInductive == TypeOK /\ BufInv /\ ScanInv /\ [Next]_vars => ScanInv'
<1> SUFFICES ASSUME TypeOK, BufInv, ScanInv, [Next]_vars PROVE ScanInv'
  OBVIOUS
<1>1. CASE UNCHANGED vars
  <2>1. UNCHANGED <<pc, sent, target, argv, opts, optind, leaver, excuse, fault>>
    BY <1>1 DEF vars, local
  <2> QED BY <2>1 DEF ScanInv, Dispatched, PositionOwned, OneScan, GetoptExcused, Scanner,
                      ActsAsAlone, EffectOf
<1>2. ASSUME NEW v \in VCPU,
             \/ hypersh_exec(v) \/ CopyHead(v) \/ CopyRest(v) \/ CopyFails(v)
             \/ Parse(v) \/ PrintText(v) \/ (Control(v) /\ Refuse(v))
      PROVE  ScanInv'
  BY <1>2, OthersElsewhere, ElsewhereKeepsScan
<1>3. ASSUME NEW v \in VCPU, Control(v) PROVE ScanInv'
  BY <1>2, <1>3, SkipKeepsScan, ScanKeepsScan DEF Control
<1> QED BY <1>1, <1>2, <1>3, ActKeepsScan, Zenon DEF Next, Aborted

LEMMA AllInit == Init => TypeOK /\ BufInv /\ ScanInv
<1>1. Init => BufInv
  BY DEF Init, BufInv, TextTypes, Own
<1>2. ASSUME Init PROVE ScanInv
  <2>1. \A v \in VCPU : pc[v] = "guest" /\ opts[v] = {}
    BY <1>2 DEF Init
  <2>2. optind = 1 /\ fault = "none"
    BY <1>2 DEF Init
  <2> QED BY <2>1, <2>2 DEF ScanInv, Dispatched, PositionOwned, OneScan, GetoptExcused, Scanner,
                      ActsAsAlone
<1> QED BY <1>1, <1>2, TypeInit

\* The static buffer and the global optind couple the commands of all vCPUs and
\* plugins, but only in the ways that excuse lists: any other command does what
\* it would do in a QEMU that executes no other.
THEOREM InterferenceTheorem == Spec => []ActsAsAlone
<1>1. ScanInv => ActsAsAlone
  BY DEF ScanInv
<1> QED BY <1>1, AllInit, TypeInductive, BufInvInductive, ScanInvInductive, PTL DEF Spec

LEMMA MeantAndSafe ==
  ASSUME AsWritten, TypeOK, BufInv, ScanInv
  PROVE  ActsAsWritten /\ FailsOnlyDisturbed
<1>1. ASSUME NEW v \in VCPU, pc[v] = "act", excuse[v] = {}
      PROVE  /\ sent[v] \in Commands /\ target[v] = Addressee(sent[v])
             /\ EffectOf(v) = Alone(sent[v])
  <2>1. sent[v] # <<>> /\ target[v] = Addressee(sent[v])
    BY <1>1 DEF BufInv, Own
  <2>2. sent[v] \in Commands
    BY <2>1 DEF TypeOK
  <2> QED BY <1>1, <2>1, <2>2 DEF ScanInv, ActsAsAlone
<1>2. ActsAsWritten
  BY <1>1 DEF ActsAsWritten, AsWritten
<1>3. ASSUME NEW v \in VCPU, pc[v] = "act", NoMagic(v), excuse[v] = {}
      PROVE  Meaning[sent[v]] = Nothing
  <2>1. /\ target[v] = "trace"
        /\ Has(argv[v], optind, 0) /\ At(argv[v], optind, 0) = "magic"
        /\ ~ Has(argv[v], optind, 1)
    BY <1>3 DEF NoMagic
  <2>2. EffectOf(v) = TraceEffect(argv[v], optind, opts[v])
    BY <2>1 DEF EffectOf, EffectOn
  <2>3. EffectOf(v) = Nothing
    BY <2>1, <2>2 DEF TraceEffect
  <2>4. Head(sent[v]) # "mcount"
    BY <1>1, <1>3, <2>1 DEF Addressee
  <2> QED BY <1>1, <1>3, <2>3, <2>4 DEF AsWritten
<1>4. FailsOnlyDisturbed
  BY <1>3 DEF FailsOnlyDisturbed, ScanInv, GetoptExcused
<1> QED BY <1>2, <1>4

\* So a plugin does what a command line asks for, and its control does not fail
\* on one that asks for something, if the line asks for what it does alone.
THEOREM MeaningTheorem ==
  ASSUME AsWritten
  PROVE  Spec => [](ActsAsWritten /\ FailsOnlyDisturbed)
<1>1. TypeOK /\ BufInv /\ ScanInv => ActsAsWritten /\ FailsOnlyDisturbed
  BY MeantAndSafe
<1> QED BY <1>1, AllInit, TypeInductive, BufInvInductive, ScanInvInductive, PTL DEF Spec
=============================================================================
