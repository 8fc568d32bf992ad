------------------------------ MODULE Hypersh ------------------------------
(***************************************************************************)
(* From a guest's command line to a plugin: the guest library and shell    *)
(* (src/guest), the dispatcher (src/host/hypersh.cc) and the               *)
(* qemu_plugin_control of each plugin.  The guest passes a string with a   *)
(* system call; the dispatcher copies it to one static buffer that all     *)
(* vCPUs share, splits it into words and hands them to the plugin that the *)
(* first word names; the plugin scans them with getopt, whose position     *)
(* optind is one global of the QEMU process, and acts on the words from    *)
(* optind on.                                                              *)
(***************************************************************************)
EXTENDS Naturals, Sequences, SequencesExt, FiniteSets

CONSTANTS
  VCPU,      \* vCPUs
  Meaning,   \* the command lines of the guest, sequences of words, each with
             \* the effect it asks for
  Flags,     \* words that are an option complete in itself (-k, -a5)
  Loaded     \* the plugins QEMU has loaded

ASSUME PluginAssumption == Loaded \subseteq {"trace", "mcount", "pmem", "slomo"}
ASSUME CommandAssumption == DOMAIN Meaning \subseteq Seq(STRING) \ {<<>>}

Commands == DOMAIN Meaning

\* Options that take the next word as their argument, from the option strings
\* of the plugins.  (The "t" of mcount's switch is not in its string.)
Valued(t) ==
  CASE t = "trace" -> {"-d"}
    [] t = "mcount" -> {"-f", "-a", "-m"}
    [] t = "pmem" -> {"-f", "-i"}
    [] t = "slomo" -> {"-r"}

VARIABLES
  pc,      \* where each vCPU thread is in vcpu_syscall_cb
  sent,    \* the command of its system call
  target,  \* the plugin it was dispatched to
  argv,    \* its words, as getopt leaves them
  opts,    \* the options getopt found among them
  head, tail,  \* buf: its first word and the rest
  optind,  \* getopt's position
  leaver,  \* history: the plugin that last left optind beyond 1
  excuse,  \* history: what disturbed the command of each vCPU
  fault    \* how QEMU failed

local == <<sent, target, argv, opts>>
vars  == <<pc, local, head, tail, optind, leaver, excuse, fault>>

Word == (UNION {ToSet(c) : c \in Commands}) \cup {""}
Nothing == [verb |-> "nothing", args |-> <<>>, opts |-> {}]

TypeOK ==
  /\ pc \in [VCPU -> {"guest", "copy", "rest", "parse", "print", "scan", "act"}]
  /\ sent \in [VCPU -> Commands \cup {<<>>}]
  /\ target \in [VCPU -> Loaded \cup {"none"}]
  /\ argv \in [VCPU -> Seq(Word)]
  /\ opts \in [VCPU -> SUBSET Seq(Word)]
  /\ excuse \in [VCPU -> SUBSET {"buf", "getopt", "optind"}]
  /\ head \in Word /\ tail \in Seq(Word)
  /\ optind \in Nat
  /\ leaver \in Loaded \cup {"none"}
  /\ fault \in {"none", "plugin", "getopt", "strtol"}

Init ==
  /\ pc = [v \in VCPU |-> "guest"]
  /\ sent = [v \in VCPU |-> <<>>] /\ target = [v \in VCPU |-> "none"]
  /\ argv = [v \in VCPU |-> <<>>] /\ opts = [v \in VCPU |-> {}]
  /\ head = "" /\ tail = <<>>
  /\ optind = 1 /\ leaver = "none"
  /\ excuse = [v \in VCPU |-> {}]
  /\ fault = "none"

Goto(v, from, to) == fault = "none" /\ pc[v] = from /\ pc' = [pc EXCEPT ![v] = to]

\* The other vCPUs in the steps S are disturbed by this one.
Disturb(v, S, why) ==
  excuse' = [u \in VCPU |-> IF u # v /\ pc[u] \in S THEN excuse[u] \cup {why}
                                                    ELSE excuse[u]]

(***************************************************************************)
(* The guest.                                                              *)
(***************************************************************************)
\* hypersh_exec, from the library's helpers or from the shell: at the end of
\* its input the shell sends its last line again, an empty one at first.
hypersh_exec(v) ==
  /\ Goto(v, "guest", "copy")
  /\ \E c \in Commands \cup {<<>>} : sent' = [sent EXCEPT ![v] = c]
  /\ excuse' = [excuse EXCEPT ![v] = {}]
  /\ UNCHANGED <<target, argv, opts, head, tail, optind, leaver, fault>>

Return(v, from) ==
  /\ Goto(v, from, "guest")
  /\ sent' = [sent EXCEPT ![v] = <<>>] /\ target' = [target EXCEPT ![v] = "none"]
  /\ argv' = [argv EXCEPT ![v] = <<>>] /\ opts' = [opts EXCEPT ![v] = {}]

(***************************************************************************)
(* vcpu_syscall_cb of the dispatcher.                                      *)
(***************************************************************************)
\* The copy into buf takes time; two steps are enough to tear it.
CopyHead(v) ==
  /\ Goto(v, "copy", "rest")
  /\ head' = IF sent[v] = <<>> THEN "" ELSE Head(sent[v])
  /\ Disturb(v, {"rest", "parse", "print"}, "buf")
  /\ UNCHANGED <<local, tail, optind, leaver, fault>>

CopyRest(v) ==
  /\ Goto(v, "rest", "parse")
  /\ tail' = IF sent[v] = <<>> THEN <<>> ELSE Tail(sent[v])
  /\ Disturb(v, {"rest", "parse", "print"}, "buf")
  /\ UNCHANGED <<local, head, optind, leaver, fault>>

Mutant_CopyFails(v) ==
  /\ Goto(v, "copy", "parse")
  /\ UNCHANGED <<local, head, tail, optind, leaver, excuse, fault>>

\* The guest's memory cannot be read.
CopyFails(v) ==
  /\ Return(v, "copy")
  /\ UNCHANGED <<head, tail, optind, leaver, excuse, fault>>

\* An empty line does not parse; "p" prints the line; "debug" addresses pmem
\* with the remaining words; any other first word must name a loaded plugin.
Words == <<head>> \o tail

Dispatch(v, t, words) ==
  /\ Goto(v, "parse", "scan")
  /\ target' = [target EXCEPT ![v] = t]
  /\ argv' = [argv EXCEPT ![v] = words]
  /\ UNCHANGED <<sent, opts>>

Mutant_Parse(v) ==
  /\ \/ head = "" /\ Return(v, "parse")
     \/ head # "" /\ Dispatch(v, head, Words)
  /\ UNCHANGED <<head, tail, optind, leaver, excuse, fault>>

\* "debug" does not look whether pmem was found: without it QEMU is given the
\* id of no plugin, which it may report or not survive.
SendToNobody(v) ==
  /\ head = "debug" /\ "pmem" \notin Loaded
  /\ Return(v, "parse")
  /\ fault' \in {"none", "plugin"}

Parse(v) ==
  /\ \/ /\ \/ head \notin Loaded \cup {"p", "debug"} /\ Return(v, "parse")
           \/ head = "p" /\ Goto(v, "parse", "print") /\ UNCHANGED local
           \/ head = "debug" /\ "pmem" \in Loaded /\ Dispatch(v, "pmem", tail)
           \/ head \in Loaded /\ Dispatch(v, head, Words)
        /\ UNCHANGED fault
     \/ SendToNobody(v)
  /\ UNCHANGED <<head, tail, optind, leaver, excuse>>

PrintText(v) ==
  /\ Return(v, "print")
  /\ UNCHANGED <<head, tail, optind, leaver, excuse, fault>>

(***************************************************************************)
(* getopt, as GNU libc does it: scan from position n, move what is not an  *)
(* option to the end, and stop at the first of those words.  Positions     *)
(* count from 0, as in argv.                                               *)
(***************************************************************************)
Position == IF optind = 0 THEN 1 ELSE optind

\* The word at position i is the argument of the option before it.
IsArgument(t, words, n) ==
  LET arg[i \in n .. Len(words)] ==
        i > n /\ words[i] \in Valued(t) /\ ~arg[i - 1]
  IN  arg

IsOption(t, words, n, i) ==
  words[i + 1] \in Valued(t) \cup Flags /\ ~IsArgument(t, words, n)[i]

\* The words from position n on that are neither options nor arguments.
IsPlain(t, words, n, i) ==
  ~IsArgument(t, words, n)[i] /\ ~IsOption(t, words, n, i)

\* The words at the positions in S, in their order.
Nth(S, k) == CHOOSE i \in S : Cardinality({j \in S : j <= i}) = k

WordsAt(words, S) == [k \in 1 .. Cardinality(S) |-> words[Nth(S, k) + 1]]

Permuted(t, words, n) ==
  LET all   == n .. Len(words) - 1
      plain == {i \in all : IsPlain(t, words, n, i)}
  IN  [front |-> SubSeq(words, 1, n) \o WordsAt(words, all \ plain),
       plain |-> WordsAt(words, plain)]

\* An option with its argument; one that lacks it is reported and dropped.
Found(t, words, n) ==
  {<<words[i + 1]>> : i \in {j \in n .. Len(words) - 1 :
      IsOption(t, words, n, j) /\ words[j + 1] \in Flags}}
  \cup
  {<<words[i + 1], words[i + 2]>> : i \in {j \in n .. Len(words) - 2 :
      IsOption(t, words, n, j) /\ words[j + 1] \in Valued(t)}}

(***************************************************************************)
(* qemu_plugin_control, first half: pmem drops its own name, and scans     *)
(* only for a start; the other plugins scan every command.                 *)
(***************************************************************************)
Scanned(t, given) == IF t = "pmem" THEN Tail(given) ELSE given

Directed(t, given) == given # <<>> /\ Head(given) = t

Scans(t, words) == t = "pmem" /\ words # <<>> => Head(words) = "start"

Refuse(v) ==
  /\ Return(v, "scan")
  /\ ~Directed(target[v], argv[v])
  /\ UNCHANGED <<optind, excuse, fault>>

SkipScan(v) ==
  /\ Goto(v, "scan", "act")
  /\ Directed(target[v], argv[v]) /\ ~Scans(target[v], Scanned(target[v], argv[v]))
  /\ argv' = [argv EXCEPT ![v] = Scanned(target[v], argv[v])]
  /\ UNCHANGED <<sent, target, opts, optind, excuse, fault>>

\* Past the end of the words getopt reads what lies behind argv: it crashes, or
\* finds nothing.  With no word at all it finds nothing.
getopt(v) ==
  LET words  == Scanned(target[v], argv[v])
      n      == Position
      sorted == Permuted(target[v], words, n)
  IN  \/ /\ n <= Len(words)
         /\ argv' = [argv EXCEPT ![v] = sorted.front \o sorted.plain]
         /\ opts' = [opts EXCEPT ![v] = Found(target[v], words, n)]
         /\ optind' = Len(sorted.front)
         /\ UNCHANGED fault
      \/ /\ n > Len(words)
         /\ fault' \in {"none"} \cup (IF words = <<>> THEN {} ELSE {"getopt"})
         /\ argv' = [argv EXCEPT ![v] = words]
         /\ UNCHANGED <<opts, optind>>

Scan(v) ==
  /\ Goto(v, "scan", "act")
  /\ Directed(target[v], argv[v]) /\ Scans(target[v], Scanned(target[v], argv[v]))
  /\ getopt(v)
  /\ LET raced == {u \in VCPU \ {v} : pc[u] = "act"}
     IN  excuse' = [u \in VCPU |->
           excuse[u]
           \cup (IF raced # {} /\ u \in raced \cup {v} THEN {"getopt"} ELSE {})
           \cup (IF u = v /\ optind > 1 /\ leaver = "mcount" THEN {"optind"} ELSE {})]
  /\ UNCHANGED <<sent, target>>

Control(v) ==
  /\ Refuse(v) \/ SkipScan(v) \/ Scan(v)
  /\ UNCHANGED <<head, tail, leaver>>

(***************************************************************************)
(* qemu_plugin_control, second half: the words at optind.                  *)
(***************************************************************************)
Effect(verb, args, found) == [verb |-> verb, args |-> args, opts |-> found]

\* The word k places after the position n, and whether it is there.
Has(words, n, k) == n + k < Len(words)
At(words, n, k)  == words[n + k + 1]

TraceEffect(words, n, found) ==
  LET has(k) == Has(words, n, k)
      at(k)  == At(words, n, k)
  IN  IF ~has(0) \/ at(0) = "start" THEN Effect("start", <<>>, found)
      ELSE IF at(0) = "mode" /\ has(1) THEN Effect("mode", <<at(1)>>, found)
      ELSE IF at(0) \in {"stop", "reset"} THEN Effect(at(0), <<>>, found)
      ELSE IF at(0) = "gmm" /\ has(3) THEN Effect("gmm", <<at(1), at(2), at(3)>>, found)
      ELSE IF at(0) = "magic" /\ has(1) THEN Effect("magic", <<at(1)>>, found)
      ELSE Nothing

\* mcount tag fails: -t is no option, so the argument is always missing.
StartOrStop(words, n, found) ==
  IF ~Has(words, n, 0) \/ At(words, n, 0) = "start" THEN Effect("start", <<>>, found)
  ELSE IF At(words, n, 0) = "stop" THEN Effect("stop", <<>>, found)
  ELSE Nothing

PmemEffect(words, found) ==
  IF words = <<>> \/ Head(words) = "start" THEN Effect("start", <<>>, found)
  ELSE IF Head(words) = "stop" THEN Effect("stop", <<>>, found)
  ELSE Nothing

EffectOn(t, words, n, found) ==
  CASE t = "trace" -> TraceEffect(words, n, found)
    [] t = "pmem" -> PmemEffect(words, found)
    [] OTHER -> StartOrStop(words, n, found)

EffectOf(v) == EffectOn(target[v], argv[v], optind, opts[v])

\* trace and slomo set optind back, pmem does after a start, mcount only when
\* it fails.
Mutant_SetsBack_trace(v) ==
  \/ target[v] = "slomo"
  \/ target[v] = "mcount" /\ EffectOf(v) = Nothing
  \/ target[v] = "pmem" /\ EffectOf(v).verb = "start"

Mutant_SetsBack_pmem(v) ==
  \/ target[v] \in {"trace", "slomo"}
  \/ target[v] = "mcount" /\ EffectOf(v) = Nothing

Mutant_SetsBack(v) ==
  \/ target[v] = "trace"
  \/ target[v] \in {"slomo", "mcount"} /\ EffectOf(v) = Nothing
  \/ target[v] = "pmem" /\ EffectOf(v).verb = "start"

SetsBack(v) ==
  \/ target[v] \in {"trace", "slomo"}
  \/ target[v] = "mcount" /\ EffectOf(v) = Nothing
  \/ target[v] = "pmem" /\ EffectOf(v).verb = "start"

\* "trace magic" hands the word behind it to strtol, which may not be there.
NoMagic(v) ==
  /\ target[v] = "trace"
  /\ Has(argv[v], optind, 0) /\ At(argv[v], optind, 0) = "magic"
  /\ ~Has(argv[v], optind, 1)

Act(v) ==
  /\ Return(v, "act")
  /\ optind' = IF SetsBack(v) THEN 0 ELSE optind
  /\ leaver' = IF optind' <= 1 THEN "none"
               ELSE IF target[v] = "pmem" THEN leaver ELSE target[v]
  /\ fault' = IF NoMagic(v) THEN "strtol" ELSE fault
  /\ UNCHANGED <<head, tail, excuse>>

Aborted == fault # "none" /\ UNCHANGED vars

Next ==
  \/ \E v \in VCPU :
       \/ hypersh_exec(v)
       \/ CopyHead(v) \/ CopyRest(v) \/ CopyFails(v)
       \/ Parse(v) \/ PrintText(v)
       \/ Control(v)
       \/ Act(v)
  \/ Aborted

Spec == Init /\ [][Next]_vars

(***************************************************************************)
(* Properties.                                                             *)
(***************************************************************************)
\* The plugin a line addresses, and the words that it gets.
Addressee(line) == IF Head(line) = "debug" THEN "pmem" ELSE Head(line)
Given(line)     == IF Head(line) = "debug" THEN Tail(line) ELSE line

\* A plugin gets the words, and "p" prints the text, that the guest thread of
\* this very vCPU sent, unless another vCPU wrote to buf in between; in
\* particular a line that could not be read does not run an earlier one.
RunsWhatWasSent ==
  \A v \in VCPU : "buf" \notin excuse[v] =>
    /\ pc[v] = "scan" => sent[v] # <<>> /\ argv[v] = Given(sent[v])
    /\ pc[v] = "print" => Words = sent[v]

\* What a line does as the only one that this QEMU ever executes.
Alone(line) ==
  LET t      == Addressee(line)
      words  == Scanned(t, Given(line))
      sorted == Permuted(t, words, 1)
  IN  IF t \notin Loaded \/ ~Directed(t, Given(line)) THEN Nothing
      ELSE IF Scans(t, words) /\ words # <<>>
           THEN EffectOn(t, sorted.front \o sorted.plain, Len(sorted.front),
                         Found(t, words, 1))
      ELSE EffectOn(t, words, 1, {})

\* A command does what it would do alone, whatever commands came before and run
\* meanwhile, except that: buf was overwritten, two getopt scans overlapped, or
\* an mcount command that succeeded had left optind behind.
ActsAsAlone ==
  \A v \in VCPU : pc[v] = "act" /\ excuse[v] = {} => EffectOf(v) = Alone(sent[v])

\* What the guest means by its command lines: each asks for what it does alone,
\* except mcount's tag, which never works.
AsWritten ==
  \A line \in Commands :
    \/ Alone(line) = Meaning[line]
    \/ Head(line) = "mcount" /\ Meaning[line].verb = "tag"

\* With the same exceptions a plugin does what the command line asks for, with
\* the options it names; but mcount's tag never works.
ActsAsWritten ==
  \A v \in VCPU :
    pc[v] = "act" /\ excuse[v] = {} /\ fault = "none" =>
      EffectOf(v) = Meaning[sent[v]] \/ Meaning[sent[v]].verb = "tag"

\* A plugin's control only fails on a command that asks for nothing, or that was
\* disturbed in one of those ways.
FailsOnlyDisturbed ==
  /\ fault = "getopt" => \E v \in VCPU : pc[v] = "act" /\ excuse[v] # {}
  /\ \A v \in VCPU : pc[v] = "act" /\ NoMagic(v) =>
       excuse[v] # {} \/ Meaning[sent[v]] = Nothing
=============================================================================
