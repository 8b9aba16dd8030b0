--------------------------- MODULE OperatorLemmas ---------------------------
(***************************************************************************)
(* What the proofs keep needing about the operators of RingBuffer and      *)
(* TrafficControl: which commands a call runs, one after the other, and    *)
(* what the kernel holds in between, with and without failures.            *)
(***************************************************************************)
EXTENDS RingBuffer, TrafficControl, SequenceTheorems, TLAPS

-----------------------------------------------------------------------------
(* Ring buffers. *)

\* A buffer has at least one slot: there is no index into an empty array.
LEMMA BufferSize ==
    ASSUME NEW S, NEW n \in Int, NEW b \in Buffers(n, S)
    PROVE  n \in Nat \ {0} /\ b.size = n
BY DEF Buffers

\* A new buffer of at least one slot is a buffer; a cleared one is new.
LEMMA NewBufferType ==
    ASSUME NEW S, 0 \in S, NEW n \in Nat \ {0}
    PROVE  NewBuffer(n) \in Buffers(n, S)
BY DEF NewBuffer, Buffers

LEMMA ClearType ==
    ASSUME NEW S, 0 \in S, NEW n \in Int, NEW b \in Buffers(n, S)
    PROVE  Clear(b) \in Buffers(n, S)
BY BufferSize, NewBufferType DEF Clear

\* push keeps the next index inside the array.
LEMMA PushType ==
    ASSUME NEW S, NEW n \in Int, NEW b \in Buffers(n, S), NEW delta \in S
    PROVE  Push(b, delta) \in Buffers(n, S)
<1>1. n \in Nat \ {0} /\ b.size = n
  BY BufferSize
<1>2. b.idx \in 0 .. n - 1 /\ b.filled \in 0 .. n /\ b.slots \in [0 .. n - 1 -> S]
  BY DEF Buffers
<1>3. Advance(b) \in 0 .. n - 1
  BY <1>1, <1>2 DEF Advance
<1>4. [b.slots EXCEPT ![b.idx] = delta] \in [0 .. n - 1 -> S]
  BY <1>2
<1>5. (IF b.filled < b.size THEN b.filled + 1 ELSE b.filled) \in 0 .. n
  BY <1>1, <1>2
<1> QED
  BY <1>1, <1>3, <1>4, <1>5 DEF Push, Buffers

-----------------------------------------------------------------------------
(* A call that is partly done. *)

\* todo is what is left of the commands of a call.
Rest(todo, commands) ==
    /\ Len(todo) \in 0 .. Len(commands)
    /\ \A i \in 1 .. Len(todo) : todo[i] = commands[Len(commands) - Len(todo) + i]

\* How many of them have been run.
Done(todo, commands) == Len(commands) - Len(todo)

LEMMA WholeIsRest ==
    ASSUME NEW R, NEW commands \in Seq(R)
    PROVE  /\ Rest(commands, commands) /\ Done(commands, commands) = 0
           /\ Len(commands) # 0 => commands # << >>
<1>1. Rest(commands, commands) /\ Done(commands, commands) = 0
  BY DEF Rest, Done
<1>2. Len(<< >>) = 0
  OBVIOUS
<1>3. Len(commands) # 0 => commands # << >>
  BY <1>2, Zenon
<1> QED
  BY <1>1, <1>3

LEMMA EmptyIsRest ==
    ASSUME NEW R, NEW commands \in Seq(R)
    PROVE  Rest(<< >>, commands) /\ Done(<< >>, commands) = Len(commands)
BY DEF Rest, Done

\* The next command is the first one that has not been run.
LEMMA NextCommand ==
    ASSUME NEW R, NEW commands \in Seq(R), NEW todo \in Seq(R), todo # << >>,
           Rest(todo, commands)
    PROVE  /\ Done(todo, commands) \in 0 .. Len(commands) - 1
           /\ Head(todo) = commands[Done(todo, commands) + 1]
           /\ Tail(todo) \in Seq(R)
           /\ Rest(Tail(todo), commands)
           /\ Done(Tail(todo), commands) = Done(todo, commands) + 1
<1>1. Len(todo) \in Nat \ {0} /\ Len(commands) \in Nat
  OBVIOUS
<1>2. Head(todo) = todo[1] /\ Tail(todo) \in Seq(R) /\ Len(Tail(todo)) = Len(todo) - 1
  BY <1>1
<1>3. \A i \in 1 .. Len(todo) - 1 : Tail(todo)[i] = todo[i + 1]
  BY <1>1
<1> QED
  BY <1>1, <1>2, <1>3 DEF Rest, Done

-----------------------------------------------------------------------------
(* The commands of the calls. *)

\* Short sequences, so that the calls below need not be taken apart.
LEMMA NineSequences ==
    ASSUME NEW S, NEW a1 \in S, NEW a2 \in S, NEW a3 \in S, NEW a4 \in S, NEW a5 \in S,
           NEW a6 \in S, NEW a7 \in S, NEW a8 \in S, NEW a9 \in S
    PROVE  LET s == << a1, a2, a3, a4, a5, a6, a7, a8, a9 >> IN
           /\ s \in Seq(S) /\ Len(s) = 9
           /\ s[1] = a1 /\ s[2] = a2 /\ s[3] = a3 /\ s[4] = a4 /\ s[5] = a5
           /\ s[6] = a6 /\ s[7] = a7 /\ s[8] = a8 /\ s[9] = a9
OBVIOUS

LEMMA FourSequences ==
    ASSUME NEW S, NEW a1 \in S, NEW a2 \in S, NEW a3 \in S, NEW a4 \in S
    PROVE  LET s == << a1, a2, a3, a4 >> IN
           /\ s \in Seq(S) /\ Len(s) = 4
           /\ s[1] = a1 /\ s[2] = a2 /\ s[3] = a3 /\ s[4] = a4
OBVIOUS

LEMMA TwoSequences ==
    ASSUME NEW S, NEW a1 \in S, NEW a2 \in S
    PROVE  LET s == << a1, a2 >> IN
           s \in Seq(S) /\ Len(s) = 2 /\ s[1] = a1 /\ s[2] = a2
OBVIOUS

\* Four elements of s, then nine of t.
LEMMA FourAndNine ==
    ASSUME NEW S, NEW s \in Seq(S), NEW t \in Seq(S), Len(s) = 4, Len(t) = 9
    PROVE  /\ s \o t \in Seq(S) /\ Len(s \o t) = 13
           /\ \A i \in 1 .. 13 : (s \o t)[i] = IF i <= 4 THEN s[i] ELSE t[i - 4]
<1>1. /\ s \o t \in Seq(S) /\ Len(s \o t) = Len(s) + Len(t)
      /\ \A i \in 1 .. Len(s) + Len(t) :
            (s \o t)[i] = IF i <= Len(s) THEN s[i] ELSE t[i - Len(s)]
  BY ConcatProperties, Zenon
<1>2. Len(s) + Len(t) = 13
  OBVIOUS
<1> QED
  BY <1>1, <1>2, Zenon

\* The four commands of tc_cleanup.
LEMMA CleanupCommands ==
    ASSUME NEW R
    PROVE  /\ TcCleanup \in Seq(Commands(R)) /\ Len(TcCleanup) = 4
           /\ TcCleanup[1] = Ignored("del_root", "iface")
           /\ TcCleanup[2] = Ignored("del_ingress", "iface")
           /\ TcCleanup[3] = Ignored("del_root", "ifb0")
           /\ TcCleanup[4] = Ignored("link_down", "ifb0")
<1> DEFINE C == Commands(R)
<1>1. /\ Ignored("del_root", "iface") \in C /\ Ignored("del_ingress", "iface") \in C
      /\ Ignored("del_root", "ifb0") \in C /\ Ignored("link_down", "ifb0") \in C
  BY DEF Ignored, Commands, Verbs, Devices
<1> HIDE DEF C
<1> QED
  BY <1>1, FourSequences DEF TcCleanup, C

\* The two commands of tc_change_rate.
Change(rate) == << ChangeClass("iface", rate), ChangeClass("ifb0", rate) >>

LEMMA ChangeCommands ==
    ASSUME NEW R, NEW rate \in R
    PROVE  /\ Change(rate) \in Seq(Commands(R)) /\ Len(Change(rate)) = 2
           /\ Change(rate)[1] = ChangeClass("iface", rate)
           /\ Change(rate)[2] = ChangeClass("ifb0", rate)
<1> DEFINE C == Commands(R)
<1>1. ChangeClass("iface", rate) \in C /\ ChangeClass("ifb0", rate) \in C
  BY DEF ChangeClass, Commands, Verbs, Devices
<1> HIDE DEF C
<1> QED
  BY <1>1, TwoSequences DEF Change, C

\* What tc_init adds to the four commands it starts with.
Setup(rate) ==
    << Ignored("modprobe", "ifb0"), Ignored("link_add", "ifb0"), Ignored("link_up", "ifb0"),
       Critical("add_root", "iface"), AddClass("iface", rate),
       Ignored("add_ingress", "iface"), Critical("add_redirect", "iface"),
       Critical("add_root", "ifb0"), AddClass("ifb0", rate) >>

LEMMA SetupCommands ==
    ASSUME NEW R, NEW rate \in R
    PROVE  LET s == Setup(rate) IN
           /\ s \in Seq(Commands(R)) /\ Len(s) = 9
           /\ s[1] = Ignored("modprobe", "ifb0") /\ s[2] = Ignored("link_add", "ifb0")
           /\ s[3] = Ignored("link_up", "ifb0") /\ s[4] = Critical("add_root", "iface")
           /\ s[5] = AddClass("iface", rate) /\ s[6] = Ignored("add_ingress", "iface")
           /\ s[7] = Critical("add_redirect", "iface")
           /\ s[8] = Critical("add_root", "ifb0") /\ s[9] = AddClass("ifb0", rate)
<1> DEFINE C == Commands(R)
<1>1. /\ Ignored("modprobe", "ifb0") \in C /\ Ignored("link_add", "ifb0") \in C
      /\ Ignored("link_up", "ifb0") \in C /\ Ignored("add_ingress", "iface") \in C
  BY DEF Ignored, Commands, Verbs, Devices
<1>2. /\ Critical("add_root", "iface") \in C /\ Critical("add_redirect", "iface") \in C
      /\ Critical("add_root", "ifb0") \in C
  BY DEF Critical, Commands, Verbs, Devices
<1>3. AddClass("iface", rate) \in C /\ AddClass("ifb0", rate) \in C
  BY DEF AddClass, Commands, Verbs, Devices
<1> HIDE DEF C
<1> QED
  BY <1>1, <1>2, <1>3, NineSequences DEF Setup, C

\* The thirteen commands of tc_init.
Whole(rate) == TcCleanup \o Setup(rate)

LEMMA InitCommands ==
    ASSUME NEW R, NEW rate \in R
    PROVE  /\ Whole(rate) \in Seq(Commands(R)) /\ Len(Whole(rate)) = 13
           /\ Whole(rate)[1] = Ignored("del_root", "iface")
           /\ Whole(rate)[2] = Ignored("del_ingress", "iface")
           /\ Whole(rate)[3] = Ignored("del_root", "ifb0")
           /\ Whole(rate)[4] = Ignored("link_down", "ifb0")
           /\ Whole(rate)[5] = Ignored("modprobe", "ifb0")
           /\ Whole(rate)[6] = Ignored("link_add", "ifb0")
           /\ Whole(rate)[7] = Ignored("link_up", "ifb0")
           /\ Whole(rate)[8] = Critical("add_root", "iface")
           /\ Whole(rate)[9] = AddClass("iface", rate)
           /\ Whole(rate)[10] = Ignored("add_ingress", "iface")
           /\ Whole(rate)[11] = Critical("add_redirect", "iface")
           /\ Whole(rate)[12] = Critical("add_root", "ifb0")
           /\ Whole(rate)[13] = AddClass("ifb0", rate)
<1>1. TcCleanup \in Seq(Commands(R)) /\ Len(TcCleanup) = 4
  BY CleanupCommands
<1>2. Setup(rate) \in Seq(Commands(R)) /\ Len(Setup(rate)) = 9
  BY SetupCommands
<1> DEFINE C == Commands(R)
           t == Setup(rate)
<1> HIDE DEF C, t
<1>3. /\ TcCleanup \o t \in Seq(C) /\ Len(TcCleanup \o t) = 13
      /\ \A i \in 1 .. 13 : (TcCleanup \o t)[i] = IF i <= 4 THEN TcCleanup[i] ELSE t[i - 4]
  <2>1. TcCleanup \in Seq(C) /\ Len(TcCleanup) = 4 /\ t \in Seq(C) /\ Len(t) = 9
    BY <1>1, <1>2 DEF C, t
  <2> QED
    BY <2>1, FourAndNine, Zenon
<1>4. /\ Whole(rate) \in Seq(Commands(R)) /\ Len(Whole(rate)) = 13
      /\ \A i \in 1 .. 13 :
            Whole(rate)[i] = IF i <= 4 THEN TcCleanup[i] ELSE Setup(rate)[i - 4]
  BY <1>3, Zenon DEF Whole, C, t
<1>5. /\ Whole(rate)[1] = TcCleanup[1] /\ Whole(rate)[2] = TcCleanup[2]
      /\ Whole(rate)[3] = TcCleanup[3] /\ Whole(rate)[4] = TcCleanup[4]
  BY <1>4
<1>6. /\ Whole(rate)[5] = t[1] /\ Whole(rate)[6] = t[2] /\ Whole(rate)[7] = t[3]
      /\ Whole(rate)[8] = t[4] /\ Whole(rate)[9] = t[5] /\ Whole(rate)[10] = t[6]
      /\ Whole(rate)[11] = t[7] /\ Whole(rate)[12] = t[8] /\ Whole(rate)[13] = t[9]
  BY <1>4 DEF t
<1> QED
  BY <1>4, <1>5, <1>6, CleanupCommands, SetupCommands, Zenon DEF t

\* A dry call runs nothing, any other one all of its commands.
LEMMA CallCommands ==
    ASSUME NEW rate, NEW dry_run
    PROVE  /\ TcInit(rate, dry_run) = IF dry_run THEN << >> ELSE Whole(rate)
           /\ TcChangeRate(rate, dry_run) = IF dry_run THEN << >> ELSE Change(rate)
BY DEF TcInit, TcChangeRate, Whole, Setup, Change

-----------------------------------------------------------------------------
(* The kernel between two commands. *)

LEMMA EffectType ==
    ASSUME NEW R, NEW k \in KernelStates(R), NEW c \in Commands(R)
    PROVE  Effect(k, c) \in KernelStates(R)
BY DEF Effect, KernelStates, Commands, Verbs, Devices, NoQdisc, NoClass

\* When the kernel k accepts a command c.
Accepts(k, c) ==
    /\ c.verb = "del_root" => k.root[c.dev] # NoQdisc
    /\ c.verb = "del_ingress" => k.ingress # "none"
    /\ c.verb = "link_add" => ~Exists(k, c.dev)
    /\ c.verb = "link_up" \/ c.verb = "link_down" => Exists(k, c.dev)
    /\ c.verb = "add_root" => Exists(k, c.dev) /\ k.root[c.dev] = NoQdisc
    /\ c.verb = "add_class" => k.root[c.dev] = NoClass
    /\ c.verb = "change_class" => k.root[c.dev] > NoClass
    /\ c.verb = "add_ingress" => k.ingress = "none"
    /\ c.verb = "add_redirect" => k.ingress # "none" /\ Exists(k, "ifb0")

LEMMA WorksAccepts ==
    ASSUME NEW k, NEW c, c.verb \in Verbs
    PROVE  Works(k, c) <=> Accepts(k, c)
<1>1. CASE c.verb \in {"del_root", "del_ingress", "modprobe"}
  BY <1>1 DEF Works, Accepts
<1>2. CASE c.verb \in {"link_add", "link_up", "link_down"}
  BY <1>2 DEF Works, Accepts
<1>3. CASE c.verb \in {"add_root", "add_class", "change_class"}
  BY <1>3 DEF Works, Accepts
<1>4. CASE c.verb \in {"add_ingress", "add_redirect"}
  BY <1>4 DEF Works, Accepts
<1> QED
  BY <1>1, <1>2, <1>3, <1>4 DEF Verbs

\* What a command c makes of each field of k.
SameBut(k, c, e) ==
    /\ \A d \in Devices : d # c.dev => e.root[d] = k.root[d]
    /\ c.verb = "del_root" => e.root[c.dev] = NoQdisc
    /\ c.verb = "add_root" => e.root[c.dev] = NoClass
    /\ c.verb \in {"add_class", "change_class"} => e.root[c.dev] = c.rate
    /\ c.verb \notin {"del_root", "add_root", "add_class", "change_class"} =>
          e.root = k.root
    /\ c.verb = "del_ingress" => e.ingress = "none"
    /\ c.verb = "add_ingress" => e.ingress = "qdisc"
    /\ c.verb = "add_redirect" => e.ingress = "redirect"
    /\ c.verb \notin {"del_ingress", "add_ingress", "add_redirect"} =>
          e.ingress = k.ingress
    /\ c.verb = "modprobe" => e.link = IF k.link = "missing" THEN "down" ELSE k.link
    /\ c.verb \in {"link_add", "link_down"} => e.link = "down"
    /\ c.verb = "link_up" => e.link = "up"
    /\ c.verb \notin {"modprobe", "link_add", "link_down", "link_up"} =>
          e.link = k.link

LEMMA EffectFields ==
    ASSUME NEW R, NEW k \in KernelStates(R), NEW c \in Commands(R)
    PROVE  SameBut(k, c, Effect(k, c))
<1>1. k.root \in [Devices -> {NoQdisc, NoClass} \cup R] /\ c.dev \in Devices /\ c.verb \in Verbs
  BY DEF KernelStates, Commands
<1>2. CASE c.verb \in {"modprobe", "link_add", "link_down", "link_up"}
  BY <1>1, <1>2 DEF SameBut, Effect, KernelStates
<1>3. CASE c.verb \in {"del_ingress", "add_ingress", "add_redirect"}
  BY <1>1, <1>3 DEF SameBut, Effect, KernelStates
<1>4. CASE c.verb \in {"del_root", "add_root", "add_class", "change_class"}
  BY <1>1, <1>4 DEF SameBut, Effect, KernelStates, Devices
<1> QED
  BY <1>1, <1>2, <1>3, <1>4 DEF Verbs

\* No command leaves rules on a device that does not exist.
LEMMA EffectPossible ==
    ASSUME NEW R, NEW k \in KernelStates(R), NEW c \in Commands(R), Possible(k), Works(k, c)
    PROVE  Possible(Effect(k, c))
<1> DEFINE after == Effect(k, c)
<1>1. k.root \in [Devices -> {NoQdisc, NoClass} \cup R] /\ c.dev \in Devices /\ c.verb \in Verbs
  BY DEF KernelStates, Commands
<1>2. CASE c.verb \in {"modprobe", "link_add", "link_down", "link_up"}
  BY <1>2 DEF Effect, Possible, KernelStates
<1>3. CASE c.verb \in {"del_ingress", "add_ingress", "add_redirect"}
  BY <1>3 DEF Effect, Possible, KernelStates
<1>4. CASE c.verb = "del_root"
  BY <1>1, <1>4 DEF Effect, Possible, KernelStates, Devices
<1>5. CASE c.verb \in {"add_root", "add_class", "change_class"}
  <2>1. Works(k, c) /\ c.dev = "ifb0" => k.link # "missing"
    <3>1. CASE c.verb = "add_root"
      BY <3>1 DEF Works, Exists
    <3>2. CASE c.verb = "add_class"
      <4>1. k.root[c.dev] = 0
        BY <3>2 DEF Works, NoClass
      <4> QED
        BY <4>1 DEF Possible, NoQdisc
    <3>3. CASE c.verb = "change_class"
      <4>1. k.root[c.dev] > 0
        BY <3>3 DEF Works, NoClass
      <4> QED
        BY <4>1 DEF Possible, NoQdisc
    <3> QED
      BY <1>5, <3>1, <3>2, <3>3
  <2>2. after.link = k.link /\ (c.dev # "ifb0" => after.root["ifb0"] = k.root["ifb0"])
    BY <1>1, <1>5 DEF Effect, KernelStates, Devices
  <2> QED
    BY <1>1, <2>1, <2>2 DEF Possible, Devices
<1> QED
  BY <1>1, <1>2, <1>3, <1>4, <1>5 DEF Verbs

\* A command, and what happens when it fails.
Warns(c, verb, dev) == c.verb = verb /\ c.dev = dev /\ ~c.critical
Raises(c, verb, dev) == c.verb = verb /\ c.dev = dev /\ c.critical

LEMMA CommandFields ==
    ASSUME NEW verb, NEW dev, NEW rate
    PROVE  /\ Warns(Ignored(verb, dev), verb, dev)
           /\ Warns(ChangeClass(dev, rate), "change_class", dev)
           /\ Raises(Critical(verb, dev), verb, dev)
           /\ Raises(AddClass(dev, rate), "add_class", dev)
           /\ AddClass(dev, rate).rate = rate /\ ChangeClass(dev, rate).rate = rate
BY DEF Warns, Raises, Ignored, Critical, AddClass, ChangeClass

\* The command that is next after done commands of tc_init.
InitNext(c, done, rate) ==
    /\ done = 0 => Warns(c, "del_root", "iface")
    /\ done = 1 => Warns(c, "del_ingress", "iface")
    /\ done = 2 => Warns(c, "del_root", "ifb0")
    /\ done = 3 => Warns(c, "link_down", "ifb0")
    /\ done = 4 => Warns(c, "modprobe", "ifb0")
    /\ done = 5 => Warns(c, "link_add", "ifb0")
    /\ done = 6 => Warns(c, "link_up", "ifb0")
    /\ done = 7 => Raises(c, "add_root", "iface")
    /\ done = 8 => Raises(c, "add_class", "iface") /\ c.rate = rate
    /\ done = 9 => Warns(c, "add_ingress", "iface")
    /\ done = 10 => Raises(c, "add_redirect", "iface")
    /\ done = 11 => Raises(c, "add_root", "ifb0")
    /\ done = 12 => Raises(c, "add_class", "ifb0") /\ c.rate = rate

LEMMA InitTable ==
    ASSUME NEW R, NEW rate \in R, NEW done \in 0 .. 12
    PROVE  InitNext(Whole(rate)[done + 1], done, rate)
<1> DEFINE s == Whole(rate)
<1>0. /\ s[1] = Ignored("del_root", "iface") /\ s[2] = Ignored("del_ingress", "iface")
      /\ s[3] = Ignored("del_root", "ifb0") /\ s[4] = Ignored("link_down", "ifb0")
      /\ s[5] = Ignored("modprobe", "ifb0") /\ s[6] = Ignored("link_add", "ifb0")
      /\ s[7] = Ignored("link_up", "ifb0") /\ s[8] = Critical("add_root", "iface")
      /\ s[9] = AddClass("iface", rate) /\ s[10] = Ignored("add_ingress", "iface")
      /\ s[11] = Critical("add_redirect", "iface") /\ s[12] = Critical("add_root", "ifb0")
      /\ s[13] = AddClass("ifb0", rate)
  BY InitCommands
<1>1. /\ Warns(s[1], "del_root", "iface")
      /\ Warns(s[2], "del_ingress", "iface")
      /\ Warns(s[3], "del_root", "ifb0")
      /\ Warns(s[4], "link_down", "ifb0")
      /\ Warns(s[5], "modprobe", "ifb0")
      /\ Warns(s[6], "link_add", "ifb0")
      /\ Warns(s[7], "link_up", "ifb0")
      /\ Raises(s[8], "add_root", "iface")
      /\ Raises(s[9], "add_class", "iface") /\ s[9].rate = rate
      /\ Warns(s[10], "add_ingress", "iface")
      /\ Raises(s[11], "add_redirect", "iface")
      /\ Raises(s[12], "add_root", "ifb0")
      /\ Raises(s[13], "add_class", "ifb0") /\ s[13].rate = rate
  BY <1>0, CommandFields
<1>2. InitNext(s[done + 1], done, rate)
  <2> HIDE DEF s
  <2> QED
    BY <1>1 DEF InitNext
<1> QED
  BY <1>2

\* What holds after the first done commands of tc_init even if some that are ignored fail.
Secured(k, done, rate) ==
    /\ done = 8 => k.root["iface"] = NoClass
    /\ done >= 9 => k.root["iface"] = rate
    /\ done >= 11 => k.ingress = "redirect"
    /\ done = 12 => k.root["ifb0"] = NoClass
    /\ done >= 13 => k.root["ifb0"] = rate

\* What holds besides if every command that can work does.
Prepared(k, done) ==
    /\ done \in 1 .. 7 => k.root["iface"] = NoQdisc
    /\ done \in 2 .. 9 => k.ingress = "none"
    /\ done = 10 => k.ingress = "qdisc"
    /\ done \in 3 .. 11 => k.root["ifb0"] = NoQdisc
    /\ done >= 5 => k.link # "missing"
    /\ done >= 7 => k.link = "up"

\* What holds after the first done commands of tc_cleanup if every one that can work does.
Stripped(k, done) ==
    /\ done >= 1 => k.root["iface"] = NoQdisc
    /\ done >= 2 => k.ingress = "none"
    /\ done >= 3 => k.root["ifb0"] = NoQdisc
    /\ done >= 4 => k.link # "up"

\* A command of tc_init that works secures its part of the rules.
LEMMA SecuredWorks ==
    ASSUME NEW rate, NEW done \in 0 .. 12, NEW c, InitNext(c, done, rate),
           NEW k, NEW e, SameBut(k, c, e), Secured(k, done, rate)
    PROVE  Secured(e, done + 1, rate)
<1> USE DEF Secured, SameBut, InitNext, Devices
<1>1. CASE done \in 0 .. 6
  BY <1>1
<1>2. CASE done = 7
  BY <1>2 DEF Raises
<1>3. CASE done = 8
  BY <1>3 DEF Raises
<1>4. CASE done = 9
  BY <1>4 DEF Warns
<1>5. CASE done = 10
  BY <1>5 DEF Raises
<1>6. CASE done = 11
  BY <1>6 DEF Raises
<1>7. CASE done = 12
  BY <1>7 DEF Raises
<1> QED
  BY <1>1, <1>2, <1>3, <1>4, <1>5, <1>6, <1>7

\* One that is skipped with a warning had nothing to secure.
LEMMA SecuredSkipped ==
    ASSUME NEW rate, NEW done \in 0 .. 12, NEW c, InitNext(c, done, rate), ~c.critical,
           NEW k, Secured(k, done, rate)
    PROVE  Secured(k, done + 1, rate)
BY DEF Secured, InitNext, Raises

\* A command of tc_init that works prepares the next ones.
LEMMA PreparedWorks ==
    ASSUME NEW rate, NEW done \in 0 .. 12, NEW c, InitNext(c, done, rate),
           NEW k, NEW e, SameBut(k, c, e), Prepared(k, done)
    PROVE  Prepared(e, done + 1)
<1> USE DEF Prepared, SameBut, InitNext, Devices
<1>1. CASE done \in 0 .. 2
  BY <1>1 DEF Warns
<1>2. CASE done \in 3 .. 6
  BY <1>2 DEF Warns
<1>3. CASE done \in 7 .. 8
  BY <1>3 DEF Raises
<1>4. CASE done = 9
  BY <1>4 DEF Warns
<1>5. CASE done \in 10 .. 12
  BY <1>5 DEF Raises
<1> QED
  BY <1>1, <1>2, <1>3, <1>4, <1>5

\* One that cannot work found what it is for already there.
LEMMA PreparedSkipped ==
    ASSUME NEW R, NEW rate, NEW done \in 0 .. 12, NEW c, InitNext(c, done, rate), ~c.critical,
           NEW k \in KernelStates(R), ~Accepts(k, c), Prepared(k, done)
    PROVE  Prepared(k, done + 1)
<1> USE DEF Prepared, Accepts, InitNext, Warns, Raises
<1>1. CASE done \in 0 .. 2
  BY <1>1 DEF KernelStates
<1>2. CASE done \in 3 .. 6
  BY <1>2 DEF Exists
<1>3. CASE done \in 7 .. 12
  BY <1>3
<1> QED
  BY <1>1, <1>2, <1>3

\* What is secured and prepared lets every critical command work.
LEMMA CriticalWorks ==
    ASSUME NEW rate, NEW done \in 0 .. 12, NEW c, InitNext(c, done, rate), c.critical,
           NEW k, Secured(k, done, rate), Prepared(k, done)
    PROVE  Accepts(k, c)
<1> USE DEF Prepared, Secured, Accepts, Exists, InitNext
<1>1. CASE done \in 0 .. 6
  BY <1>1 DEF Warns
<1>2. CASE done = 9
  BY <1>2 DEF Warns
<1>3. CASE done \in {7, 8, 10, 11, 12}
  BY <1>3 DEF Raises
<1> QED
  BY <1>1, <1>2, <1>3

\* What holds after a whole tc_init, without failures also the last part.
LEMMA SecuredAll ==
    ASSUME NEW rate, NEW k, Secured(k, 13, rate)
    PROVE  k.root["iface"] = rate /\ k.root["ifb0"] = rate /\ k.ingress = "redirect"
BY DEF Secured

-----------------------------------------------------------------------------
(* A call between two of its commands. *)

\* tc_init to rate, of which todo is left.
InitCall(k, todo, rate) ==
    Rest(todo, Whole(rate)) /\ Secured(k, Done(todo, Whole(rate)), rate)

\* No command of it has failed that could have worked.
InitUnharmed(k, todo, rate) == Prepared(k, Done(todo, Whole(rate)))

LEMMA NextOfInit ==
    ASSUME NEW R, NEW rate \in R, NEW todo \in Seq(Commands(R)), todo # << >>,
           Rest(todo, Whole(rate))
    PROVE  LET w == Whole(rate) IN
           /\ Done(todo, w) \in 0 .. 12 /\ InitNext(Head(todo), Done(todo, w), rate)
           /\ Rest(Tail(todo), w) /\ Done(Tail(todo), w) = Done(todo, w) + 1
<1> DEFINE C == Commands(R)
           w == Whole(rate)
<1>1. w \in Seq(C) /\ Len(w) = 13
  BY InitCommands
<1>2. todo \in Seq(C) /\ todo # << >> /\ Rest(todo, w)
  OBVIOUS
<1>3. \A n \in 0 .. 12 : InitNext(w[n + 1], n, rate)
  BY InitTable
<1> HIDE DEF C, w
<1>4. /\ Done(todo, w) \in 0 .. Len(w) - 1 /\ Head(todo) = w[Done(todo, w) + 1]
      /\ Rest(Tail(todo), w) /\ Done(Tail(todo), w) = Done(todo, w) + 1
  BY <1>1, <1>2, NextCommand
<1>5. InitNext(Head(todo), Done(todo, w), rate)
  BY <1>1, <1>3, <1>4
<1> QED
  BY <1>1, <1>4, <1>5 DEF w

LEMMA InitWorks ==
    ASSUME NEW R, NEW rate \in R, NEW k \in KernelStates(R),
           NEW todo \in Seq(Commands(R)), todo # << >>,
           InitCall(k, todo, rate)
    PROVE  LET e == Effect(k, Head(todo)) IN
           /\ InitCall(e, Tail(todo), rate)
           /\ InitUnharmed(k, todo, rate) => InitUnharmed(e, Tail(todo), rate)
<1> DEFINE w == Whole(rate)
           n == Done(todo, w)
           c == Head(todo)
           e == Effect(k, c)
<1>1. /\ n \in 0 .. 12 /\ InitNext(c, n, rate)
      /\ Rest(Tail(todo), w) /\ Done(Tail(todo), w) = n + 1
  BY NextOfInit DEF InitCall
<1>2. SameBut(k, c, e)
  <2>1. c \in Commands(R)
    OBVIOUS
  <2> QED
    BY <2>1, EffectFields
<1>3. Secured(k, n, rate)
  BY DEF InitCall
<1> HIDE DEF n, c, e
<1>4. Secured(e, n + 1, rate)
  BY <1>1, <1>2, <1>3, SecuredWorks
<1>5. Prepared(k, n) => Prepared(e, n + 1)
  BY <1>1, <1>2, PreparedWorks
<1> QED
  BY <1>1, <1>4, <1>5 DEF InitCall, InitUnharmed, n, c, e

LEMMA InitSkipped ==
    ASSUME NEW R, NEW rate \in R, NEW k \in KernelStates(R),
           NEW todo \in Seq(Commands(R)), todo # << >>,
           InitCall(k, todo, rate), ~Head(todo).critical
    PROVE  /\ InitCall(k, Tail(todo), rate)
           /\ InitUnharmed(k, todo, rate) /\ ~Works(k, Head(todo)) =>
                 InitUnharmed(k, Tail(todo), rate)
<1> DEFINE w == Whole(rate)
           n == Done(todo, w)
           c == Head(todo)
<1>1. /\ n \in 0 .. 12 /\ InitNext(c, n, rate)
      /\ Rest(Tail(todo), w) /\ Done(Tail(todo), w) = n + 1
  BY NextOfInit DEF InitCall
<1>2. Secured(k, n, rate)
  BY DEF InitCall
<1>3. Works(k, c) <=> Accepts(k, c)
  <2>1. c \in Commands(R)
    OBVIOUS
  <2>2. c.verb \in Verbs
    BY <2>1 DEF Commands
  <2> QED
    BY <2>2, WorksAccepts
<1>4. ~c.critical
  OBVIOUS
<1> HIDE DEF n, c
<1>5. Secured(k, n + 1, rate)
  BY <1>1, <1>2, <1>4, SecuredSkipped
<1>6. Prepared(k, n) /\ ~Accepts(k, c) => Prepared(k, n + 1)
  BY <1>1, <1>4, PreparedSkipped
<1> QED
  BY <1>1, <1>3, <1>5, <1>6 DEF InitCall, InitUnharmed, n, c

LEMMA InitNeverRaises ==
    ASSUME NEW R, NEW rate \in R, NEW k \in KernelStates(R),
           NEW todo \in Seq(Commands(R)), todo # << >>,
           InitCall(k, todo, rate), InitUnharmed(k, todo, rate), Head(todo).critical
    PROVE  Works(k, Head(todo))
<1> DEFINE n == Done(todo, Whole(rate))
           c == Head(todo)
<1>1. n \in 0 .. 12 /\ InitNext(c, n, rate)
  BY NextOfInit DEF InitCall
<1>2. Secured(k, n, rate) /\ Prepared(k, n)
  BY DEF InitCall, InitUnharmed
<1>3. c.verb \in Verbs /\ c.critical
  <2>1. c \in Commands(R)
    OBVIOUS
  <2> QED
    BY <2>1 DEF Commands
<1> HIDE DEF n, c
<1>4. Works(k, c)
  BY <1>1, <1>2, <1>3, CriticalWorks, WorksAccepts
<1> QED
  BY <1>4 DEF c

\* A tc_init that has run all its commands.
LEMMA InitOver ==
    ASSUME NEW R, NEW rate \in R, NEW k \in KernelStates(R), NEW todo, todo = << >>,
           InitCall(k, todo, rate)
    PROVE  /\ \A d \in Devices : k.root[d] = rate
           /\ k.ingress = "redirect"
           /\ InitUnharmed(k, todo, rate) => k.link = "up"
<1>1. Done(todo, Whole(rate)) = 13
  <2>1. Len(Whole(rate)) = 13
    BY InitCommands
  <2> QED
    BY <2>1 DEF Done
<1>2. k.root["iface"] = rate /\ k.root["ifb0"] = rate /\ k.ingress = "redirect"
  BY <1>1, SecuredAll DEF InitCall
<1>3. \A d \in Devices : k.root[d] = rate
  BY <1>2 DEF Devices
<1>4. InitUnharmed(k, todo, rate) => k.link = "up"
  BY <1>1 DEF InitUnharmed, Prepared
<1> QED
  BY <1>2, <1>3, <1>4

\* tc_cleanup, of which todo is left; unharmed if nothing failed that could have worked.
CleanupCall(todo) == Rest(todo, TcCleanup)
CleanupUnharmed(k, todo) == Stripped(k, Done(todo, TcCleanup))

\* The command that is next after done commands of tc_cleanup.
CleanupNext(c, done) ==
    /\ done = 0 => Warns(c, "del_root", "iface")
    /\ done = 1 => Warns(c, "del_ingress", "iface")
    /\ done = 2 => Warns(c, "del_root", "ifb0")
    /\ done = 3 => Warns(c, "link_down", "ifb0")

LEMMA NextOfCleanup ==
    ASSUME NEW R, NEW todo \in Seq(Commands(R)), todo # << >>, CleanupCall(todo)
    PROVE  LET w == TcCleanup IN
           /\ Done(todo, w) \in 0 .. 3 /\ CleanupNext(Head(todo), Done(todo, w))
           /\ Rest(Tail(todo), w) /\ Done(Tail(todo), w) = Done(todo, w) + 1
<1> DEFINE C == Commands(R)
           w == TcCleanup
<1>1. w \in Seq(C) /\ Len(w) = 4
  BY CleanupCommands
<1>2. todo \in Seq(C) /\ todo # << >> /\ Rest(todo, w)
  BY DEF CleanupCall
<1>3. /\ Warns(w[1], "del_root", "iface") /\ Warns(w[2], "del_ingress", "iface")
      /\ Warns(w[3], "del_root", "ifb0") /\ Warns(w[4], "link_down", "ifb0")
  BY CleanupCommands, CommandFields
<1> HIDE DEF C, w
<1>4. \A n \in 0 .. 3 : CleanupNext(w[n + 1], n)
  BY <1>3 DEF CleanupNext
<1>5. /\ Done(todo, w) \in 0 .. Len(w) - 1 /\ Head(todo) = w[Done(todo, w) + 1]
      /\ Rest(Tail(todo), w) /\ Done(Tail(todo), w) = Done(todo, w) + 1
  BY <1>1, <1>2, NextCommand
<1>6. CleanupNext(Head(todo), Done(todo, w))
  BY <1>1, <1>4, <1>5
<1> QED
  BY <1>1, <1>5, <1>6 DEF w

LEMMA CleanupGoesOn ==
    ASSUME NEW R, NEW k \in KernelStates(R), NEW todo \in Seq(Commands(R)), todo # << >>,
           CleanupCall(todo)
    PROVE  /\ CleanupCall(Tail(todo)) /\ ~Head(todo).critical
           /\ CleanupUnharmed(k, todo) => CleanupUnharmed(Effect(k, Head(todo)), Tail(todo))
           /\ CleanupUnharmed(k, todo) /\ ~Works(k, Head(todo)) =>
                 CleanupUnharmed(k, Tail(todo))
<1> DEFINE n == Done(todo, TcCleanup)
           c == Head(todo)
           e == Effect(k, c)
<1>1. /\ n \in 0 .. 3 /\ CleanupNext(c, n)
      /\ Rest(Tail(todo), TcCleanup) /\ Done(Tail(todo), TcCleanup) = n + 1
  BY NextOfCleanup
<1>2. c \in Commands(R)
  OBVIOUS
<1>3. SameBut(k, c, e)
  BY <1>2, EffectFields
<1>4. Works(k, c) <=> Accepts(k, c)
  <2>1. c.verb \in Verbs
    BY <1>2 DEF Commands
  <2> QED
    BY <2>1, WorksAccepts
<1> HIDE DEF n, c, e
<1>5. ~c.critical
  BY <1>1 DEF CleanupNext, Warns
<1>6. Stripped(k, n) => Stripped(e, n + 1)
  BY <1>1, <1>3 DEF CleanupNext, Warns, SameBut, Stripped, Devices
<1>7. Stripped(k, n) /\ ~Accepts(k, c) => Stripped(k, n + 1)
  BY <1>1 DEF CleanupNext, Warns, Accepts, Stripped, Exists, KernelStates
<1> QED
  BY <1>1, <1>4, <1>5, <1>6, <1>7 DEF CleanupCall, CleanupUnharmed, n, c, e

\* A tc_cleanup that has run all its commands.
LEMMA CleanupOver ==
    ASSUME NEW R, NEW k \in KernelStates(R), NEW todo, todo = << >>,
           CleanupUnharmed(k, todo)
    PROVE  Bare(k)
<1>1. Done(todo, TcCleanup) = 4
  <2>1. Len(TcCleanup) = 4
    BY CleanupCommands
  <2> QED
    BY <2>1 DEF Done
<1>2. Stripped(k, 4)
  BY <1>1 DEF CleanupUnharmed
<1> QED
  BY <1>2 DEF Stripped, Bare, KernelStates, Devices

\* tc_change_rate to rate, of which todo is left.
ChangeCall(todo, rate) == Rest(todo, Change(rate))
ChangeUnharmed(k, todo, rate) ==
    /\ Done(todo, Change(rate)) >= 1 => k.root["iface"] = rate
    /\ Done(todo, Change(rate)) >= 2 => k.root["ifb0"] = rate

\* The rules are there: a class for each direction, and the redirect.
InPlace(k) == (\A d \in Devices : k.root[d] > NoClass) /\ k.ingress = "redirect"

LEMMA NextOfChange ==
    ASSUME NEW R, NEW rate \in R, NEW todo \in Seq(Commands(R)), todo # << >>,
           ChangeCall(todo, rate)
    PROVE  LET w == Change(rate) IN
           /\ Done(todo, w) \in 0 .. 1
           /\ Done(todo, w) = 0 => Warns(Head(todo), "change_class", "iface")
           /\ Done(todo, w) = 1 => Warns(Head(todo), "change_class", "ifb0")
           /\ Head(todo).rate = rate
           /\ Rest(Tail(todo), w) /\ Done(Tail(todo), w) = Done(todo, w) + 1
<1> DEFINE C == Commands(R)
           w == Change(rate)
<1>1. w \in Seq(C) /\ Len(w) = 2
  BY ChangeCommands
<1>2. todo \in Seq(C) /\ todo # << >> /\ Rest(todo, w)
  BY DEF ChangeCall
<1>3. /\ Warns(w[1], "change_class", "iface") /\ w[1].rate = rate
      /\ Warns(w[2], "change_class", "ifb0") /\ w[2].rate = rate
  <2>1. w[1] = ChangeClass("iface", rate) /\ w[2] = ChangeClass("ifb0", rate)
    BY ChangeCommands
  <2> HIDE DEF w
  <2> QED
    BY <2>1, CommandFields
<1> HIDE DEF C, w
<1>4. /\ Done(todo, w) \in 0 .. Len(w) - 1 /\ Head(todo) = w[Done(todo, w) + 1]
      /\ Rest(Tail(todo), w) /\ Done(Tail(todo), w) = Done(todo, w) + 1
  BY <1>1, <1>2, NextCommand
<1> QED
  BY <1>1, <1>3, <1>4 DEF w

LEMMA ChangeGoesOn ==
    ASSUME NEW R, R \subseteq Nat \ {0}, NEW rate \in R, NEW k \in KernelStates(R),
           NEW todo \in Seq(Commands(R)), todo # << >>, ChangeCall(todo, rate)
    PROVE  LET e == Effect(k, Head(todo)) IN
           /\ ChangeCall(Tail(todo), rate) /\ ~Head(todo).critical
           /\ InPlace(k) => InPlace(e) /\ Works(k, Head(todo))
           /\ k.link = e.link
           /\ ChangeUnharmed(k, todo, rate) => ChangeUnharmed(e, Tail(todo), rate)
<1> DEFINE n == Done(todo, Change(rate))
           c == Head(todo)
           e == Effect(k, c)
<1>1. /\ n \in 0 .. 1 /\ c.rate = rate
      /\ n = 0 => Warns(c, "change_class", "iface")
      /\ n = 1 => Warns(c, "change_class", "ifb0")
      /\ Rest(Tail(todo), Change(rate)) /\ Done(Tail(todo), Change(rate)) = n + 1
  BY NextOfChange
<1>2. c \in Commands(R)
  OBVIOUS
<1>3. SameBut(k, c, e)
  BY <1>2, EffectFields
<1>4. Works(k, c) <=> Accepts(k, c)
  <2>1. c.verb \in Verbs
    BY <1>2 DEF Commands
  <2> QED
    BY <2>1, WorksAccepts
<1>5. rate > NoClass
  BY DEF NoClass
<1> HIDE DEF n, c, e
<1>6. ~c.critical /\ c.verb = "change_class" /\ c.dev \in Devices
  BY <1>1 DEF Warns, Devices
<1>7. InPlace(k) => InPlace(e)
  BY <1>1, <1>3, <1>5, <1>6 DEF InPlace, SameBut, Devices
<1>8. InPlace(k) => Accepts(k, c)
  BY <1>6 DEF InPlace, Accepts
<1>9. k.link = e.link
  BY <1>3, <1>6 DEF SameBut
<1>10. /\ n = 0 => e.root["iface"] = rate
       /\ n = 1 => e.root["ifb0"] = rate /\ e.root["iface"] = k.root["iface"]
  BY <1>1, <1>3 DEF Warns, SameBut, Devices
<1> QED
  BY <1>1, <1>4, <1>6, <1>7, <1>8, <1>9, <1>10 DEF ChangeCall, ChangeUnharmed, n, c, e

\* A tc_change_rate that has run both its commands.
LEMMA ChangeOver ==
    ASSUME NEW R, NEW rate \in R, NEW k \in KernelStates(R), NEW todo, todo = << >>,
           ChangeUnharmed(k, todo, rate)
    PROVE  \A d \in Devices : k.root[d] = rate
<1>1. Done(todo, Change(rate)) = 2
  <2>1. Len(Change(rate)) = 2
    BY ChangeCommands
  <2> QED
    BY <2>1 DEF Done
<1> QED
  BY <1>1 DEF ChangeUnharmed, Devices

\* A call that starts now.
LEMMA InitStarts ==
    ASSUME NEW R, NEW rate \in R
    PROVE  LET w == Whole(rate) IN
           /\ w \in Seq(Commands(R)) /\ w # << >>
           /\ \A k : InitCall(k, w, rate) /\ InitUnharmed(k, w, rate)
<1> DEFINE C == Commands(R)
           w == Whole(rate)
<1>1. w \in Seq(C) /\ Len(w) # 0
  <2>1. w \in Seq(C) /\ Len(w) = 13
    BY InitCommands
  <2> HIDE DEF w
  <2> QED
    BY <2>1
<1> HIDE DEF C, w
<1>2. Rest(w, w) /\ Done(w, w) = 0 /\ w # << >>
  BY <1>1, WholeIsRest
<1>3. \A k : Secured(k, 0, rate) /\ Prepared(k, 0)
  BY DEF Secured, Prepared
<1> QED
  BY <1>1, <1>2, <1>3 DEF InitCall, InitUnharmed, C, w

LEMMA ChangeStarts ==
    ASSUME NEW R, NEW rate \in R
    PROVE  LET w == Change(rate) IN
           /\ w \in Seq(Commands(R)) /\ w # << >>
           /\ ChangeCall(w, rate) /\ \A k : ChangeUnharmed(k, w, rate)
<1> DEFINE C == Commands(R)
           w == Change(rate)
<1>1. w \in Seq(C) /\ Len(w) = 2 /\ Len(w) # 0
  BY ChangeCommands
<1> HIDE DEF C, w
<1>2. Rest(w, w) /\ Done(w, w) = 0 /\ w # << >>
  BY <1>1, WholeIsRest
<1> QED
  BY <1>1, <1>2 DEF ChangeCall, ChangeUnharmed, C, w

LEMMA CleanupStarts ==
    ASSUME NEW R
    PROVE  LET w == TcCleanup IN
           /\ w \in Seq(Commands(R)) /\ w # << >>
           /\ CleanupCall(w) /\ \A k : CleanupUnharmed(k, w)
<1> DEFINE C == Commands(R)
           w == TcCleanup
<1>1. w \in Seq(C) /\ Len(w) = 4 /\ Len(w) # 0
  BY CleanupCommands
<1> HIDE DEF C, w
<1>2. Rest(w, w) /\ Done(w, w) = 0 /\ w # << >>
  BY <1>1, WholeIsRest
<1> QED
  BY <1>1, <1>2 DEF CleanupCall, CleanupUnharmed, Stripped, C, w

=============================================================================
