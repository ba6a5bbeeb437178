------------------------ MODULE FuzzCampaignProofs ------------------------
(***************************************************************************)
(* Proofs about FuzzCampaign, for every set of command lines, worker       *)
(* count, edit, tick of the file system's clock, failing step and          *)
(* interruption.                                                           *)
(*                                                                         *)
(*   BenchesCurrent   no comparison runs on a stale testbench              *)
(*   ExitsTrue        summary and exit status say what happened            *)
(*                                                                         *)
(* BenchesCurrent rests on CampaignInv.  The point is BenchesDated: a      *)
(* source that has changed since a testbench was built is not older than   *)
(* the testbench, so a testbench that is strictly younger than all its     *)
(* sources has seen them as they are, however coarse the clock.            *)
(*                                                                         *)
(* ExitsTrue rests on CountInv.  The tasks of a pool end in any order, and *)
(* main reads their results in the order of submission: Tally says that    *)
(* the report is that of the comparisons read so far, the first failure    *)
(* among them included; ComparedInv, that what returned is what the runs   *)
(* showed, so that after the last configuration the comparisons read are   *)
(* all there were; PoolInv, that whatever failed was hit by a fault or is  *)
(* refused.  That no comparison is made twice, and that the order of       *)
(* submission is that of configuration, core and seed, is arithmetic on    *)
(* the number of a task (Places, PlaceOf, PlacesOrdered).                  *)
(***************************************************************************)
EXTENDS FuzzCampaign, FiniteSetTheorems, TLAPS

\* A bounded set of naturals has a greatest element: the one with the least gap
\* to the bound.
LEMMA MaxBounds ==
  ASSUME NEW S \in SUBSET Nat, NEW bound \in Nat, \A x \in S : x <= bound, S # {}
  PROVE  Max(S) \in S /\ \A x \in S : x <= Max(S)
<1> DEFINE Gaps == {bound - x : x \in S}
<1>1. Gaps \subseteq Nat
  OBVIOUS
<1>2. Gaps # {}
  OBVIOUS
<1>3. PICK least \in Gaps : \A g \in Gaps : ~(<<g, least>> \in OpToRel(<, Nat))
  <2> HIDE DEF Gaps
  <2> QED BY <1>1, <1>2, WFMin, NatLessThanWellFounded
<1>4. PICK x \in S : least = bound - x
  BY <1>3
<1>5. ASSUME NEW y \in S PROVE y <= x
  <2>1. bound - y \in Gaps /\ bound - y \in Nat /\ least \in Nat
    BY <1>1, <1>3
  <2>2. ~(bound - y < least)
    BY <1>3, <2>1 DEF OpToRel
  <2> QED BY <2>2, <1>4, <2>1
<1> QED BY <1>4, <1>5 DEF Max

\* The testbench of a core was built from the sources as they are.
Current(core) ==
  LET d == Directory(core, Config)
  IN d \in DOMAIN bench /\ \A f \in Read(core) : bench[d].version[f] = version[f]

\* No time lies in the future, and a campaign was asked for on the command line.
DiskInv ==
  /\ clock \in Nat /\ mtime \in [Files -> Nat] /\ \A f \in Files : mtime[f] <= clock
  /\ command \in Commands /\ consumed \in Nat
  /\ phase \in {"idle", "generate", "build", "compare", "unwind"}

\* A source that is not as it was when a testbench was built is no older than it.
BenchesDated ==
  \A d \in DOMAIN bench :
    /\ bench[d].time \in Nat /\ bench[d].time <= clock
    /\ \A f \in Read(d[1]) \cap Files : bench[d].version[f] = version[f] \/ mtime[f] >= bench[d].time

\* A build that returned its testbench left it current, and so it stays.
BuiltCurrent ==
  phase = "build" =>
    /\ \A t \in DOMAIN results : results[t] => Current(CoresNow[t])
    /\ \A t \in 1 .. consumed : Current(CoresNow[t])

CampaignInv == DiskInv /\ BenchesDated /\ BuiltCurrent /\ TestbenchesCurrent

\* What is built is one of the cores the fuzzer knows, and not Nano.
LEMMA Known ==
  ASSUME command \in Commands, NEW core, NEW config, ~Refused(command.family, core, config)
  PROVE  Read(core) = Dependencies(core) /\ Dependencies(core) \subseteq Files
<1>1. command.family \in {"rc16", "rc32", "fast"}
  BY CommandsAssumption
<1>2. core \in Serial16 \cup Serial32 \cup Wide16 \cup {"wide32"} \cup Fast16 \cup Fast32 \cup Cached
  BY <1>1 DEF Refused, TraceSupported
<1>3. core # "nano"
  BY <1>2 DEF Serial16, Serial32, Wide16, Fast16, Fast32, Cached
<1> QED BY <1>2, <1>3 DEF Read, Files

\* The first component of a directory's name is the core.
LEMMA Named == ASSUME NEW core, NEW config PROVE Directory(core, config)[1] = core
  BY DEF Directory

\* A testbench that is younger than all its sources needs no build.
LEMMA FreshCurrent ==
  ASSUME CampaignInv, NEW core, ~Refused(command.family, core, Config), Fresh(core)
  PROVE  Current(core)
<1> DEFINE d == Directory(core, Config)
           Times == {mtime[f] : f \in Dependencies(core)}
<1>1. Read(core) = Dependencies(core) /\ Dependencies(core) \subseteq Files
  BY Known DEF CampaignInv, DiskInv
<1>2. Times \subseteq Nat /\ \A x \in Times : x <= clock
  BY <1>1 DEF CampaignInv, DiskInv
<1>3. "riscc_fuzz.py" \in Dependencies(core)
  BY DEF Dependencies, Harness
<1>4. Times # {}
  BY <1>3
<1>5. Max(Times) \in Times /\ \A x \in Times : x <= Max(Times)
  <2> HIDE DEF Times
  <2> QED BY <1>2, <1>4, MaxBounds DEF CampaignInv, DiskInv
<1>6. d \in DOMAIN bench /\ bench[d].time > Max(Times)
  BY DEF Fresh, NewestSource
<1>7. bench[d].time \in Nat
  BY <1>6 DEF CampaignInv, BenchesDated
<1>8. ASSUME NEW f \in Read(core) PROVE bench[d].version[f] = version[f]
  <2>1. f \in Read(d[1]) \cap Files /\ mtime[f] \in Times
    BY <1>1, Named
  <2>2. mtime[f] < bench[d].time
    BY <2>1, <1>2, <1>5, <1>6, <1>7
  <2>3. bench[d].version[f] = version[f] \/ mtime[f] >= bench[d].time
    BY <2>1, <1>6 DEF CampaignInv, BenchesDated
  <2> QED BY <2>2, <2>3, <2>1, <1>2, <1>7
<1> QED BY <1>6, <1>8 DEF Current

\* What one build changes: the testbench it makes, if it makes one, is current,
\* and the others stay what they were.
LEMMA BuildKept ==
  ASSUME CampaignInv, NEW t, FinishBuild(t)
  PROVE  CampaignInv'
<1> DEFINE core == CoresNow[t]
           d == Directory(core, Config)
           Refuse == Refused(command.family, core, Config)
<1>1. phase \in {"build", "unwind"} /\ UNCHANGED <<version, mtime, clock, command, at, phase, consumed>>
  BY DEF FinishBuild
<1>2. PICK ok \in BOOLEAN :
        /\ results' = Put(results, t, ok)
        /\ \/ bench' = bench /\ (ok => ~Refuse /\ Fresh(core))
           \/ bench' = Put(bench, d, Made(core)) /\ ~Refuse
  BY Zenon DEF FinishBuild, Return
<1>3. DOMAIN results' = DOMAIN results \cup {t} /\ results'[t] = ok
      /\ \A u \in DOMAIN results \ {t} : results'[u] = results[u]
  BY <1>2 DEF Put
<1> HIDE DEF Refuse
<1>4. DiskInv'
  BY <1>1 DEF CampaignInv, DiskInv
<1>5. Config' = Config /\ CoresNow' = CoresNow
  BY <1>1 DEF Config, CoresNow
<1>6. CASE bench' = bench /\ (ok => ~Refuse /\ Fresh(core))
  <2>1. BenchesDated'
    BY <1>1, <1>6 DEF CampaignInv, BenchesDated
  <2>2. \A c : Current(c)' <=> Current(c)
    BY <1>1, <1>5, <1>6 DEF Current
  <2>3. ok => Current(core)
    BY <1>6, FreshCurrent DEF Refuse
  <2>4. BuiltCurrent'
    BY <1>1, <1>3, <1>5, <2>2, <2>3 DEF CampaignInv, BuiltCurrent
  <2> QED BY <1>1, <1>4, <2>1, <2>4 DEF CampaignInv, TestbenchesCurrent
<1>7. CASE bench' = Put(bench, d, Made(core)) /\ ~Refuse
  <2>1. DOMAIN bench' = DOMAIN bench \cup {d} /\ bench'[d] = Made(core)
        /\ \A e \in DOMAIN bench \ {d} : bench'[e] = bench[e]
    BY <1>7 DEF Put
  <2>2. \A f \in Read(core) : bench'[d].version[f] = version[f]
    BY <2>1 DEF Made
  <2>3. BenchesDated'
    BY <2>1, <2>2, <1>1, Named DEF CampaignInv, BenchesDated, DiskInv, Made
  <2>4. \A c : Current(c) => Current(c)'
    <3> SUFFICES ASSUME NEW c, Current(c) PROVE Current(c)'
      OBVIOUS
    <3>1. CASE Directory(c, Config) = d
      <4>1. c = core
        BY <3>1, Named
      <4> QED BY <4>1, <2>1, <2>2, <1>1, <1>5 DEF Current
    <3>2. CASE Directory(c, Config) # d
      BY <3>2, <2>1, <1>1, <1>5 DEF Current
    <3> QED BY <3>1, <3>2
  <2>5. Current(core)'
    BY <2>1, <2>2, <1>1, <1>5 DEF Current
  <2>6. BuiltCurrent'
    BY <1>1, <1>3, <1>5, <2>4, <2>5 DEF CampaignInv, BuiltCurrent
  <2> QED BY <1>1, <1>4, <2>3, <2>6 DEF CampaignInv, TestbenchesCurrent
<1> QED BY <1>2, <1>6, <1>7

\* An edit dates the source with the present, which no testbench is younger than.
LEMMA EditKept ==
  ASSUME CampaignInv, NEW f \in Edits, Edit(f)
  PROVE  CampaignInv'
<1> USE DEF Edit
<1>1. DiskInv'
  <2>1. UNCHANGED <<clock, command, consumed, phase>>
    BY DEF poolVars
  <2>2. mtime \in [Files -> Nat] /\ clock \in Nat
    BY DEF CampaignInv, DiskInv
  <2>3. mtime' \in [Files -> Nat]
    BY <2>2
  <2>4. \A g \in Files : mtime'[g] = mtime[g] \/ mtime'[g] = clock
    BY <2>2
  <2>5. \A g \in Files : mtime'[g] <= clock'
    BY <2>1, <2>2, <2>4 DEF CampaignInv, DiskInv
  <2> QED BY <2>1, <2>3, <2>5 DEF CampaignInv, DiskInv
<1>2. ASSUME NEW d \in DOMAIN bench, NEW g \in Read(d[1]) \cap Files,
             bench[d].version[g] = version[g] \/ mtime[g] >= bench[d].time
      PROVE  bench[d].version[g] = version'[g] \/ mtime'[g] >= bench[d].time
  <2>1. CASE g = f
    BY <2>1 DEF CampaignInv, DiskInv, BenchesDated
  <2>2. CASE g # f
    <3>1. version'[g] = version[g] /\ mtime'[g] = mtime[g]
      BY <2>2 DEF CampaignInv, DiskInv
    <3> QED BY <3>1, <1>2
  <2> QED BY <2>1, <2>2
<1>3. BenchesDated'
  BY <1>2 DEF CampaignInv, BenchesDated
<1>4. phase' = "idle"
  OBVIOUS
<1> QED BY <1>1, <1>3, <1>4 DEF CampaignInv, BuiltCurrent, TestbenchesCurrent

\* The default cores of a family are a list.
LEMMA DefaultSequence ==
  ASSUME NEW family, NEW config
  PROVE  LET cores == DefaultCores(family, config) IN DOMAIN cores = 1 .. Len(cores)
<1> DEFINE IsList(s) == DOMAIN s = 1 .. Len(s)
<1>1. IsList(<<"nano">>) /\ IsList(<<"rc16-mulh">>) /\ IsList(<<"rc16-muldiv">>)
  OBVIOUS
<1>2. IsList(<<"rc32-1", "rc32-2", "rc32-4", "rc32-8", "rc32-16">>)
      /\ IsList(<<"rc16-1", "rc16-2", "rc16-4", "rc16-8", "rc16-16">>)
      /\ IsList(<<"fast-soft", "fast-dsp", "fast-agilex-soft", "fast-agilex-dsp">>)
  OBVIOUS
<1> HIDE DEF IsList
<1>3. IsList(DefaultCores(family, config))
  BY <1>1, <1>2, Zenon DEF DefaultCores
<1> QED BY <1>3 DEF IsList

\* Everything else leaves the disk alone, up to the time.
LEMMA DiskKept ==
  ASSUME CampaignInv, UNCHANGED <<version, mtime, bench>>,
         clock' \in {clock, clock + 1}, command' \in Commands, consumed' \in Nat,
         phase' \in {"idle", "generate", "build", "compare", "unwind"}
  PROVE  DiskInv' /\ BenchesDated'
<1>1. clock' \in Nat /\ clock <= clock'
  BY DEF CampaignInv, DiskInv
<1>2. DiskInv'
  BY <1>1 DEF CampaignInv, DiskInv
<1>3. BenchesDated'
  BY <1>1 DEF CampaignInv, DiskInv, BenchesDated
<1> QED BY <1>2, <1>3

\* Every step keeps the sources, testbenches and their times in order.
LEMMA CampaignKept == ASSUME CampaignInv, [Next]_vars PROVE CampaignInv'
<1> DEFINE Rest == BuiltCurrent' /\ TestbenchesCurrent'
           Calm == UNCHANGED <<version, mtime, bench>>
<1> USE DEF CampaignInv
<1>0. ASSUME Calm, UNCHANGED <<command, at>>, phase' = phase, consumed' = consumed,
             phase = "build" => results' = results
      PROVE  Rest
  <2>1. Config' = Config /\ CoresNow' = CoresNow
    BY <1>0 DEF Config, CoresNow
  <2>2. \A c : Current(c)' <=> Current(c)
    BY <1>0, <2>1 DEF Current
  <2> QED BY <1>0, <2>1, <2>2 DEF BuiltCurrent, TestbenchesCurrent
<1>1. CASE EndGenerate
  <2>1. DiskInv' /\ BenchesDated'
    BY <1>1, DiskKept DEF EndGenerate, Exit, NewPool, diskVars, poolVars, DiskInv
  <2>2. Rest
    BY <1>1 DEF EndGenerate, Exit, NewPool, BuiltCurrent, TestbenchesCurrent
  <2> QED BY <2>1, <2>2
<1>2. CASE CollectBench
  <2>1. Calm /\ UNCHANGED <<command, at, results>> /\ phase = "build" /\ consumed' = consumed + 1
        /\ Returned(consumed + 1) /\ phase' \in {"build", "unwind"} /\ clock' = clock
        /\ (phase' = "build" => results[consumed + 1])
    BY <1>2 DEF CollectBench, diskVars
  <2>2. DiskInv' /\ BenchesDated'
    BY <2>1, DiskKept DEF DiskInv
  <2>3. Config' = Config /\ CoresNow' = CoresNow
    BY <2>1 DEF Config, CoresNow
  <2>4. \A c : Current(c)' <=> Current(c)
    BY <2>1, <2>3 DEF Current
  <2>5. BuiltCurrent'
    <3> SUFFICES ASSUME phase' = "build", NEW t \in 1 .. consumed + 1 PROVE Current(CoresNow[t])
      BY <2>1, <2>3, <2>4 DEF BuiltCurrent
    <3>1. CASE t \in 1 .. consumed
      BY <3>1, <2>1 DEF BuiltCurrent
    <3>2. CASE t = consumed + 1
      BY <3>2, <2>1 DEF BuiltCurrent, Returned
    <3> QED BY <3>1, <3>2 DEF DiskInv
  <2> QED BY <2>1, <2>2, <2>5 DEF TestbenchesCurrent
<1>3. CASE EndBuild
  <2>1. DiskInv' /\ BenchesDated'
    BY <1>3, DiskKept DEF EndBuild, NewPool, diskVars, DiskInv
  <2>2. Config' = Config /\ CoresNow' = CoresNow
    BY <1>3 DEF EndBuild, Config, CoresNow
  <2>3. consumed = Len(CoresNow)
    BY <1>3 DEF EndBuild, Tasks
  <2>4. DOMAIN CoresNow = 1 .. Len(CoresNow)
    <3>1. CASE command.cores # None
      BY <3>1, CommandsAssumption DEF DiskInv, CoresNow, Cores
    <3>2. CASE command.cores = None
      BY <3>2, DefaultSequence DEF CoresNow, Cores
    <3> QED BY <3>1, <3>2
  <2>5. \A n \in DOMAIN CoresNow : Current(CoresNow[n])
    BY <1>3, <2>3, <2>4 DEF BuiltCurrent, EndBuild
  <2>6. TestbenchesCurrent'
    BY <1>3, <2>2, <2>5 DEF TestbenchesCurrent, Current, EndBuild, diskVars
  <2> QED BY <1>3, <2>1, <2>6 DEF BuiltCurrent, EndBuild
<1>4. CASE Raise
  <2>1. DiskInv' /\ BenchesDated'
    BY <1>4, DiskKept DEF Raise, Exit, diskVars, poolVars, DiskInv
  <2> QED BY <1>4, <2>1 DEF Raise, Exit, BuiltCurrent, TestbenchesCurrent
<1>5. CASE CollectResult
  <2>1. Calm /\ UNCHANGED <<clock, command, at, results>> /\ phase = "compare" /\ phase' = phase
        /\ consumed' = consumed + 1
    BY <1>5 DEF CollectResult, diskVars
  <2>2. DiskInv' /\ BenchesDated'
    BY <2>1, DiskKept DEF DiskInv
  <2>3. Config' = Config /\ CoresNow' = CoresNow
    BY <2>1 DEF Config, CoresNow
  <2> QED BY <2>1, <2>2, <2>3 DEF BuiltCurrent, TestbenchesCurrent
<1>6. CASE EndConfig
  <2>1. DiskInv' /\ BenchesDated'
    BY <1>6, DiskKept DEF EndConfig, Exit, NewPool, diskVars, DiskInv
  <2> QED BY <1>6, <2>1 DEF EndConfig, Exit, BuiltCurrent, TestbenchesCurrent
<1>7. CASE StartTask
  <2>1. DiskInv' /\ BenchesDated'
    BY <1>7, DiskKept DEF StartTask, diskVars, DiskInv
  <2> QED BY <1>7, <1>0, <2>1 DEF StartTask, diskVars
<1>8. ASSUME NEW t \in running, FinishTask(t) PROVE CampaignInv'
  <2>1. CASE FinishGenerate(t)
    <3>1. DiskInv' /\ BenchesDated'
      BY <2>1, DiskKept DEF FinishGenerate, diskVars, DiskInv
    <3> QED BY <2>1, <1>0, <3>1 DEF FinishGenerate, diskVars
  <2>2. CASE FinishBuild(t)
    BY <2>2, BuildKept
  <2>3. CASE FinishCompare(t)
    <3>1. Calm /\ UNCHANGED <<clock, command, at, phase, consumed>> /\ phase = "compare"
      BY <2>3 DEF FinishCompare, diskVars
    <3>2. DiskInv' /\ BenchesDated'
      BY <3>1, DiskKept DEF DiskInv
    <3> QED BY <3>1, <1>0, <3>2
  <2> QED BY <1>8, <2>1, <2>2, <2>3 DEF FinishTask
<1>9. CASE Tick
  <2>1. DiskInv' /\ BenchesDated'
    BY <1>9, DiskKept DEF Tick, poolVars, DiskInv
  <2> QED BY <1>9, <1>0, <2>1 DEF Tick, poolVars
<1>10. CASE Interrupt
  <2>1. DiskInv' /\ BenchesDated'
    BY <1>10, DiskKept DEF Interrupt, diskVars, DiskInv
  <2> QED BY <1>10, <2>1 DEF Interrupt, BuiltCurrent, TestbenchesCurrent
<1>11. ASSUME NEW f \in Edits, Edit(f) PROVE CampaignInv'
  BY <1>11, EditKept
<1>12. ASSUME NEW cmd \in Commands, Start(cmd) PROVE CampaignInv'
  <2>1. DiskInv' /\ BenchesDated'
    BY <1>12, DiskKept DEF Start, NewPool, diskVars, DiskInv
  <2> QED BY <1>12, <2>1 DEF Start, BuiltCurrent, TestbenchesCurrent
<1>13. CASE UNCHANGED vars
  <2>1. DiskInv' /\ BenchesDated'
    BY <1>13, DiskKept DEF vars, diskVars, poolVars, DiskInv
  <2> QED BY <1>13, <1>0, <2>1 DEF vars, diskVars, poolVars
<1> QED BY <1>1, <1>2, <1>3, <1>4, <1>5, <1>6, <1>7, <1>8, <1>9, <1>10, <1>11, <1>12, <1>13
        DEF Next, Work

\* In every state of a sequence of campaigns sources and testbenches are dated rightly:
\* CampaignInv.
THEOREM CampaignInvariant == Spec => []CampaignInv
<1>1. Init => CampaignInv
  BY DEF Init, CampaignInv, DiskInv, BenchesDated, BuiltCurrent, TestbenchesCurrent
<1> QED BY <1>1, CampaignKept, PTL DEF Spec

\* TestbenchesCurrent, for every set of command lines, order of the builds,
\* edit, tick, interruption and failing step.
THEOREM BenchesCurrent == Spec => []TestbenchesCurrent
<1>1. CampaignInv => TestbenchesCurrent
  BY DEF CampaignInv
<1> QED BY <1>1, CampaignInvariant, PTL

-----------------------------------------------------------------------------
(* The order of the comparisons. *)

\* A command line that main accepts.
LEMMA CommandFacts ==
  ASSUME command \in Commands
  PROVE  command.family \in {"rc16", "rc32", "fast"} /\ command.campaign \in Nat \ {0}
  BY CommandsAssumption

\* A list that names things once.
NamesOnce(s) == DOMAIN s = 1 .. Len(s) /\ Len(s) \in Nat /\ IsInjective(s)

\* The lists of the code are such lists.
LEMMA DefaultLists ==
  /\ NamesOnce(<<"full">>) /\ NamesOnce(<<"min", "sys", "full">>) /\ NamesOnce(Rc16Configs)
  /\ NamesOnce(<<"rc32-1", "rc32-2", "rc32-4", "rc32-8", "rc32-16">>)
  /\ NamesOnce(<<"fast-soft", "fast-dsp", "fast-agilex-soft", "fast-agilex-dsp">>)
  /\ NamesOnce(<<"rc16-mulh">>) /\ NamesOnce(<<"rc16-muldiv">>) /\ NamesOnce(<<"nano">>)
  /\ NamesOnce(<<"rc16-1", "rc16-2", "rc16-4", "rc16-8", "rc16-16">>)
BY DEF NamesOnce, IsInjective, Rc16Configs

\* A campaign has at least one configuration, and each of them once.
LEMMA ConfigList ==
  ASSUME NEW cmd \in Commands PROVE NamesOnce(Configs(cmd)) /\ Len(Configs(cmd)) > 0
<1>1. CASE cmd.config # None
  BY <1>1 DEF Configs, NamesOnce, IsInjective
<1>2. CASE cmd.config = None
  <2>1. NamesOnce(DefaultConfigs(cmd.family)) /\ Len(DefaultConfigs(cmd.family)) > 0
    <3>1. /\ Len(<<"min", "sys", "full">>) > 0 /\ Len(<<"full">>) > 0 /\ Len(Rc16Configs) > 0
          /\ cmd.family \in {"rc16", "rc32", "fast"}
      BY CommandsAssumption DEF Rc16Configs
    <3> QED BY <3>1, DefaultLists DEF DefaultConfigs
  <2> QED BY <1>2, <2>1 DEF Configs
<1> QED BY <1>1, <1>2

\* And each core of a configuration once.
LEMMA CoreList == ASSUME command \in Commands, NEW config PROVE NamesOnce(Cores(command, config))
<1>1. CASE command.cores # None
  <2>1. command.cores \in Seq(STRING) /\ IsInjective(command.cores)
    BY <1>1, CommandsAssumption
  <2> QED BY <1>1, <2>1 DEF Cores, NamesOnce
<1>2. CASE command.cores = None
  <2>1. NamesOnce(DefaultCores(command.family, config))
    BY DefaultLists, CommandFacts, Zenon DEF DefaultCores
  <2> QED BY <1>2, <2>1 DEF Cores
<1> QED BY <1>1, <1>2

\* The place of a task in the order in which main submits the comparisons.
LEMMA RankOf ==
  ASSUME command \in Commands, NEW k \in 1 .. Len(Configs(command)),
         NEW i \in 1 .. Len(Cores(command, Configs(command)[k])), NEW s
  PROVE  LET t == <<Cores(command, Configs(command)[k])[i], Configs(command)[k], s>>
         IN Rank(t) = <<k, i, s>>
<1> DEFINE gs == Configs(command)  cs == Cores(command, gs[k])
<1>1. NamesOnce(gs) /\ NamesOnce(cs)
  BY ConfigList, CoreList
<1>2. ASSUME NEW z, NamesOnce(z), NEW n \in 1 .. Len(z)
      PROVE  SelectInSeq(z, LAMBDA v : v = z[n]) = n
  <2> DEFINE I == {j \in 1 .. Len(z) : z[j] = z[n]}
  <2>1. I = {n}
    BY <1>2 DEF NamesOnce, IsInjective
  <2>2. Min({n}) = n
    <3>1. n \in Int
      BY <1>2 DEF NamesOnce
    <3> QED BY <3>1 DEF Min
  <2> QED BY <2>1, <2>2 DEF SelectInSeq
<1> HIDE DEF gs, cs
<1>3. SelectInSeq(gs, LAMBDA v : v = gs[k]) = k /\ SelectInSeq(cs, LAMBDA v : v = cs[i]) = i
  BY <1>1, <1>2 DEF gs, cs
<1> QED BY <1>3 DEF Rank, gs, cs

\* The place of a comparison is given by its core and its seed.
LEMMA Places ==
  ASSUME NEW m \in Nat \ {0}, NEW l \in Nat, NEW n \in 1 .. l * m
  PROVE  /\ ((n - 1) \div m) + 1 \in 1 .. l /\ (n - 1) % m \in 0 .. m - 1
         /\ n = ((n - 1) \div m) * m + ((n - 1) % m) + 1
<1> DEFINE q == (n - 1) \div m  r == (n - 1) % m
<1>0. l * m \in Nat
  OBVIOUS
<1>1. n - 1 \in Nat /\ n <= l * m
  BY <1>0
<1>2. q \in Nat /\ r \in 0 .. m - 1 /\ n - 1 = m * q + r
  BY <1>1
<1> HIDE DEF q, r
<1>3. m * q = q * m
  BY <1>2
<1>4. n = q * m + r + 1
  BY <1>0, <1>1, <1>2, <1>3
<1>5. q < l
  <2>1. SUFFICES ASSUME q >= l PROVE FALSE
    BY <1>2
  <2>2. q * m >= l * m
    BY <2>1, <1>2
  <2> QED BY <1>0, <1>1, <1>2, <1>4, <2>2
<1> QED BY <1>2, <1>4, <1>5 DEF q, r

\* Place n of l cores with m seeds each is that of core i and seed s.
Has(n, m, l, i, s) == n \in 1 .. l * m /\ ((n - 1) \div m) + 1 = i /\ (n - 1) % m = s
\* Each core and seed has a place.
LEMMA PlaceOf ==
  ASSUME NEW m \in Nat \ {0}, NEW l \in Nat, NEW i \in 1 .. l, NEW s \in 0 .. m - 1
  PROVE  \E n : Has(n, m, l, i, s)
<1> DEFINE n == (i - 1) * m + s + 1
<1> SUFFICES n \in 1 .. l * m /\ ((n - 1) \div m) + 1 = i /\ (n - 1) % m = s
  BY DEF Has
<1> DEFINE p == (i - 1) * m
<1>1. p \in Nat /\ l * m \in Nat /\ s \in Nat
  OBVIOUS
<1>2. p + m <= l * m
  <2>1. p + m = i * m
    OBVIOUS
  <2>2. i * m <= l * m
    OBVIOUS
  <2> QED BY <2>1, <2>2
<1>3. n = p + s + 1 /\ n - 1 = p + s
  BY <1>1
<1>4. (p + s) \div m = i - 1 /\ (p + s) % m = s
  <2>1. p = m * (i - 1) /\ i - 1 \in Nat
    OBVIOUS
  <2> HIDE DEF p
  <2> QED BY <2>1
<1> HIDE DEF p
<1>5. ((n - 1) \div m) + 1 = i /\ (n - 1) % m = s
  BY <1>3, <1>4
<1> QED BY <1>1, <1>2, <1>3, <1>5

\* Places that follow one another have cores, or seeds of one core, that do.
LEMMA PlacesOrdered ==
  ASSUME NEW m \in Nat \ {0}, NEW j \in Nat, NEW n \in Nat, j < n
  PROVE  \/ j \div m < n \div m
         \/ j \div m = n \div m /\ j % m < n % m
<1> DEFINE q == j \div m  r == j % m  u == n \div m  v == n % m
<1>1. q \in Nat /\ r \in 0 .. m - 1 /\ j = m * q + r /\ u \in Nat /\ v \in 0 .. m - 1 /\ n = m * u + v
  OBVIOUS
<1> HIDE DEF q, r, u, v
<1>2. CASE q > u
  <2>1. m * q >= m * (u + 1)
    BY <1>1, <1>2
  <2>2. m * (u + 1) = m * u + m
    BY <1>1
  <2> QED BY <1>1, <2>1, <2>2
<1>3. CASE q = u
  BY <1>1, <1>3 DEF q, r, u, v
<1>4. CASE q < u
  BY <1>4 DEF q, u
<1> QED BY <1>1, <1>2, <1>3, <1>4

-----------------------------------------------------------------------------
(* The comparisons. *)

\* All comparisons of a configuration; those of the configurations before this one.
Of(g) == {<<c, g, s>> : c \in ToSet(Cores(command, g)), s \in 0 .. command.campaign - 1}
Past == UNION {Of(Configs(command)[k]) : k \in 1 .. at - 1}

\* How many comparisons this configuration has.
Batch == Len(CoresNow) * command.campaign

\* The campaign is at one of its configurations.
Underway == command \in Commands /\ at \in 1 .. Len(Configs(command))

\* What a campaign that is under way may rely on.
LEMMA BatchFacts ==
  ASSUME Underway
  PROVE  /\ NamesOnce(CoresNow) /\ CoresNow = Cores(command, Config) /\ Batch \in Nat
         /\ command.campaign \in Nat \ {0} /\ Config = Configs(command)[at]
<1>1. NamesOnce(CoresNow) /\ command.campaign \in Nat \ {0}
  BY CoreList, CommandFacts DEF Underway, CoresNow
<1>2. Len(CoresNow) \in Nat
  BY <1>1 DEF NamesOnce
<1>3. Len(CoresNow) * command.campaign \in Nat
  BY <1>1, <1>2
<1> QED BY <1>1, <1>3 DEF CoresNow, Config, Batch

\* A comparison is one of the configuration's,
LEMMA ComparisonOf ==
  ASSUME Underway, NEW n \in 1 .. Batch
  PROVE  /\ Comparison(n) \in Of(Config)
         /\ Rank(Comparison(n))
              = <<at, ((n - 1) \div command.campaign) + 1, (n - 1) % command.campaign>>
<1> DEFINE i == ((n - 1) \div command.campaign) + 1  s == (n - 1) % command.campaign
<1>1. /\ NamesOnce(CoresNow) /\ CoresNow = Cores(command, Config) /\ Config = Configs(command)[at]
      /\ command.campaign \in Nat \ {0} /\ Len(CoresNow) \in Nat
  BY BatchFacts DEF NamesOnce
<1>2. i \in 1 .. Len(CoresNow) /\ s \in 0 .. command.campaign - 1
  BY <1>1, Places DEF Batch
<1>3. Comparison(n) = <<CoresNow[i], Config, s>>
  BY DEF Comparison
<1> HIDE DEF i, s
<1>4. CoresNow[i] \in ToSet(Cores(command, Config))
  BY <1>1, <1>2 DEF ToSet, NamesOnce
<1>5. Rank(Comparison(n)) = <<at, i, s>>
  BY <1>1, <1>2, <1>3, RankOf DEF Underway
<1> QED BY <1>2, <1>3, <1>4, <1>5 DEF Of, i, s

\* each of them is one,
LEMMA ComparisonsAll ==
  ASSUME Underway
  PROVE  Of(Config) = {Comparison(n) : n \in 1 .. Batch}
<1>1. /\ NamesOnce(CoresNow) /\ CoresNow = Cores(command, Config)
      /\ command.campaign \in Nat \ {0} /\ Len(CoresNow) \in Nat
  BY BatchFacts DEF NamesOnce
<1>2. ASSUME NEW t \in Of(Config) PROVE \E n \in 1 .. Batch : t = Comparison(n)
  <2>1. PICK c \in ToSet(CoresNow), s \in 0 .. command.campaign - 1 : t = <<c, Config, s>>
    BY <1>1, <1>2 DEF Of
  <2>2. PICK i \in 1 .. Len(CoresNow) : c = CoresNow[i]
    BY <1>1, <2>1 DEF ToSet, NamesOnce
  <2>3. PICK n : Has(n, command.campaign, Len(CoresNow), i, s)
    BY <1>1, <2>1, <2>2, PlaceOf
  <2>4. Comparison(n) = t
    BY <2>1, <2>2, <2>3 DEF Comparison, Has
  <2> QED BY <2>3, <2>4 DEF Has, Batch
<1> QED BY <1>2, ComparisonOf

\* and they are submitted in the order of their ranks.
LEMMA ComparisonsOrdered ==
  ASSUME Underway, NEW j \in 1 .. Batch, NEW n \in 1 .. Batch, j < n
  PROVE  Earlier(Comparison(j), Comparison(n)) /\ Comparison(j) # Comparison(n)
<1> DEFINE m == command.campaign
<1>1. m \in Nat \ {0} /\ Batch \in Nat
  BY BatchFacts
<1>2. \/ (j - 1) \div m < (n - 1) \div m
      \/ (j - 1) \div m = (n - 1) \div m /\ (j - 1) % m < (n - 1) % m
  <2>1. ASSUME NEW d, d = m, NEW a, a = j - 1, NEW b, b = n - 1
        PROVE  a \div d < b \div d \/ (a \div d = b \div d /\ a % d < b % d)
    <3>1. d \in Nat \ {0} /\ a \in Nat /\ b \in Nat /\ a < b
      BY <1>1, <2>1
    <3> QED BY <3>1, PlacesOrdered
  <2> QED BY <2>1, Zenon
<1>3. /\ (j - 1) \div m \in Int /\ (n - 1) \div m \in Int
      /\ (j - 1) % m \in Int /\ (n - 1) % m \in Int
  BY <1>1
<1> DEFINE p == Rank(Comparison(j))  q == Rank(Comparison(n))
<1>4. p = <<at, ((j - 1) \div m) + 1, (j - 1) % m>> /\ q = <<at, ((n - 1) \div m) + 1, (n - 1) % m>>
  BY ComparisonOf
<1> HIDE DEF m
<1>5. p[1] = q[1] /\ (p[2] < q[2] \/ (p[2] = q[2] /\ p[3] < q[3]))
  BY <1>2, <1>3, <1>4
<1>6. p # q
  BY <1>2, <1>3, <1>4
<1> HIDE DEF p, q
<1>7. \E k \in 1 .. 3 : p[k] < q[k] /\ \A h \in 1 .. k - 1 : p[h] = q[h]
  <2>1. CASE p[2] < q[2]
    <3>1. \A h \in 1 .. 2 - 1 : h = 1
      OBVIOUS
    <3> QED BY <1>5, <2>1, <3>1
  <2>2. CASE p[2] = q[2] /\ p[3] < q[3]
    <3>1. \A h \in 1 .. 3 - 1 : h = 1 \/ h = 2
      OBVIOUS
    <3> QED BY <1>5, <2>2, <3>1
  <2> QED BY <1>5, <2>1, <2>2
<1> QED BY <1>6, <1>7 DEF Earlier, p, q

\* Those of earlier configurations come before them.
LEMMA PastEarlier ==
  ASSUME Underway, NEW t \in Past, NEW n \in 1 .. Batch
  PROVE  Earlier(t, Comparison(n)) /\ t # Comparison(n)
<1>1. PICK k \in 1 .. at - 1 : t \in Of(Configs(command)[k])
  BY DEF Past
<1>2. k \in 1 .. Len(Configs(command)) /\ k < at /\ at \in Int /\ Len(Configs(command)) \in Nat
  BY <1>1, ConfigList DEF Underway, NamesOnce
<1> DEFINE g == Configs(command)[k]  cs == Cores(command, g)
<1>3. PICK c \in ToSet(cs), s \in 0 .. command.campaign - 1 : t = <<c, g, s>>
  BY <1>1 DEF Of
<1>4. PICK i \in 1 .. Len(cs) : c = cs[i]
  <2>1. NamesOnce(cs)
    BY CoreList DEF Underway
  <2> QED BY <1>3, <2>1 DEF ToSet, NamesOnce
<1> DEFINE p == Rank(t)  q == Rank(Comparison(n))
<1>5. p = <<k, i, s>>
  BY <1>2, <1>3, <1>4, RankOf DEF Underway
<1>6. q = <<at, ((n - 1) \div command.campaign) + 1, (n - 1) % command.campaign>>
  BY ComparisonOf
<1>7. p[1] < q[1] /\ p # q
  BY <1>2, <1>5, <1>6
<1> HIDE DEF p, q
<1>8. \A h \in 1 .. 1 - 1 : p[h] = q[h]
  OBVIOUS
<1> QED BY <1>7, <1>8 DEF Earlier, p, q

-----------------------------------------------------------------------------
(* The verdicts. *)

\* Lists of numbers are equal when they are equally long and differ nowhere.
LEMMA ListsEqual ==
  ASSUME NEW s \in Seq(Nat), NEW t \in Seq(Nat)
  PROVE  s = t <=> ~Differs(s, t) /\ Len(s) = Len(t)
<1>1. Len(s) \in Nat /\ Len(t) \in Nat /\ DOMAIN s = 1 .. Len(s) /\ DOMAIN t = 1 .. Len(t)
  OBVIOUS
<1>2. ASSUME s = t PROVE ~Differs(s, t)
  BY <1>2 DEF Differs
<1>3. ASSUME ~Differs(s, t), Len(s) = Len(t) PROVE s = t
  <2>1. \A n \in 1 .. Len(s) : s[n] = t[n]
    BY <1>3 DEF Differs
  <2> QED BY <1>1, <1>3, <2>1
<1> QED BY <1>2, <1>3

\* A verdict is a pass exactly when the runs agree in all that is looked at.
LEMMA VerdictFair ==
  ASSUME NEW o \in Observation, NEW irq \in BOOLEAN
  PROVE  /\ CompareTrace(o, irq) = Verdict(~Agrees(o, TRUE, irq), irq)
         /\ CompareFinalState(o, irq) = Verdict(~Agrees(o, FALSE, irq), irq)
<1>1. /\ o.issTrace \in Seq(Nat) /\ o.rtlTrace \in Seq(Nat) /\ o.issMem \in Seq(Nat)
      /\ o.rtlMem \in Seq(Nat) /\ o.marker \in Nat \cup {None}
  BY DEF Observation
<1>2. TraceDiffers(o) <=> o.issTrace # o.rtlTrace
  BY <1>1, ListsEqual DEF TraceDiffers
<1>3. MemoryDiffers(o) <=> o.issMem # o.rtlMem
  BY <1>1, ListsEqual DEF MemoryDiffers
<1>4. MarkerBad(o) <=> ~(o.marker # None /\ \E c \in LowCycle(o.marker) .. o.marker : c < o.marker)
  <2>1. CASE o.marker = None
    BY <2>1 DEF MarkerBad
  <2>2. CASE o.marker # None
    <3>1. o.marker \in Nat /\ LowCycle(o.marker) \in Nat
      BY <1>1, <2>2 DEF LowCycle
    <3> QED BY <2>2, <3>1 DEF MarkerBad
  <2> QED BY <2>1, <2>2
<1> DEFINE traced == \/ ~o.iss \/ ~o.rtl \/ TraceDiffers(o) \/ MemoryDiffers(o) \/ ~o.pass
                     \/ (irq /\ (MarkerBad(o) \/ IrqBad(o)))
           final == \/ ~o.iss \/ ~o.rtl \/ o.issMem # o.rtlMem \/ ~o.pass
                    \/ (irq /\ (MarkerBad(o) \/ IrqBad(o)))
<1>5. /\ traced <=> ~Agrees(o, TRUE, irq)
      /\ final <=> ~Agrees(o, FALSE, irq)
  BY <1>2, <1>3, <1>4 DEF Agrees, IrqBad
<1>6. CompareTrace(o, irq) = Verdict(traced, irq) /\ CompareFinalState(o, irq) = Verdict(final, irq)
  BY DEF CompareTrace, CompareFinalState
<1> HIDE DEF traced, final
<1> QED BY <1>5, <1>6, Zenon DEF Verdict

\* A right core agrees however it is looked at.
LEMMA CleanAgrees ==
  ASSUME NEW traced \in BOOLEAN, NEW irq \in BOOLEAN
  PROVE  Agrees(Clean, traced, irq) /\ Agrees([Clean EXCEPT !.marker = None], traced, FALSE)
<1>1. Clean \in Observation /\ Agrees(Clean, TRUE, TRUE)
  BY ObservationAssumption
<1> QED BY <1>1 DEF Agrees, Observation

\* No configuration is Nano's.
LEMMA ConfigKnown ==
  ASSUME NEW cmd \in Commands, NEW k \in 1 .. Len(Configs(cmd)) PROVE Configs(cmd)[k] # "nano"
<1>1. cmd.family \in {"rc16", "rc32", "fast"}
  BY CommandsAssumption
<1>2. \A s \in {Rc16Configs, <<"min", "sys", "full">>, <<"full">>} :
        \A n \in 1 .. Len(s) : s[n] # "nano"
  BY DEF Rc16Configs
<1>3. DefaultConfigs(cmd.family) \in {Rc16Configs, <<"min", "sys", "full">>, <<"full">>}
  BY <1>1 DEF DefaultConfigs
<1>4. CASE cmd.config # None
  <2>1. cmd.config \in ToSet(ValidConfigs(cmd.family))
    BY <1>4, CommandsAssumption
  <2>2. ValidConfigs(cmd.family) \in {Rc16Configs, <<"min", "sys", "full">>, <<"full">>}
    BY <1>3 DEF ValidConfigs
  <2>3. \A s \in {Rc16Configs, <<"min", "sys", "full">>, <<"full">>} : DOMAIN s = 1 .. Len(s)
    BY DEF Rc16Configs
  <2>4. cmd.config # "nano"
    <3>1. PICK n \in DOMAIN ValidConfigs(cmd.family) : cmd.config = ValidConfigs(cmd.family)[n]
      BY <2>1 DEF ToSet
    <3> QED BY <1>2, <2>2, <2>3, <3>1
  <2>5. Configs(cmd) = <<cmd.config>>
    BY <1>4 DEF Configs
  <2>6. k = 1
    BY <2>5
  <2> QED BY <2>4, <2>5, <2>6
<1>5. CASE cmd.config = None
  BY <1>2, <1>3, <1>5 DEF Configs
<1> QED BY <1>4, <1>5

-----------------------------------------------------------------------------
(* The invariant of the counts. *)

\* The comparisons that main has counted.
Counted == Past \cup IF phase = "compare" THEN {Comparison(n) : n \in 1 .. consumed} ELSE {}

\* Tasks start in order; what has returned is not running any more.  A task that
\* returned a failure was hit by a fault, or built a core that is refused.
PoolInv ==
  /\ started \in Nat /\ faults \in Nat
  /\ phase # "idle" =>
       /\ Underway
       /\ running \cap DOMAIN results = {} /\ running \cup DOMAIN results \subseteq 1 .. started
       /\ started <= IF phase = "unwind" THEN Len(CoresNow) ELSE Tasks
  /\ phase = "generate" =>
       \A t \in DOMAIN results : results[t] \in BOOLEAN /\ (results[t] \/ faults > 0)
  /\ phase \in {"build", "unwind"} =>
       \A t \in DOMAIN results :
         /\ results[t] \in BOOLEAN
         /\ results[t] \/ faults > 0 \/ Refused(command.family, CoresNow[t], Config)
  /\ phase = "unwind" => \E t \in DOMAIN results : ~results[t]

\* What was compared, and what the comparisons that returned said of it.
Shown(t) ==
  Verdict(Comparison(t) \in wrong, InterruptSupported(command.family, Config))
ComparedInv ==
  /\ phase # "idle" =>
       /\ compared = Past \cup IF phase = "compare" THEN {Comparison(t) : t \in DOMAIN results}
                               ELSE {}
       /\ wrong \subseteq compared /\ (wrong # {} => faults > 0)
  /\ phase = "compare" =>
       1 .. consumed \subseteq DOMAIN results /\ \A t \in DOMAIN results : results[t] = Shown(t)

\* The counts, and the first failure, are those of the comparisons counted.
Tally ==
  /\ IsFiniteSet(Counted)
  /\ total = Cardinality(Counted) /\ fails = Cardinality(wrong \cap Counted)
  /\ external_irqs =
       Cardinality({t \in Counted \ wrong : InterruptSupported(command.family, t[2])})
  /\ wrong \cap Counted = {} => first_failure = None
  /\ wrong \cap Counted # {} =>
       /\ first_failure \in wrong \cap Counted
       /\ \A t \in (wrong \cap Counted) \ {first_failure} : Earlier(first_failure, t)

CountInv == PoolInv /\ ComparedInv /\ (phase # "idle" => Tally) /\ ExitTrue

\* How many tasks each phase has.
LEMMA TaskFacts ==
  /\ phase = "generate" => Tasks = command.campaign
  /\ phase = "build" => Tasks = Len(CoresNow)
  /\ phase = "compare" => Tasks = Batch
  /\ phase \in {"idle", "unwind"} => Tasks = 0
BY Zenon DEF Tasks, Batch

\* The order is one of the command.
LEMMA SameOrder ==
  ASSUME UNCHANGED command PROVE \A s, t : Earlier(s, t)' = Earlier(s, t)
<1>1. \A t : Rank(t)' = Rank(t)
  BY DEF Rank, SelectInSeq
<1>2. ASSUME NEW s, NEW t PROVE Earlier(s, t)' = Earlier(s, t)
  BY <1>1 DEF Earlier
<1> QED BY <1>2

\* What depends on the command and the configuration stays with them.
LEMMA SameCampaign ==
  ASSUME UNCHANGED <<command, at>>
  PROVE  /\ Config' = Config /\ CoresNow' = CoresNow /\ Batch' = Batch /\ Past' = Past
         /\ Underway' = Underway
         /\ \A n : Comparison(n)' = Comparison(n)
         /\ \A s, t : Earlier(s, t)' = Earlier(s, t)
<1>1. Config' = Config
  BY DEF Config
<1>2. CoresNow' = CoresNow
  BY <1>1 DEF CoresNow
<1>3. Past' = Past /\ Underway' = Underway
  BY DEF Past, Of, Underway
<1>4. \A n : Comparison(n)' = Comparison(n)
  BY <1>1, <1>2 DEF Comparison
<1>5. \A s, t : Earlier(s, t)' = Earlier(s, t)
  BY SameOrder
<1> QED BY <1>1, <1>2, <1>3, <1>4, <1>5 DEF Batch

\* Nothing counted is None, and it belongs to the campaign.
LEMMA CountedKnown ==
  ASSUME Underway, NEW t \in Past \cup Of(Config)
  PROVE  t \in AllComparisons(command) /\ t # None
<1>1. PICK k \in 1 .. Len(Configs(command)) : t \in Of(Configs(command)[k])
  <2>1. NamesOnce(Configs(command)) /\ Config = Configs(command)[at]
    BY ConfigList DEF Underway, Config
  <2>2. CASE t \in Past
    <3>1. PICK k \in 1 .. at - 1 : t \in Of(Configs(command)[k])
      BY <2>2 DEF Past
    <3> QED BY <2>1, <3>1 DEF Underway, NamesOnce
  <2>3. CASE t \in Of(Config)
    BY <2>1, <2>3 DEF Underway
  <2> QED BY <2>2, <2>3
<1>2. Configs(command)[k] \in ToSet(Configs(command))
  BY ConfigList DEF Underway, NamesOnce, ToSet
<1>3. t \in AllComparisons(command)
  BY <1>1, <1>2 DEF AllComparisons, Of
<1> QED BY <1>3, NoneAssumption DEF Underway

\* A tally stays as long as what it is about does.
LEMMA TallyKept ==
  ASSUME Tally, UNCHANGED <<command, total, fails, external_irqs, first_failure>>,
         Counted' = Counted, wrong' \cap Counted = wrong \cap Counted
  PROVE  Tally'
<1>1. {t \in Counted \ wrong' : InterruptSupported(command.family, t[2])}
        = {t \in Counted \ wrong : InterruptSupported(command.family, t[2])}
  OBVIOUS
<1>2. \A s, t : Earlier(s, t)' = Earlier(s, t)
  BY SameOrder
<1> QED BY <1>1, <1>2 DEF Tally

\* When a campaign stops, only its exit status is left to be said.
LEMMA Stopped ==
  ASSUME phase' = "idle", started' \in Nat, faults' \in Nat, ExitTrue'
  PROVE  CountInv'
BY DEF CountInv, PoolInv, ComparedInv

\* A step that touches neither pool nor report keeps the counts.
LEMMA CalmKept ==
  ASSUME CampaignInv, CountInv,
         UNCHANGED <<command, at, phase, poolVars, reportVars, exit, faults, historyVars>>
  PROVE  CountInv'
<1> USE DEF poolVars, reportVars, historyVars
<1>1. /\ Config' = Config /\ CoresNow' = CoresNow /\ Batch' = Batch /\ Past' = Past
      /\ Underway' = Underway /\ \A n : Comparison(n)' = Comparison(n)
  BY SameCampaign
<1>2. Tasks' = Tasks
  BY <1>1 DEF Tasks
<1>3. PoolInv'
  BY <1>1, <1>2 DEF CountInv, PoolInv
<1>4. Counted' = Counted
  BY <1>1 DEF Counted
<1>5. ComparedInv'
  BY <1>1 DEF CountInv, ComparedInv, Shown
<1>6. (phase # "idle" => Tally)'
  BY <1>4, TallyKept DEF CountInv
<1>7. ExitTrue'
  <2>1. SummaryExact' = SummaryExact
    BY SameOrder DEF SummaryExact
  <2> QED BY <1>1, <2>1 DEF CountInv, ExitTrue
<1> QED BY <1>3, <1>5, <1>6, <1>7 DEF CountInv

\* An interruption leaves no exit status.
LEMMA InterruptCounts == ASSUME CampaignInv, CountInv, Interrupt PROVE CountInv'
<1>1. phase' = "idle" /\ started' \in Nat /\ faults' \in Nat /\ exit' = None
  BY DEF Interrupt, CountInv, PoolInv
<1>2. ExitTrue'
  BY <1>1 DEF ExitTrue
<1> QED BY <1>1, <1>2, Stopped

\* A campaign starts with empty hands.
LEMMA StartCounts ==
  ASSUME CampaignInv, CountInv, NEW cmd \in Commands, Start(cmd)
  PROVE  CountInv'
<1>1. /\ command' = cmd /\ at' = 1 /\ phase' = "generate" /\ total' = 0 /\ fails' = 0
      /\ external_irqs' = 0 /\ first_failure' = None /\ faults' = 0 /\ wrong' = {}
      /\ compared' = {} /\ started' = 0 /\ running' = {} /\ results' = <<>> /\ consumed' = 0
  BY DEF Start, NewPool
<1>2. Underway'
  <2>1. NamesOnce(Configs(cmd)) /\ Len(Configs(cmd)) > 0
    BY ConfigList
  <2> QED BY <1>1, <2>1 DEF Underway, NamesOnce
<1>3. Past' = {}
  BY <1>1 DEF Past
<1>4. Counted' = {}
  BY <1>1, <1>3 DEF Counted
<1>5. Tasks' \in Nat
  <2>1. Tasks' = cmd.campaign
    BY <1>1, Zenon DEF Tasks
  <2> QED BY <2>1, CommandsAssumption
<1>6. PoolInv'
  BY <1>1, <1>2, <1>5 DEF PoolInv
<1>7. ComparedInv'
  BY <1>1, <1>3 DEF ComparedInv
<1>8. Tally'
  <2>1. IsFiniteSet({}) /\ Cardinality({}) = 0
    BY FS_EmptySet
  <2>2. {t \in {} : InterruptSupported(cmd.family, t[2])} = {} /\ {} \cap {} = {} /\ {} \ {} = {}
    OBVIOUS
  <2> QED BY <1>1, <1>4, <2>1, <2>2 DEF Tally
<1> QED BY <1>1, <1>6, <1>7, <1>8 DEF CountInv, ExitTrue

\* A new task is one that has not run.
LEMMA StartTaskCounts == ASSUME CampaignInv, CountInv, StartTask PROVE CountInv'
<1>1. /\ UNCHANGED <<command, at, phase, results, consumed, reportVars, exit, faults, historyVars>>
      /\ phase # "unwind" /\ started < Tasks /\ started' = started + 1
      /\ running' = running \cup {started + 1}
  BY DEF StartTask
<1>2. /\ Config' = Config /\ CoresNow' = CoresNow /\ Batch' = Batch /\ Past' = Past
      /\ Underway' = Underway /\ \A n : Comparison(n)' = Comparison(n)
  BY <1>1, SameCampaign
<1>3. Tasks' = Tasks
  BY <1>1, <1>2 DEF Tasks
<1>4. started \in Nat /\ phase # "idle"
  BY <1>1, TaskFacts DEF CountInv, PoolInv
<1>5. Tasks \in Nat
  <2>1. Batch \in Nat /\ Len(CoresNow) \in Nat /\ command.campaign \in Nat
    BY <1>4, BatchFacts DEF CountInv, PoolInv, NamesOnce
  <2> QED BY <1>1, <1>4, <2>1, TaskFacts DEF CampaignInv, DiskInv
<1>6. PoolInv'
  <2>1. started + 1 \notin 1 .. started /\ 1 .. started \subseteq 1 .. started + 1
    BY <1>4
  <2>2. running' \cap DOMAIN results' = {} /\ running' \cup DOMAIN results' \subseteq 1 .. started'
    BY <1>1, <1>4, <2>1 DEF CountInv, PoolInv
  <2>3. started' \in Nat /\ started' <= Tasks'
    BY <1>1, <1>3, <1>4, <1>5
  <2> QED BY <1>1, <1>2, <2>2, <2>3 DEF CountInv, PoolInv
<1>7. Counted' = Counted
  BY <1>1, <1>2 DEF Counted
<1>8. ComparedInv'
  BY <1>1, <1>2 DEF CountInv, ComparedInv, Shown, historyVars
<1>9. Tally'
  BY <1>1, <1>4, <1>7, TallyKept DEF CountInv, reportVars, historyVars
<1> QED BY <1>1, <1>4, <1>6, <1>8, <1>9 DEF CountInv, ExitTrue

\* A case that cannot be made was hit by a fault.
LEMMA GenerateCounts == ASSUME CampaignInv, CountInv, NEW t \in running, FinishGenerate(t) PROVE CountInv'
<1>1. PICK ok \in BOOLEAN :
        /\ running' = running \ {t} /\ results' = Put(results, t, ok)
        /\ faults' = IF ok THEN faults ELSE faults + 1
  BY DEF FinishGenerate, Return
<1>2. /\ UNCHANGED <<command, at, phase, started, consumed, reportVars, exit, historyVars>>
      /\ phase = "generate"
  BY DEF FinishGenerate
<1>3. /\ DOMAIN results' = DOMAIN results \cup {t} /\ results'[t] = ok
      /\ \A u \in DOMAIN results \ {t} : results'[u] = results[u]
  BY <1>1 DEF Put
<1>4. /\ Config' = Config /\ CoresNow' = CoresNow /\ Past' = Past
      /\ Underway' = Underway /\ \A n : Comparison(n)' = Comparison(n)
  BY <1>2, SameCampaign
<1>5. Tasks' = Tasks
  BY <1>2, <1>4 DEF Tasks
<1>6. faults \in Nat /\ faults' \in Nat /\ (faults > 0 => faults' > 0) /\ (~ok => faults' > 0)
  BY <1>1 DEF CountInv, PoolInv
<1>7. PoolInv'
  <2>1. running' \cap DOMAIN results' = {} /\ running' \cup DOMAIN results' \subseteq 1 .. started
    BY <1>1, <1>2, <1>3 DEF CountInv, PoolInv
  <2>2. \A u \in DOMAIN results' : results'[u] \in BOOLEAN /\ (results'[u] \/ faults' > 0)
    BY <1>2, <1>3, <1>6 DEF CountInv, PoolInv
  <2> QED BY <1>2, <1>4, <1>5, <1>6, <2>1, <2>2 DEF CountInv, PoolInv
<1>8. Counted' = Counted
  BY <1>2, <1>4 DEF Counted
<1>9. ComparedInv'
  BY <1>2, <1>4, <1>6 DEF CountInv, ComparedInv, historyVars
<1>10. Tally'
  BY <1>2, <1>8, TallyKept DEF CountInv, reportVars, historyVars
<1> QED BY <1>2, <1>7, <1>9, <1>10 DEF CountInv, ExitTrue

\* A core that cannot be built was hit by a fault, or is refused.
LEMMA BuildCounts == ASSUME CampaignInv, CountInv, NEW t \in running, FinishBuild(t) PROVE CountInv'
<1>1. PICK ok \in BOOLEAN :
        /\ running' = running \ {t} /\ results' = Put(results, t, ok)
        /\ faults' \in {faults, faults + 1}
        /\ ok \/ faults' = faults + 1 \/ Refused(command.family, CoresNow[t], Config)
  BY DEF FinishBuild, Return
<1>2. /\ UNCHANGED <<command, at, phase, started, consumed, reportVars, exit, historyVars>>
      /\ phase \in {"build", "unwind"}
  BY DEF FinishBuild
<1>3. /\ DOMAIN results' = DOMAIN results \cup {t} /\ results'[t] = ok
      /\ \A u \in DOMAIN results \ {t} : results'[u] = results[u]
  BY <1>1 DEF Put
<1>4. /\ Config' = Config /\ CoresNow' = CoresNow /\ Past' = Past
      /\ Underway' = Underway /\ \A n : Comparison(n)' = Comparison(n)
  BY <1>2, SameCampaign
<1>5. Tasks' = Tasks
  BY <1>2, <1>4 DEF Tasks
<1>6. faults \in Nat /\ faults' \in Nat /\ (faults > 0 => faults' > 0)
      /\ (ok \/ faults' > 0 \/ Refused(command.family, CoresNow[t], Config))
  BY <1>1 DEF CountInv, PoolInv
<1>7. PoolInv'
  <2>0. t \notin DOMAIN results
    BY <1>2 DEF CountInv, PoolInv
  <2>1. running' \cap DOMAIN results' = {} /\ running' \cup DOMAIN results' \subseteq 1 .. started
    BY <1>1, <1>2, <1>3 DEF CountInv, PoolInv
  <2>2. \A u \in DOMAIN results' :
          /\ results'[u] \in BOOLEAN
          /\ results'[u] \/ faults' > 0 \/ Refused(command.family, CoresNow[u], Config)
    BY <1>2, <1>3, <1>6 DEF CountInv, PoolInv
  <2>3. phase = "unwind" => \E u \in DOMAIN results' : ~results'[u]
    BY <1>3, <2>0 DEF CountInv, PoolInv
  <2> QED BY <1>2, <1>4, <1>5, <1>6, <2>1, <2>2, <2>3 DEF CountInv, PoolInv
<1>8. Counted' = Counted
  BY <1>2, <1>4 DEF Counted
<1>9. ComparedInv'
  BY <1>2, <1>4, <1>6 DEF CountInv, ComparedInv, historyVars
<1>10. Tally'
  BY <1>2, <1>8, TallyKept DEF CountInv, reportVars, historyVars
<1> QED BY <1>2, <1>7, <1>9, <1>10 DEF CountInv, ExitTrue

\* What a comparison says is what its runs showed, and only a fault can be wrong.
LEMMA Compared ==
  ASSUME CampaignInv, CountInv, NEW t \in running, FinishCompare(t)
  PROVE  \E bad \in BOOLEAN :
           /\ wrong' = wrong \cup (IF bad THEN {Comparison(t)} ELSE {})
           /\ faults' \in {faults, faults + 1} /\ (bad => faults' = faults + 1)
           /\ running' = running \ {t}
           /\ results' = Put(results, t, Verdict(bad, InterruptSupported(command.family, Config)))
<1> DEFINE traced == ~FinalStateOnly(Comparison(t)[1])
           irq == InterruptSupported(command.family, Config)
           seen(o) == IF Config \in {"min", "nano"} THEN [o EXCEPT !.marker = None] ELSE o
<1>1. PICK o \in {Clean} \cup Deviations :
        /\ Return(t, IF traced THEN CompareTrace(seen(o), irq) ELSE CompareFinalState(seen(o), irq))
        /\ faults' = IF o = Clean THEN faults ELSE faults + 1
        /\ wrong' = IF Agrees(seen(o), traced, irq) THEN wrong ELSE wrong \cup {Comparison(t)}
  BY DEF FinishCompare
<1>2. traced \in BOOLEAN /\ irq \in BOOLEAN
  BY DEF InterruptSupported
<1>3. seen(o) \in Observation
  <2>1. o \in Observation
    BY ObservationAssumption
  <2>2. [o EXCEPT !.marker = None] \in Observation
    BY <2>1 DEF Observation
  <2> QED BY <2>1, <2>2
<1>4. o = Clean => Agrees(seen(o), traced, irq)
  <2>1. Config # "nano"
    BY ConfigKnown DEF FinishCompare, CountInv, PoolInv, Underway, Config
  <2>2. Config = "min" => irq = FALSE
    BY DEF InterruptSupported
  <2> QED BY <1>2, <2>1, <2>2, CleanAgrees
<1> DEFINE bad == ~Agrees(seen(o), traced, irq)
<1>5. bad \in BOOLEAN
  BY DEF Agrees
<1>6. (IF traced THEN CompareTrace(seen(o), irq) ELSE CompareFinalState(seen(o), irq)) = Verdict(bad, irq)
  <2> HIDE DEF seen
  <2>1. CASE traced = TRUE
    BY <1>2, <1>3, <2>1, VerdictFair, Zenon
  <2>2. CASE traced = FALSE
    BY <1>2, <1>3, <2>2, VerdictFair, Zenon
  <2> QED BY <1>2, <2>1, <2>2
<1> HIDE DEF seen, traced, irq
<1>7. /\ wrong' = wrong \cup (IF bad THEN {Comparison(t)} ELSE {})
      /\ faults' \in {faults, faults + 1} /\ (bad => faults' = faults + 1)
  BY <1>1, <1>4
<1>8. running' = running \ {t} /\ results' = Put(results, t, Verdict(bad, irq))
  BY <1>1, <1>6 DEF Return
<1> HIDE DEF bad
<1> QED BY <1>5, <1>7, <1>8 DEF irq

\* A comparison that ends is a new one, and is not counted before its turn.
LEMMA CompareCounts == ASSUME CampaignInv, CountInv, NEW t \in running, FinishCompare(t) PROVE CountInv'
<1> DEFINE irq == InterruptSupported(command.family, Config)
<1>1. PICK bad \in BOOLEAN :
        /\ wrong' = wrong \cup (IF bad THEN {Comparison(t)} ELSE {})
        /\ faults' \in {faults, faults + 1} /\ (bad => faults' = faults + 1)
        /\ running' = running \ {t} /\ results' = Put(results, t, Verdict(bad, irq))
  BY Compared
<1>2. /\ UNCHANGED <<command, at, phase, started, consumed, reportVars, exit>>
      /\ phase = "compare" /\ compared' = compared \cup {Comparison(t)}
  BY DEF FinishCompare
<1>3. /\ DOMAIN results' = DOMAIN results \cup {t} /\ results'[t] = Verdict(bad, irq)
      /\ \A u \in DOMAIN results \ {t} : results'[u] = results[u]
  <2> HIDE DEF irq
  <2> QED BY <1>1 DEF Put
<1>4. /\ Config' = Config /\ CoresNow' = CoresNow /\ Batch' = Batch /\ Past' = Past
      /\ Underway' = Underway /\ \A n : Comparison(n)' = Comparison(n)
  BY <1>2, SameCampaign
<1>5. Tasks' = Tasks
  BY <1>2, <1>4 DEF Tasks
<1>6. /\ faults \in Nat /\ faults' \in Nat /\ (faults > 0 => faults' > 0) /\ (bad => faults' > 0)
  BY <1>1 DEF CountInv, PoolInv
<1>7. PoolInv'
  <2>1. running' \cap DOMAIN results' = {} /\ running' \cup DOMAIN results' \subseteq 1 .. started
    BY <1>1, <1>2, <1>3 DEF CountInv, PoolInv
  <2> QED BY <1>2, <1>4, <1>5, <1>6, <2>1 DEF CountInv, PoolInv
<1>8. /\ DOMAIN results \subseteq 1 .. Batch /\ t \in 1 .. Batch /\ t \notin DOMAIN results
      /\ Underway /\ Batch \in Nat
  <2>1. Underway /\ started \in Nat /\ started <= Batch
    BY <1>2, TaskFacts DEF CountInv, PoolInv
  <2>2. Batch \in Nat
    BY <2>1, BatchFacts
  <2> QED BY <1>2, <2>1, <2>2 DEF CountInv, PoolInv
<1>9. /\ compared = Past \cup {Comparison(u) : u \in DOMAIN results}
      /\ wrong \subseteq compared /\ (wrong # {} => faults > 0)
      /\ 1 .. consumed \subseteq DOMAIN results /\ \A u \in DOMAIN results : results[u] = Shown(u)
  BY <1>2, Zenon DEF CountInv, ComparedInv
<1>10. \A u \in DOMAIN results : Comparison(u) # Comparison(t)
  <2>1. \A u \in DOMAIN results : u < t \/ t < u
    BY <1>8
  <2> QED BY <1>8, <2>1, ComparisonsOrdered
<1>11. Comparison(t) \notin compared
  BY <1>8, <1>9, <1>10, PastEarlier
<1>12. ComparedInv'
  <2>1. compared' = Past \cup {Comparison(u) : u \in DOMAIN results'}
    BY <1>2, <1>3, <1>9
  <2>2. wrong' \subseteq compared' /\ (wrong' # {} => faults' > 0)
    BY <1>1, <1>2, <1>6, <1>9
  <2>3. \A u \in DOMAIN results' : results'[u] = Verdict(Comparison(u) \in wrong', irq)
    <3>1. results'[t] = Verdict(Comparison(t) \in wrong', irq)
      <4>1. bad <=> Comparison(t) \in wrong'
        BY <1>1, <1>9, <1>11
      <4> QED BY <1>3, <4>1, Zenon DEF Verdict
    <3>2. ASSUME NEW u \in DOMAIN results PROVE results'[u] = Verdict(Comparison(u) \in wrong', irq)
      <4>1. results'[u] = Verdict(Comparison(u) \in wrong, irq)
        BY <1>3, <1>8, <1>9 DEF Shown
      <4>2. Comparison(u) \in wrong <=> Comparison(u) \in wrong'
        BY <1>1, <1>10
      <4> QED BY <4>1, <4>2, Zenon DEF Verdict
    <3> QED BY <1>3, <3>1, <3>2
  <2>4. 1 .. consumed' \subseteq DOMAIN results'
    BY <1>2, <1>3, <1>9
  <2>5. \A u : Shown(u)' = Verdict(Comparison(u) \in wrong', irq)
    <3> HIDE DEF irq
    <3>1. InterruptSupported(command.family, Config)' = irq
      BY <1>2, <1>4 DEF irq
    <3> QED BY <1>4, <3>1 DEF Shown
  <2> HIDE DEF irq
  <2> QED BY <1>2, <1>4, <2>1, <2>2, <2>3, <2>4, <2>5, Zenon DEF ComparedInv
<1>13. Counted' = Counted
  BY <1>2, <1>4 DEF Counted
<1>14. wrong' \cap Counted = wrong \cap Counted
  <2>1. Counted \subseteq compared
    BY <1>2, <1>9 DEF Counted
  <2> QED BY <1>1, <1>11, <2>1
<1>15. Tally'
  BY <1>2, <1>13, <1>14, TallyKept DEF CountInv, reportVars
<1> QED BY <1>2, <1>7, <1>12, <1>15 DEF CountInv, ExitTrue

\* Nobody is failed, and no result is looked at, until every case is made.
LEMMA EndGenerateCounts == ASSUME CampaignInv, CountInv, EndGenerate PROVE CountInv'
<1>2. /\ phase = "generate" /\ Underway /\ faults \in Nat /\ started \in Nat
      /\ \A t \in DOMAIN results : results[t] \in BOOLEAN /\ (results[t] \/ faults > 0)
  BY Zenon DEF EndGenerate, CountInv, PoolInv
<1>3. CASE \E t \in DOMAIN results : ~results[t]
  <2>1. /\ phase' = "idle" /\ exit' = 1
        /\ UNCHANGED <<command, at, reportVars, faults, historyVars, poolVars>>
    BY <1>3 DEF EndGenerate, Exit
  <2>2. started' \in Nat /\ faults' \in Nat /\ faults' > 0
    BY <1>2, <1>3, <2>1 DEF poolVars
  <2>3. ~(at' > Len(Configs(command)'))
    <3>1. at \in 1 .. Len(Configs(command)) /\ Len(Configs(command)) \in Nat
      BY <1>2, ConfigList DEF Underway, NamesOnce
    <3> QED BY <2>1, <3>1 DEF poolVars
  <2>4. ExitTrue'
    BY <2>1, <2>2, <2>3 DEF ExitTrue
  <2> QED BY <2>1, <2>2, <2>4, Stopped
<1>4. CASE ~\E t \in DOMAIN results : ~results[t]
  <2>1. /\ phase' = "build" /\ UNCHANGED <<command, at, reportVars, exit, faults, historyVars>>
        /\ started' = 0 /\ running' = {} /\ results' = <<>> /\ consumed' = 0
    BY <1>4 DEF EndGenerate, NewPool
  <2>2. /\ Config' = Config /\ CoresNow' = CoresNow /\ Past' = Past /\ Underway' = Underway
    BY <2>1, SameCampaign
  <2>3. Tasks' = Len(CoresNow) /\ Len(CoresNow) \in Nat
    BY <1>2, <2>1, <2>2, BatchFacts, Zenon DEF Tasks, NamesOnce
  <2>4. PoolInv'
    BY <1>2, <2>1, <2>2, <2>3 DEF PoolInv
  <2>5. ComparedInv'
    BY <1>2, <2>1, <2>2 DEF CountInv, ComparedInv, historyVars
  <2>6. Counted' = Counted
    BY <1>2, <2>1, <2>2 DEF Counted
  <2>7. Tally'
    BY <1>2, <2>1, <2>6, TallyKept DEF CountInv, reportVars, historyVars
  <2> QED BY <2>1, <2>4, <2>5, <2>7 DEF CountInv, ExitTrue
<1> QED BY <1>3, <1>4

\* A build that failed leaves its result behind, for the exception.
LEMMA CollectBenchCounts == ASSUME CampaignInv, CountInv, CollectBench PROVE CountInv'
<1>1. /\ phase = "build" /\ Underway /\ faults \in Nat /\ started \in Nat
      /\ running \cap DOMAIN results = {} /\ running \cup DOMAIN results \subseteq 1 .. started
      /\ started <= Len(CoresNow)
      /\ \A t \in DOMAIN results :
           /\ results[t] \in BOOLEAN
           /\ results[t] \/ faults > 0 \/ Refused(command.family, CoresNow[t], Config)
  BY TaskFacts, Zenon DEF CollectBench, CountInv, PoolInv
<1>2. /\ UNCHANGED <<command, at, started, running, results, reportVars, exit, faults, historyVars>>
      /\ consumed + 1 \in DOMAIN results
      /\ phase' = IF results[consumed + 1] THEN "build" ELSE "unwind"
  BY DEF CollectBench, Returned
<1>3. phase' \in {"build", "unwind"} /\ (phase' = "unwind" => ~results[consumed + 1])
  BY <1>1, <1>2
<1>4. /\ Config' = Config /\ CoresNow' = CoresNow /\ Past' = Past /\ Underway' = Underway
  BY <1>2, SameCampaign
<1>5. phase' = "build" => Tasks' = Len(CoresNow)
  BY <1>4, Zenon DEF Tasks
<1>6. PoolInv'
  BY <1>1, <1>2, <1>3, <1>4, <1>5 DEF PoolInv
<1>7. ComparedInv'
  BY <1>1, <1>2, <1>3, <1>4 DEF CountInv, ComparedInv, historyVars
<1>8. Counted' = Counted
  BY <1>1, <1>3, <1>4 DEF Counted
<1>9. Tally'
  BY <1>1, <1>2, <1>8, TallyKept DEF CountInv, reportVars, historyVars
<1> QED BY <1>3, <1>6, <1>7, <1>9 DEF CountInv, ExitTrue

\* Nothing is compared before every testbench is there.
LEMMA EndBuildCounts == ASSUME CampaignInv, CountInv, EndBuild PROVE CountInv'
<1>1. phase = "build" /\ Underway /\ faults \in Nat
  BY DEF EndBuild, CountInv, PoolInv
<1>2. /\ phase' = "compare" /\ UNCHANGED <<command, at, reportVars, exit, faults, historyVars>>
      /\ started' = 0 /\ running' = {} /\ results' = <<>> /\ consumed' = 0
  BY DEF EndBuild, NewPool
<1>3. /\ Config' = Config /\ CoresNow' = CoresNow /\ Batch' = Batch /\ Past' = Past
      /\ Underway' = Underway /\ \A n : Comparison(n)' = Comparison(n)
  BY <1>2, SameCampaign
<1>4. Tasks' = Batch /\ Batch \in Nat
  <2>1. Tasks' = Batch'
    BY <1>2, Zenon DEF Tasks, Batch
  <2> QED BY <1>1, <1>3, <2>1, BatchFacts
<1>5. PoolInv'
  BY <1>1, <1>2, <1>3, <1>4 DEF PoolInv
<1>6. ComparedInv'
  BY <1>1, <1>2, <1>3 DEF CountInv, ComparedInv, historyVars
<1>7. Counted' = Counted
  BY <1>1, <1>2, <1>3 DEF Counted
<1>8. Tally'
  BY <1>1, <1>2, <1>7, TallyKept DEF CountInv, reportVars, historyVars
<1> QED BY <1>2, <1>5, <1>6, <1>8 DEF CountInv, ExitTrue

\* A campaign that raises was hit by a fault or asked for a core that is refused.
LEMMA RaiseCounts == ASSUME CampaignInv, CountInv, Raise PROVE CountInv'
<1>1. /\ phase = "unwind" /\ Underway /\ faults \in Nat /\ started \in Nat
      /\ DOMAIN results \subseteq 1 .. started /\ started <= Len(CoresNow)
      /\ \A t \in DOMAIN results : results[t] \/ faults > 0 \/ Refused(command.family, CoresNow[t], Config)
      /\ \E t \in DOMAIN results : ~results[t]
  BY Zenon DEF Raise, CountInv, PoolInv
<1>2. /\ phase' = "idle" /\ exit' = 1 /\ UNCHANGED <<command, at, poolVars, faults>>
  BY DEF Raise, Exit
<1>3. /\ Config' = Config /\ CoresNow' = CoresNow
  BY <1>2, SameCampaign
<1>4. faults > 0 \/ \E core \in ToSet(CoresNow) : Refused(command.family, core, Config)
  <2>1. PICK t \in DOMAIN results : ~results[t]
    BY <1>1
  <2>2. t \in DOMAIN CoresNow
    <3>1. DOMAIN CoresNow = 1 .. Len(CoresNow) /\ Len(CoresNow) \in Nat
      BY <1>1, BatchFacts DEF NamesOnce
    <3> QED BY <1>1, <2>1, <3>1
  <2>3. CoresNow[t] \in ToSet(CoresNow)
    BY <2>2 DEF ToSet
  <2> QED BY <1>1, <2>1, <2>3
<1>5. at \in 1 .. Len(Configs(command)) /\ Len(Configs(command)) \in Nat
  BY <1>1, ConfigList DEF Underway, NamesOnce
<1>6. ExitTrue'
  BY <1>2, <1>3, <1>4, <1>5 DEF ExitTrue
<1> QED BY <1>1, <1>2, <1>6, Stopped DEF poolVars

\* The next result is of a comparison not counted yet, later than all that are.
LEMMA NextCounted ==
  ASSUME CampaignInv, CountInv, phase = "compare", consumed < Batch,
         consumed + 1 \in DOMAIN results
  PROVE  LET task == Comparison(consumed + 1) IN
         /\ task # None /\ task \notin Counted /\ \A t \in Counted : Earlier(t, task)
         /\ task[2] = Config /\ results[consumed + 1] = Shown(consumed + 1)
<1> DEFINE task == Comparison(consumed + 1)
<1>1. Underway /\ consumed \in Nat /\ results[consumed + 1] = Shown(consumed + 1)
  BY DEF CountInv, PoolInv, ComparedInv, CampaignInv, DiskInv
<1>2. Batch \in Nat /\ consumed + 1 \in 1 .. Batch
  BY <1>1, BatchFacts
<1>3. task \in Of(Config)
  BY <1>1, <1>2, ComparisonOf
<1>4. task # None /\ task[2] = Config
  BY <1>1, <1>3, CountedKnown DEF Comparison
<1>5. ASSUME NEW t \in Counted PROVE Earlier(t, task) /\ t # task
  <2>1. CASE t \in Past
    BY <1>1, <1>2, <2>1, PastEarlier
  <2>2. CASE t \notin Past
    <3>1. PICK n \in 1 .. consumed : t = Comparison(n)
      BY <2>2, <1>5 DEF Counted
    <3>2. n \in 1 .. Batch /\ n < consumed + 1
      BY <1>1, <1>2, <3>1
    <3> QED BY <1>1, <1>2, <3>1, <3>2, ComparisonsOrdered
  <2> QED BY <2>1, <2>2
<1> QED BY <1>1, <1>4, <1>5

\* The tally takes up the next result.
LEMMA TallyGrows ==
  ASSUME CampaignInv, CountInv, CollectResult, Counted' = Counted \cup {Comparison(consumed + 1)}
  PROVE  Tally'
<1> DEFINE task == Comparison(consumed + 1)
           irq == InterruptSupported(command.family, Config)
           one == {t \in Counted \ wrong : InterruptSupported(command.family, t[2])}
           two == {t \in Counted' \ wrong : InterruptSupported(command.family, t[2])}
<1>1. /\ phase = "compare" /\ Tally /\ UNCHANGED <<command, wrong>>
      /\ consumed < Batch /\ consumed + 1 \in DOMAIN results
      /\ Count(task, results[consumed + 1])
  BY TaskFacts DEF CollectResult, Returned, CountInv, historyVars
<1>2. /\ task # None /\ task \notin Counted /\ \A t \in Counted : Earlier(t, task)
      /\ task[2] = Config /\ results[consumed + 1] = Verdict(task \in wrong, irq)
  BY <1>1, NextCounted DEF Shown
<1>3. /\ total' = total + 1 /\ fails' = IF task \in wrong THEN fails + 1 ELSE fails
      /\ external_irqs' = IF task \notin wrong /\ irq THEN external_irqs + 1 ELSE external_irqs
      /\ first_failure' = IF task \in wrong /\ first_failure = None THEN task ELSE first_failure
  <2> HIDE DEF task, irq
  <2>1. CASE task \in wrong
    <3>1. results[consumed + 1] = "FAIL"
      BY <1>2, <2>1 DEF Verdict
    <3> QED BY <1>1, <2>1, <3>1 DEF Count
  <2>2. CASE task \notin wrong /\ irq
    <3>1. results[consumed + 1] = "PASS external IRQ"
      BY <1>2, <2>2 DEF Verdict
    <3> QED BY <1>1, <2>2, <3>1 DEF Count
  <2>3. CASE task \notin wrong /\ ~irq
    <3>1. results[consumed + 1] = "PASS"
      BY <1>2, <2>3 DEF Verdict
    <3> QED BY <1>1, <2>3, <3>1 DEF Count
  <2> QED BY <2>1, <2>2, <2>3
<1>4. IsFiniteSet(Counted) /\ total = Cardinality(Counted)
  BY <1>1 DEF Tally
<1> HIDE DEF task, irq
<1>5. IsFiniteSet(Counted') /\ Cardinality(Counted') = total'
  <2>1. IsFiniteSet(Counted \cup {task}) /\ Cardinality(Counted \cup {task}) = Cardinality(Counted) + 1
    BY <1>2, <1>4, FS_AddElement
  <2>2. Counted' = Counted \cup {task}
    BY DEF task
  <2> QED BY <1>3, <1>4, <2>1, <2>2
<1>6. Counted' = Counted \cup {task}
  BY DEF task
<1>7. fails' = Cardinality(wrong \cap Counted')
  <2>1. fails = Cardinality(wrong \cap Counted) /\ IsFiniteSet(wrong \cap Counted)
    <3>1. IsFiniteSet(wrong \cap Counted)
      BY <1>4, FS_Subset
    <3> QED BY <1>1, <3>1 DEF Tally
  <2>2. CASE task \in wrong
    <3>1. wrong \cap Counted' = (wrong \cap Counted) \cup {task}
      BY <1>6, <2>2
    <3>2. task \notin wrong \cap Counted
      BY <1>2
    <3>3. Cardinality((wrong \cap Counted) \cup {task}) = Cardinality(wrong \cap Counted) + 1
      BY <2>1, <3>2, FS_AddElement
    <3> QED BY <1>3, <2>1, <2>2, <3>1, <3>3
  <2>3. CASE task \notin wrong
    <3>1. wrong \cap Counted' = wrong \cap Counted
      BY <1>6, <2>3
    <3> QED BY <1>3, <2>1, <2>3, <3>1
  <2> QED BY <2>2, <2>3
<1>8. external_irqs' = Cardinality(two)
  <2>1. external_irqs = Cardinality(one) /\ IsFiniteSet(one)
    <3>1. one \in SUBSET Counted
      OBVIOUS
    <3>2. IsFiniteSet(one)
      <4> HIDE DEF one
      <4> QED BY <1>4, <3>1, FS_Subset
    <3> QED BY <1>1, <3>2 DEF Tally
  <2>2. InterruptSupported(command.family, task[2]) <=> irq
    BY <1>2, Zenon DEF irq
  <2>3. CASE task \notin wrong /\ irq
    <3>1. two = one \cup {task} /\ task \notin one
      BY <1>2, <1>6, <2>2, <2>3
    <3> HIDE DEF one, two
    <3>2. Cardinality(one \cup {task}) = Cardinality(one) + 1
      BY <2>1, <3>1, FS_AddElement
    <3> QED BY <1>3, <2>1, <2>3, <3>1, <3>2
  <2>4. CASE ~(task \notin wrong /\ irq)
    <3>1. two = one
      BY <1>6, <2>2, <2>4
    <3> HIDE DEF one, two
    <3> QED BY <1>3, <2>1, <2>4, <3>1
  <2> QED BY <2>3, <2>4
<1>9. wrong \cap Counted' = {} => first_failure' = None
  BY <1>1, <1>3, <1>6 DEF Tally
<1>10. wrong \cap Counted' # {} =>
         /\ first_failure' \in wrong \cap Counted'
         /\ \A t \in (wrong \cap Counted') \ {first_failure'} : Earlier(first_failure', t)
  <2>1. \A t \in Counted : t # None
    <3>1. Counted \subseteq Past \cup Of(Config) /\ Underway
      <4>1. Underway /\ consumed \in Nat
        BY <1>1 DEF CountInv, PoolInv, CampaignInv, DiskInv
      <4>2. \A n \in 1 .. consumed : n \in 1 .. Batch
        BY <1>1, <4>1, BatchFacts
      <4>3. \A n \in 1 .. consumed : Comparison(n) \in Of(Config)
        BY <4>1, <4>2, ComparisonOf
      <4> QED BY <4>1, <4>3 DEF Counted
    <3> QED BY <3>1, CountedKnown
  <2>2. CASE wrong \cap Counted = {}
    BY <1>1, <1>3, <1>6, <2>2 DEF Tally
  <2>3. CASE wrong \cap Counted # {}
    <3>1. /\ first_failure \in wrong \cap Counted
          /\ \A t \in (wrong \cap Counted) \ {first_failure} : Earlier(first_failure, t)
      BY <1>1, <2>3 DEF Tally
    <3>2. first_failure' = first_failure
      BY <1>3, <2>1, <3>1
    <3> QED BY <1>2, <1>6, <3>1, <3>2
  <2> QED BY <2>2, <2>3
<1>11. \A s, t : Earlier(s, t)' = Earlier(s, t)
  BY <1>1, SameOrder
<1>12. two = {t \in Counted' \ wrong' : InterruptSupported(command'.family, t[2])} /\ wrong' = wrong
  BY <1>1
<1> HIDE DEF two, one
<1> QED BY <1>5, <1>7, <1>8, <1>9, <1>10, <1>11, <1>12 DEF Tally

\* Main counts the results in the order in which it submitted the comparisons.
LEMMA CollectResultCounts == ASSUME CampaignInv, CountInv, CollectResult PROVE CountInv'
<1>1. /\ phase = "compare" /\ consumed + 1 \in DOMAIN results /\ consumed' = consumed + 1
      /\ UNCHANGED <<command, at, phase, started, running, results, exit, faults, historyVars>>
  BY DEF CollectResult, Returned
<1>2. /\ Config' = Config /\ CoresNow' = CoresNow /\ Batch' = Batch /\ Past' = Past
      /\ Underway' = Underway /\ \A n : Comparison(n)' = Comparison(n)
  BY <1>1, SameCampaign
<1>3. Tasks' = Tasks
  BY <1>1, <1>2 DEF Tasks
<1>4. PoolInv'
  BY <1>1, <1>2, <1>3 DEF CountInv, PoolInv
<1>5. consumed \in Nat /\ 1 .. consumed + 1 = (1 .. consumed) \cup {consumed + 1}
  BY DEF CampaignInv, DiskInv
<1>6. ComparedInv'
  BY <1>1, <1>2, <1>5 DEF CountInv, ComparedInv, Shown, historyVars
<1>7. Counted' = Counted \cup {Comparison(consumed + 1)}
  BY <1>1, <1>2, <1>5 DEF Counted
<1>8. Tally'
  BY <1>7, TallyGrows
<1> QED BY <1>1, <1>4, <1>6, <1>8 DEF CountInv, ExitTrue

\* When all results of a configuration are counted, all its comparisons are.
LEMMA ConfigCounted ==
  ASSUME CampaignInv, CountInv, phase = "compare", consumed = Batch
  PROVE  Counted = Past \cup Of(Config) /\ compared = Counted
<1>1. /\ Underway /\ started <= Batch /\ DOMAIN results \subseteq 1 .. started
      /\ started \in Nat /\ 1 .. consumed \subseteq DOMAIN results
      /\ compared = Past \cup {Comparison(t) : t \in DOMAIN results}
  BY TaskFacts, Zenon DEF CountInv, PoolInv, ComparedInv
<1>2. Batch \in Nat
  BY <1>1, BatchFacts
<1>3. DOMAIN results = 1 .. Batch
  <2>1. \A t \in 1 .. started : t \in 1 .. Batch
    BY <1>1, <1>2
  <2>2. 1 .. Batch \subseteq DOMAIN results
    BY <1>1, Zenon
  <2> QED BY <1>1, <2>1, <2>2, Zenon
<1>4. Counted = Past \cup {Comparison(n) : n \in 1 .. Batch}
  BY Zenon DEF Counted
<1> QED BY <1>1, <1>3, <1>4, ComparisonsAll

\* The configurations up to the last are all there are.
LEMMA AllCounted ==
  ASSUME Underway, at = Len(Configs(command))
  PROVE  Past \cup Of(Config) = AllComparisons(command)
<1>1. DOMAIN Configs(command) = 1 .. at /\ at \in Nat /\ at > 0
  BY ConfigList DEF Underway, NamesOnce
<1>2. 1 .. at = (1 .. at - 1) \cup {at}
  BY <1>1
<1>3. Past \cup Of(Config) = UNION {Of(Configs(command)[k]) : k \in 1 .. at}
  BY <1>2 DEF Past, Config
<1>4. ToSet(Configs(command)) = {Configs(command)[k] : k \in 1 .. at}
  BY <1>1 DEF ToSet
<1> DEFINE gs == Configs(command)
<1>5. AllComparisons(command) = UNION {Of(g) : g \in ToSet(gs)}
  BY DEF AllComparisons, Of
<1> HIDE DEF gs
<1>6. UNION {Of(g) : g \in {gs[k] : k \in 1 .. at}} = UNION {Of(gs[k]) : k \in 1 .. at}
  <2>1. ASSUME NEW x PROVE x \in UNION {Of(g) : g \in {gs[k] : k \in 1 .. at}} <=> x \in UNION {Of(gs[k]) : k \in 1 .. at}
    OBVIOUS
  <2> QED BY <2>1, Zenon
<1> QED BY <1>3, <1>4, <1>5, <1>6, Zenon DEF gs

\* The exit status after the last configuration is true.
LEMMA LastConfigTrue ==
  ASSUME CampaignInv, CountInv, EndConfig, at = Len(Configs(command))
  PROVE  CountInv'
<1>1. /\ phase = "compare" /\ consumed = Batch /\ Tally /\ Underway /\ faults \in Nat
      /\ wrong \subseteq compared /\ (wrong # {} => faults > 0)
  BY TaskFacts, Zenon DEF EndConfig, CountInv, PoolInv, ComparedInv
<1>2. /\ at \in Nat /\ ~(at < Len(Configs(command)))
  BY <1>1, ConfigList DEF Underway, NamesOnce
<1>3. /\ at' = at + 1 /\ started' = 0 /\ phase' = "idle" /\ exit' = (IF fails > 0 THEN 1 ELSE 0)
      /\ UNCHANGED <<command, reportVars, faults, historyVars>>
  BY <1>2 DEF EndConfig, NewPool, Exit
<1>4. compared = Counted /\ Counted = AllComparisons(command) /\ wrong \cap Counted = wrong
  BY <1>1, ConfigCounted, AllCounted
<1>5. SummaryExact
  BY <1>1, <1>4 DEF Tally, SummaryExact
<1>6. SummaryExact'
  BY <1>3, <1>5, SameOrder DEF SummaryExact, reportVars, historyVars
<1>7. IsFiniteSet(wrong) /\ fails = Cardinality(wrong) /\ fails \in Nat
  <2>1. IsFiniteSet(wrong) /\ fails = Cardinality(wrong)
    BY <1>1, <1>4, FS_Subset DEF Tally
  <2> QED BY <2>1, FS_CardinalityType
<1>8. exit' = 0 => wrong' = {}
  <2>1. fails = 0 => wrong = {}
    BY <1>7, FS_EmptySet
  <2> QED BY <1>3, <1>7, <2>1 DEF historyVars
<1>9. exit' = 1 => faults' > 0
  <2>1. fails > 0 => wrong # {}
    BY <1>7, FS_EmptySet
  <2> QED BY <1>1, <1>3, <2>1
<1>10. at' > Len(Configs(command)')
  BY <1>2, <1>3
<1>11. ExitTrue'
  BY <1>6, <1>8, <1>9, <1>10 DEF ExitTrue
<1> QED BY <1>1, <1>3, <1>11, Stopped

\* A further configuration starts with an empty pool.
LEMMA EndConfigCounts == ASSUME CampaignInv, CountInv, EndConfig PROVE CountInv'
<1>1. /\ phase = "compare" /\ consumed = Batch /\ Tally /\ Underway /\ faults \in Nat
      /\ wrong \subseteq compared /\ (wrong # {} => faults > 0)
  BY TaskFacts, Zenon DEF EndConfig, CountInv, PoolInv, ComparedInv
<1>2. /\ at \in 1 .. Len(Configs(command)) /\ Len(Configs(command)) \in Nat
  BY <1>1, ConfigList DEF Underway, NamesOnce
<1>3. CASE at < Len(Configs(command))
  <2>1. /\ at' = at + 1 /\ phase' = "generate"
        /\ UNCHANGED <<command, reportVars, exit, faults, historyVars>>
        /\ started' = 0 /\ running' = {} /\ results' = <<>> /\ consumed' = 0
    BY <1>3 DEF EndConfig, NewPool
  <2>2. Underway'
    BY <1>1, <1>2, <1>3, <2>1 DEF Underway
  <2>3. Past' = Past \cup Of(Config)
    <3>1. 1 .. at = (1 .. at - 1) \cup {at} /\ at' - 1 = at
      BY <1>2, <2>1
    <3>2. \A g : Of(g)' = Of(g)
      BY <2>1 DEF Of
    <3>3. Past' = UNION {Of(Configs(command)[k]) : k \in 1 .. at}
      BY <2>1, <3>1, <3>2 DEF Past
    <3> QED BY <3>1, <3>3 DEF Past, Config
  <2>4. Counted = Past \cup Of(Config) /\ compared = Counted
    BY <1>1, ConfigCounted
  <2>5. Counted' = Counted
    BY <2>1, <2>3, <2>4 DEF Counted
  <2>6. Tasks' \in Nat /\ Tasks' > 0
    <3>1. Tasks' = command.campaign
      BY <2>1, Zenon DEF Tasks
    <3> QED BY <3>1, <1>1, BatchFacts
  <2>7. PoolInv'
    BY <1>1, <2>1, <2>2, <2>6 DEF PoolInv
  <2>8. ComparedInv'
    BY <1>1, <2>1, <2>3, <2>4 DEF ComparedInv, historyVars
  <2>9. Tally'
    BY <1>1, <2>1, <2>5, TallyKept DEF reportVars, historyVars
  <2> QED BY <2>1, <2>7, <2>8, <2>9 DEF CountInv, ExitTrue
<1>4. CASE at = Len(Configs(command))
  BY <1>4, LastConfigTrue
<1> QED BY <1>2, <1>3, <1>4

-----------------------------------------------------------------------------
\* Every step keeps pool, history and report in agreement.
LEMMA CountKept == ASSUME CampaignInv, CountInv, [Next]_vars PROVE CountInv'
<1>1. CASE EndGenerate
  BY <1>1, EndGenerateCounts
<1>2. CASE CollectBench
  BY <1>2, CollectBenchCounts
<1>3. CASE EndBuild
  BY <1>3, EndBuildCounts
<1>4. CASE Raise
  BY <1>4, RaiseCounts
<1>5. CASE CollectResult
  BY <1>5, CollectResultCounts
<1>6. CASE EndConfig
  BY <1>6, EndConfigCounts
<1>7. CASE StartTask
  BY <1>7, StartTaskCounts
<1>8. ASSUME NEW t \in running, FinishTask(t) PROVE CountInv'
  BY <1>8, GenerateCounts, BuildCounts, CompareCounts DEF FinishTask
<1>9. CASE Tick
  <2>1. UNCHANGED <<command, at, phase, poolVars, reportVars, exit, faults, historyVars>>
    BY <1>9 DEF Tick
  <2> QED BY <2>1, CalmKept
<1>10. CASE Interrupt
  BY <1>10, InterruptCounts
<1>11. ASSUME NEW f \in Edits, Edit(f) PROVE CountInv'
  <2>1. UNCHANGED <<command, at, phase, poolVars, reportVars, exit, faults, historyVars>>
    BY <1>11 DEF Edit
  <2> QED BY <2>1, CalmKept
<1>12. ASSUME NEW cmd \in Commands, Start(cmd) PROVE CountInv'
  BY <1>12, StartCounts
<1>13. CASE UNCHANGED vars
  <2>1. UNCHANGED <<command, at, phase, poolVars, reportVars, exit, faults, historyVars>>
    BY <1>13 DEF vars
  <2> QED BY <2>1, CalmKept
<1> QED BY <1>1, <1>2, <1>3, <1>4, <1>5, <1>6, <1>7, <1>8, <1>9, <1>10, <1>11, <1>12, <1>13
        DEF Next, Work

\* In every state the pool, the history and the report agree: CountInv.
THEOREM CountInvariant == Spec => []CountInv
<1>1. Init => CountInv
  BY DEF Init, CountInv, PoolInv, ComparedInv, ExitTrue
<1>2. CampaignInv /\ CountInv /\ [Next]_vars => CountInv'
  BY CountKept
<1> QED BY <1>1, <1>2, CampaignInvariant, PTL DEF Spec

\* The summary and the exit status of every campaign are true: ExitTrue.
THEOREM ExitsTrue == Spec => []ExitTrue
<1>1. CountInv => ExitTrue
  BY DEF CountInv
<1> QED BY <1>1, CountInvariant, PTL
=============================================================================
