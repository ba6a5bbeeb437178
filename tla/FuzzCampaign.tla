---------------------------- MODULE FuzzCampaign ----------------------------
(***************************************************************************)
(* A campaign of the fuzzer (main of tools/riscc_fuzz.py): for each        *)
(* configuration it generates a case per seed, brings a testbench per core *)
(* up to date and compares every core with the simulator on every case,    *)
(* each in a thread pool.  Campaigns run one after the other in the same   *)
(* directory; between them the sources are edited.  Interruptions, failing *)
(* steps and wrong cores happen up to MaxFaults times.                     *)
(***************************************************************************)
EXTENDS Integers, Sequences, SequencesExt

CONSTANTS
  Commands,      \* records [family, config, cores, campaign]; None for an absent option
  Jobs,          \* --jobs
  Clean,         \* what the two runs of a case show when the core is right
  Deviations,    \* and when something is wrong: records like Clean
  Edits,         \* the sources of which one is edited, once
  MaxTime, MaxFaults, MaxCampaigns,   \* bounds; the faults are those of one campaign
  None

ASSUME JobsAssumption == Jobs \in Nat \ {0}

\* ---- configurations and cores ----
Rc16Configs == <<"min", "sys", "full", "full-mulh", "full-muldiv">>
Profiles == {"min", "sys", "full"}
Mdu == {"full-mulh", "full-muldiv"}
Serial16 == {"rc16-1", "rc16-2", "rc16-4", "rc16-8", "serial16-1", "serial16-8"}
Serial32 == {"rc32-1", "rc32-2", "rc32-4", "rc32-8", "rc32-16", "serial32-1", "serial32-16"}
Wide16 == {"wide16", "rc16-16", "rc16-mulh", "rc16-muldiv"}
Fast16 == {"fast-soft", "fast-dsp", "fast-agilex-soft", "fast-agilex-dsp"}
Fast32 == {"fast32-soft", "fast32-dsp", "fast32-agilex-soft", "fast32-agilex-dsp"}
Cached == {"cached-dsp", "cached-agilex-dsp", "cached32-dsp", "cached32-agilex-dsp"}

\* Cores without a retirement trace are compared by their final memory.
FinalStateOnly(core) == core \in Fast16 \cup Fast32 \cup Cached
TraceSupported(family, core) ==
  \/ family = "nano" /\ core = "nano"
  \/ family = "rc16" /\ core \in Serial16 \cup Wide16
  \/ family = "rc32" /\ core \in Serial32 \cup {"wide32"}
InterruptSupported(family, config) == family # "nano" /\ config # "min"

DefaultConfigs(family) ==
  CASE family = "nano" -> <<"nano">>
    [] family = "rc32" -> <<"min", "sys", "full">>
    [] family = "fast" -> <<"full">>
    [] family = "rc16" -> Rc16Configs
DefaultCores(family, config) ==
  CASE family = "nano" -> <<"nano">>
    [] family = "rc32" -> <<"rc32-1", "rc32-2", "rc32-4", "rc32-8", "rc32-16">>
    [] family = "fast" -> <<"fast-soft", "fast-dsp", "fast-agilex-soft", "fast-agilex-dsp">>
    [] config = "full-mulh" -> <<"rc16-mulh">>
    [] config = "full-muldiv" -> <<"rc16-muldiv">>
    [] OTHER -> <<"rc16-1", "rc16-2", "rc16-4", "rc16-8", "rc16-16">>
\* --config is one of these; --campaign is positive; --cores is a list that names a
\* core once.  Nano is left out: riscc_rf.vh, which riscc_nano.v includes, is not
\* among its Dependencies, so an edit of it would go unnoticed.
ValidConfigs(family) == IF family = "rc32" THEN Rc16Configs ELSE DefaultConfigs(family)
ASSUME CommandsAssumption ==
  \A cmd \in Commands :
    /\ cmd.family \in {"rc16", "rc32", "fast"} /\ cmd.campaign \in Nat \ {0}
    /\ cmd.config # None => cmd.config \in ToSet(ValidConfigs(cmd.family))
    /\ cmd.cores # None => cmd.cores \in Seq(STRING) /\ IsInjective(cmd.cores)

Configs(cmd) == IF cmd.config # None THEN <<cmd.config>> ELSE DefaultConfigs(cmd.family)
Cores(cmd, config) == IF cmd.cores # None THEN cmd.cores ELSE DefaultCores(cmd.family, config)

\* ---- build_tb ----
\* The combinations that raise ValueError, for a core of the family or of another;
\* the names of Fast and Cached cores are free of a family.
Refused(family, core, config) ==
  \/ family # "fast" /\ core \notin Fast32 \cup Cached /\ ~TraceSupported(family, core)
  \/ family = "fast" /\ core \notin Wide16 \cup {"wide32"} \cup Fast16 \cup Fast32 \cup Cached
  \/ core \in {"rc16-mulh", "rc16-muldiv"}
       /\ config # (IF core = "rc16-mulh" THEN "full-mulh" ELSE "full-muldiv")
  \/ core = "rc16-16" /\ config \in Mdu
  \/ core \in Serial16 \cup Serial32 /\ config \notin Profiles
  \/ FinalStateOnly(core) /\ config # "full"

Harness == {"riscc_fuzz.py", "riscc_test.cpp", "riscc_trace_ports.vh", "riscc_trace_state.vh",
            "riscc_trace_ports32.vh", "riscc_trace_state32.vh"}
Top(core) ==
  CASE core \in Serial16 \cup Serial32 -> "riscc_serial"
    [] core \in Wide16 \cup {"wide32"} -> "riscc_wide"
    [] core \in Fast16 \cup Fast32 -> "riscc_fast"
    [] core \in Cached -> "riscc_cached_test_top"
    [] core = "nano" -> "riscc_nano"
\* The sources whose times decide whether a testbench is built again.
Dependencies(core) ==
  Harness \cup
  CASE Top(core) = "riscc_serial" -> {"riscc_serial.v", "riscc_rf.vh"}
    [] Top(core) = "riscc_wide" -> {"riscc_wide.v", "riscc_rf.vh"}
    [] Top(core) = "riscc_fast" -> {"riscc_fast.v", "riscc_pipeline_shared.v"}
    [] Top(core) = "riscc_cached_test_top" ->
         {"riscc_cached.v", "riscc_pipeline_shared.v", "riscc_cached_test_top.v"}
    [] Top(core) = "riscc_nano" -> {"riscc_nano.v"}
\* The sources that Verilator reads: those given and those they include.
Read(core) == Dependencies(core) \cup IF core = "nano" THEN {"riscc_rf.vh"} ELSE {}
Files ==
  UNION {Read(c) : c \in Serial16 \cup Serial32 \cup Wide16 \cup {"wide32"} \cup Fast16 \cup Fast32
                         \cup Cached \cup {"nano"}}

\* Where the testbench of a core is kept.
Directory(core, config) ==
  IF core = "nano" \/ FinalStateOnly(core) THEN <<core>> ELSE <<core, config>>

\* ---- compare_trace and compare_final_state ----
\* An observation has the two runs' traces and memories, whether each run ended
\* well and reported a pass, the cycle of the body marker, and the same of the
\* run with an external interrupt.
Differs(one, two) == \E n \in 1 .. IF Len(one) < Len(two) THEN Len(one) ELSE Len(two) : one[n] # two[n]
LowCycle(marker) == IF marker \div 20 > 5 THEN marker \div 20 ELSE 5
\* Mutant: a trace that stops early passes.
TraceDiffersPrefix(o) == Differs(o.issTrace, o.rtlTrace)
TraceDiffers(o) == Differs(o.issTrace, o.rtlTrace) \/ Len(o.issTrace) # Len(o.rtlTrace)
MemoryDiffers(o) == Differs(o.issMem, o.rtlMem) \/ Len(o.issMem) # Len(o.rtlMem)
MarkerBad(o) == o.marker = None \/ o.marker - 1 < LowCycle(o.marker)
IrqBad(o) == ~o.irq \/ o.irqMem # o.issMem
Verdict(failed, irq) == IF failed THEN "FAIL" ELSE IF irq THEN "PASS external IRQ" ELSE "PASS"
CompareTrace(o, irq) ==
  Verdict(\/ ~o.iss \/ ~o.rtl \/ TraceDiffers(o) \/ MemoryDiffers(o) \/ ~o.pass
          \/ (irq /\ (MarkerBad(o) \/ IrqBad(o))), irq)
CompareFinalState(o, irq) ==
  Verdict(\/ ~o.iss \/ ~o.rtl \/ o.issMem # o.rtlMem \/ ~o.pass
          \/ (irq /\ (MarkerBad(o) \/ IrqBad(o))), irq)

\* What the runs of a right comparison have in common.
Agrees(o, traced, irq) ==
  /\ o.iss /\ o.rtl /\ o.pass /\ o.issMem = o.rtlMem
  /\ traced => o.issTrace = o.rtlTrace
  /\ irq => /\ o.irq /\ o.irqMem = o.issMem
            /\ o.marker # None /\ \E c \in LowCycle(o.marker) .. o.marker : c < o.marker
Observation ==
  [iss : BOOLEAN, rtl : BOOLEAN, issTrace : Seq(Nat), rtlTrace : Seq(Nat), issMem : Seq(Nat),
   rtlMem : Seq(Nat), pass : BOOLEAN, marker : Nat \cup {None}, irq : BOOLEAN, irqMem : Seq(Nat)]
ASSUME ObservationAssumption ==
  {Clean} \cup Deviations \subseteq Observation /\ Agrees(Clean, TRUE, TRUE)

VARIABLES
  version, mtime, clock,   \* of every source file; the file system's clock
  bench,        \* the testbenches: what each was built from, and when
  command, at,  \* the command line and the number of the configuration
  phase,        \* "idle", "generate", "build", "compare", "unwind" (an exception)
  started, running, results,   \* the pool's tasks: how many started, which run, what they returned
  consumed,     \* how many results main has looked at
  total, fails, external_irqs, first_failure,
  exit,         \* the exit status of the last campaign
  faults, campaigns,
  wrong, compared   \* history: the comparisons that showed a deviation; all of them

diskVars == <<version, mtime, clock, bench>>
poolVars == <<started, running, results, consumed>>
reportVars == <<total, fails, external_irqs, first_failure>>
historyVars == <<wrong, compared>>
vars == <<diskVars, command, at, phase, poolVars, reportVars, exit, faults, campaigns, historyVars>>

Config == Configs(command)[at]
CoresNow == Cores(command, Config)
\* Core after core, seed after seed.
Comparison(n) == <<CoresNow[((n - 1) \div command.campaign) + 1], Config, (n - 1) % command.campaign>>
Tasks ==
  CASE phase = "generate" -> command.campaign
    [] phase = "build" -> Len(CoresNow)
    [] phase = "compare" -> Len(CoresNow) * command.campaign
    [] OTHER -> 0
\* Mutant: the main thread counts as a worker.
WorkersOneShort == IF Jobs < Tasks THEN Jobs - 1 ELSE Tasks - 1
Workers == IF Jobs < Tasks THEN Jobs ELSE Tasks

Init ==
  /\ version = [f \in Files |-> 0] /\ mtime = [f \in Files |-> 0] /\ clock = 0
  /\ bench = <<>>
  /\ command \in Commands /\ at = 1 /\ phase = "idle"
  /\ started = 0 /\ running = {} /\ results = <<>> /\ consumed = 0
  /\ total = 0 /\ fails = 0 /\ external_irqs = 0 /\ first_failure = None
  /\ exit = None /\ faults = 0 /\ campaigns = 0 /\ wrong = {} /\ compared = {}

\* A function with the value v at k.
Put(f, k, v) == [x \in DOMAIN f \cup {k} |-> IF x = k THEN v ELSE f[x]]

\* ---- the world around the campaigns ----
Tick == clock < MaxTime /\ clock' = clock + 1 /\ UNCHANGED <<version, mtime, bench, command, at,
          phase, poolVars, reportVars, exit, faults, campaigns, historyVars>>
Edit(f) ==
  /\ phase = "idle" /\ \A g \in Files : version[g] = 0   \* nobody edits under a running campaign
  /\ version' = [version EXCEPT ![f] = @ + 1] /\ mtime' = [mtime EXCEPT ![f] = clock]
  /\ UNCHANGED <<clock, bench, command, at, phase, poolVars, reportVars, exit, faults,
                 campaigns, historyVars>>
Interrupt ==
  /\ phase # "idle" /\ faults < MaxFaults
  /\ phase' = "idle" /\ exit' = None /\ faults' = faults + 1 /\ running' = {}
  /\ UNCHANGED <<diskVars, command, at, started, results, consumed, reportVars, campaigns,
                 historyVars>>

\* ---- the pool: tasks start in order and end in any order ----
NewPool == started' = 0 /\ running' = {} /\ results' = <<>> /\ consumed' = 0
StartTask ==
  /\ phase # "unwind" /\ started < Tasks /\ Cardinality(running) < Workers
  /\ started' = started + 1 /\ running' = running \cup {started + 1}
  /\ UNCHANGED <<diskVars, command, at, phase, results, consumed, reportVars, exit, faults,
                 campaigns, historyVars>>
Return(t, result) == running' = running \ {t} /\ results' = Put(results, t, result)
Returned(t) == t \in DOMAIN results

MayFail == faults < MaxFaults
\* make_case, or the exception that generate catches.
FinishGenerate(t) ==
  /\ phase = "generate"
  /\ \E ok \in {TRUE} \cup (IF MayFail THEN {FALSE} ELSE {}) :
       Return(t, ok) /\ faults' = IF ok THEN faults ELSE faults + 1
  /\ UNCHANGED <<diskVars, command, at, phase, started, consumed, reportVars, exit, campaigns,
                 historyVars>>

NewestSource(core) == Max({mtime[f] : f \in Dependencies(core)})
\* Mutant: a testbench as old as its youngest source counts as fresh.
FreshOrSame(core) ==
  Directory(core, Config) \in DOMAIN bench
    /\ bench[Directory(core, Config)].time >= NewestSource(core)
Fresh(core) ==
  Directory(core, Config) \in DOMAIN bench
    /\ bench[Directory(core, Config)].time > NewestSource(core)
Made(core) == [version |-> [f \in Read(core) |-> version[f]], time |-> clock]
\* A build that fails leaves the old testbench, and its time, where they are.
FinishBuild(t) ==
  LET core == CoresNow[t] IN
  /\ phase \in {"build", "unwind"}
  /\ \/ /\ Refused(command.family, core, Config)
        /\ Return(t, FALSE) /\ UNCHANGED <<bench, faults>>
     \/ /\ ~Refused(command.family, core, Config) /\ Fresh(core)
        /\ Return(t, TRUE) /\ UNCHANGED <<bench, faults>>
     \/ /\ ~Refused(command.family, core, Config) /\ ~Fresh(core)
        /\ Return(t, TRUE) /\ UNCHANGED faults
        /\ bench' = Put(bench, Directory(core, Config), Made(core))
     \/ /\ ~Refused(command.family, core, Config) /\ ~Fresh(core) /\ MayFail
        /\ Return(t, FALSE) /\ faults' = faults + 1 /\ UNCHANGED bench
  /\ UNCHANGED <<version, mtime, clock, command, at, phase, started, consumed, reportVars, exit,
                 campaigns, historyVars>>

FinishCompare(t) ==
  LET task == Comparison(t)
      traced == ~FinalStateOnly(task[1])
      irq == InterruptSupported(command.family, Config)
  IN /\ phase = "compare"
     /\ \E o \in {Clean} \cup (IF MayFail THEN Deviations ELSE {}) :
          LET seen == IF Config \in {"min", "nano"} THEN [o EXCEPT !.marker = None] ELSE o
          IN /\ Return(t, IF traced THEN CompareTrace(seen, irq) ELSE CompareFinalState(seen, irq))
             /\ faults' = IF o = Clean THEN faults ELSE faults + 1
             /\ wrong' = IF Agrees(seen, traced, irq) THEN wrong ELSE wrong \cup {task}
     /\ compared' = compared \cup {task}
     /\ UNCHANGED <<diskVars, command, at, phase, started, consumed, reportVars, exit, campaigns>>
FinishTask(t) == FinishGenerate(t) \/ FinishBuild(t) \/ FinishCompare(t)

\* ---- main ----
Start(cmd) ==
  /\ phase = "idle" /\ campaigns < MaxCampaigns
  /\ command' = cmd /\ at' = 1 /\ phase' = "generate" /\ exit' = None
  /\ total' = 0 /\ fails' = 0 /\ external_irqs' = 0 /\ first_failure' = None
  /\ faults' = 0 /\ campaigns' = campaigns + 1 /\ wrong' = {} /\ compared' = {}
  /\ NewPool /\ UNCHANGED diskVars
Exit(code) ==
  /\ phase' = "idle" /\ exit' = code
  /\ UNCHANGED <<diskVars, command, reportVars, faults, campaigns, historyVars>>

AllReturned == Cardinality(DOMAIN results) = Tasks
\* list(executor.map(generate)), then the first error in the order of the seeds.
EndGenerate ==
  /\ phase = "generate" /\ AllReturned
  /\ IF \E t \in DOMAIN results : ~results[t]
     THEN Exit(1) /\ UNCHANGED <<at, poolVars>>
     ELSE /\ phase' = "build" /\ NewPool
          /\ UNCHANGED <<diskVars, command, at, reportVars, exit, faults, campaigns, historyVars>>

\* list(executor.map(build_core)) raises at the first result that is an exception:
\* what has not started is cancelled, what runs is waited for.
CollectBench ==
  /\ phase = "build" /\ consumed < Tasks /\ Returned(consumed + 1)
  /\ consumed' = consumed + 1
  /\ phase' = IF results[consumed + 1] THEN phase ELSE "unwind"
  /\ UNCHANGED <<diskVars, command, at, started, running, results, reportVars, exit, faults,
                 campaigns, historyVars>>
EndBuild ==
  /\ phase = "build" /\ consumed = Tasks
  /\ phase' = "compare" /\ NewPool
  /\ UNCHANGED <<diskVars, command, at, reportVars, exit, faults, campaigns, historyVars>>
Raise == phase = "unwind" /\ running = {} /\ Exit(1) /\ UNCHANGED <<at, poolVars>>

\* Mutant: the first failure is the one that comes in last.
CountLast(task, detail) ==
  /\ total' = total + 1
  /\ fails' = IF detail # "FAIL" THEN fails ELSE fails + 1
  /\ external_irqs' = IF detail = "PASS external IRQ" THEN external_irqs + 1 ELSE external_irqs
  /\ first_failure' = IF detail # "FAIL" THEN first_failure ELSE task
Count(task, detail) ==
  /\ total' = total + 1
  /\ fails' = IF detail # "FAIL" THEN fails ELSE fails + 1
  /\ external_irqs' = IF detail = "PASS external IRQ" THEN external_irqs + 1 ELSE external_irqs
  /\ first_failure' = IF detail = "FAIL" /\ first_failure = None
                      THEN task ELSE first_failure
CollectResult ==
  /\ phase = "compare" /\ consumed < Tasks /\ Returned(consumed + 1)
  /\ consumed' = consumed + 1
  /\ Count(Comparison(consumed + 1), results[consumed + 1])
  /\ UNCHANGED <<diskVars, command, at, phase, started, running, results, exit, faults,
                 campaigns, historyVars>>
EndConfig ==
  /\ phase = "compare" /\ consumed = Tasks
  /\ at' = at + 1 /\ NewPool
  /\ IF at < Len(Configs(command))
     THEN /\ phase' = "generate"
          /\ UNCHANGED <<diskVars, command, reportVars, exit, faults, campaigns, historyVars>>
     ELSE Exit(IF fails > 0 THEN 1 ELSE 0)

Work ==
  \/ EndGenerate \/ CollectBench \/ EndBuild \/ Raise \/ CollectResult \/ EndConfig
  \/ StartTask \/ \E t \in running : FinishTask(t)
Next == Work \/ Tick \/ Interrupt \/ (\E f \in Edits : Edit(f)) \/ \E cmd \in Commands : Start(cmd)
\* The threads and the main thread keep running.
Spec == Init /\ [][Next]_vars /\ WF_vars(Work)

(***************************************************************************)
(* Properties.                                                             *)
(***************************************************************************)

\* No comparison runs on a testbench that was built from an older source: all
\* that Verilator reads is as it was when the testbench was built, whatever was
\* edited, built, interrupted and refused before, even within one tick of the
\* file system's clock.
TestbenchesCurrent ==
  phase = "compare" =>
    \A n \in DOMAIN CoresNow : LET d == Directory(CoresNow[n], Config) IN
      d \in DOMAIN bench /\ \A f \in Read(CoresNow[n]) : bench[d].version[f] = version[f]

AllComparisons(cmd) ==
  UNION {{<<c, g, s>> : c \in ToSet(Cores(cmd, g)), s \in 0 .. cmd.campaign - 1} : g \in ToSet(Configs(cmd))}
ASSUME NoneAssumption == \A cmd \in Commands : None \notin AllComparisons(cmd)
Rank(task) ==
  <<SelectInSeq(Configs(command), LAMBDA g : g = task[2]),
    SelectInSeq(Cores(command, task[2]), LAMBDA c : c = task[1]), task[3]>>
Earlier(one, two) ==
  LET p == Rank(one)
      q == Rank(two)
  IN \E k \in 1 .. 3 : p[k] < q[k] /\ \A j \in 1 .. k - 1 : p[j] = q[j]

\* The summary is true of what the runs showed, whichever order they ended in:
\* every core saw every case, the counts are exact, and the seed to replay is the
\* first of the order in which the comparisons were submitted.
SummaryExact ==
  /\ compared = AllComparisons(command)
  /\ total = Cardinality(compared) /\ fails = Cardinality(wrong)
  /\ external_irqs = Cardinality({t \in compared \ wrong : InterruptSupported(command.family, t[2])})
  /\ wrong = {} => first_failure = None
  /\ wrong # {} => first_failure \in wrong /\ \A t \in wrong \ {first_failure} : Earlier(first_failure, t)
\* The exit status: 0 exactly when nothing went wrong and no core was refused.
ExitTrue ==
  phase = "idle" /\ exit # None =>
    /\ at > Len(Configs(command)) => SummaryExact
    /\ exit = 0 => at > Len(Configs(command)) /\ wrong = {}
    /\ exit = 1 => \/ faults > 0
                   \/ /\ at <= Len(Configs(command))
                      /\ \E core \in ToSet(CoresNow) : Refused(command.family, core, Config)

\* A campaign ends: no pool waits for a task that nobody runs.
CampaignEnds == phase # "idle" ~> phase = "idle"
=============================================================================
