--------------------------- MODULE MCFuzzCampaign ---------------------------
(***************************************************************************)
(* FuzzCampaign on a few command lines.                                    *)
(***************************************************************************)
EXTENDS FuzzCampaign

Campaign(family, config, cores, n) ==
  [family |-> family, config |-> config, cores |-> cores, campaign |-> n]

\* A right core, and one thing wrong at a time.
MCClean ==
  [iss |-> TRUE, rtl |-> TRUE, issTrace |-> <<1, 2>>, rtlTrace |-> <<1, 2>>, issMem |-> <<1>>,
   rtlMem |-> <<1>>, pass |-> TRUE, marker |-> 200, irq |-> TRUE, irqMem |-> <<1>>]
MCDeviations ==
  {[MCClean EXCEPT !.rtl = FALSE], [MCClean EXCEPT !.pass = FALSE],
   [MCClean EXCEPT !.rtlTrace = <<1, 3>>], [MCClean EXCEPT !.rtlTrace = <<1>>],
   [MCClean EXCEPT !.rtlMem = <<>>], [MCClean EXCEPT !.marker = 5],
   [MCClean EXCEPT !.irq = FALSE], [MCClean EXCEPT !.irqMem = <<1, 2>>]}

\* Serial, wide, cached and fast cores, compared by trace and by final state, with and
\* without interrupts; the last command names a core that its configuration refuses.
MCCommands ==
  {Campaign("rc16", "sys", <<"rc16-1", "rc16-16">>, 2), Campaign("rc32", None, <<"rc32-8">>, 1),
   Campaign("rc16", "full", <<"rc16-1", "rc16-16", "cached-dsp">>, 1),
   Campaign("fast", None, <<"fast-soft">>, 1),
   Campaign("rc16", "full-mulh", <<"rc16-mulh", "rc16-1">>, 1)}
=============================================================================
