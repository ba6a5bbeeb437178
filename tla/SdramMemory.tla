----------------------------- MODULE SdramMemory -----------------------------
(***************************************************************************)
(* The SDRAM controller with its device: every clock edge moves both, the  *)
(* bus offers any command or none.  SdramPort is what the pair implements. *)
(***************************************************************************)
EXTENDS SdramController

CONSTANT Capacity  \* commands accepted and not answered, at most

ASSUME MemoryAssumption ==
  /\ Capacity \in Nat /\ Capacity >= Depth + CAS + 6
  /\ InitMemories \subseteq [Addr -> Word]
  /\ Nothing \notin {{}} \cup {{w} : w \in [Beats -> Line]}

VARIABLES
  owed,     \* history: commands accepted and not answered
  contents  \* history: memory, as of the commands answered

vars == <<controllerVars, deviceVars, owed, contents>>

TypeOK ==
  /\ ControllerTypeOK /\ DeviceTypeOK
  /\ owed \in Seq(Request)
  /\ contents \in [Addr -> Word]

Answered == IF mem_ack THEN Tail(owed) ELSE owed
Stored(mem, c) ==
  IF c.we THEN [mem EXCEPT ![c.addr] =
                  [b \in Beats |-> IF b \in c.mask THEN c.data[b] ELSE @[b]]]
  ELSE mem

\* One edge of the clock.
Clock(offer) ==
  /\ ControllerEdge(offer)
  /\ DeviceEdge(pin)
  /\ owed' = IF Accept(offer) THEN Answered \o offer ELSE Answered
  /\ contents' = IF mem_ack /\ owed # <<>> THEN Stored(contents, owed[1]) ELSE contents

Init ==
  /\ \E mem \in InitMemories : DeviceInit(mem) /\ contents = mem
  /\ ControllerInit
  /\ owed = <<>>

Next == \E offer \in {<<>>} \cup {<<c>> : c \in Requests} : Clock(offer)

Spec == Init /\ [][Next]_vars

-----------------------------------------------------------------------------
(* Safety. *)

Port == INSTANCE SdramPort WITH
  Request <- Requests, Silence <- Nothing, stall <- blocked_q,
  answer <- IF mem_ack THEN mem_rdata ELSE Nothing

\* Whatever rows are opened, closed and refreshed on the way, the bus sees a
\* queue in front of one memory: commands take effect in the order they were
\* accepted, each is answered once and in that order, and a drained controller
\* does not stall.
ImplementsPort == Port!Spec

\* No command breaks a timing or protocol rule of the device, and the data
\* lines never have two drivers.
DeviceRespected == PinLegal(pin)

\* Two pointers and one writer share the ring: an accepted command is never
\* written over one that the look-up or the head has still to read, not even
\* by the tail that is rewritten before acceptance.
RingFits ==
  /\ Len(ring) <= RingSize
  /\ ~full_q => Len(ring) < RingSize
  /\ Len(ring) = looked + pref_count_q
                 + (IF full_q THEN Depth ELSE fifo_q)

\* REFRESH_CYCLES leaves room to drain what is in the pipeline: the edges
\* from one refresh to the next are bounded by it and a fixed slack.
Longest ==
  LET waits == {TRFC, TRP, TRCD, TRAS, ReadWait, WriteWait}
  IN  CHOOSE n \in waits : \A m \in waits : m <= n
Slack == TRFC + TRP + Longest + 4
RefreshInTime == initialized => refresh_age <= RefreshCycles + Slack

\* The controller keeps its queue and its clock: no command is lost between the
\* pointers, no refresh is late.
ControllerKept == TypeOK /\ RingFits /\ RefreshInTime

-----------------------------------------------------------------------------
(* Liveness. *)

\* Refreshes come for ever, and yet every command is answered.
AllAnswered == (owed # <<>>) ~> mem_ack
=============================================================================
