----------------------------- MODULE SdramFabric -----------------------------
(***************************************************************************)
(* The arbiter between the CPU's bridge and the video fetch in the SDRAM   *)
(* clock domain (riscc_sdram_fabric,                                       *)
(* boards/shared/rtl/riscc_sdram_fabric.v).                                *)
(*                                                                         *)
(* A grant goes to one master and, for the CPU, to one direction.  It ends *)
(* after ReadLimit reads, or when its master has no request or, for CPU    *)
(* writes, when someone else waits; then every answer still owed drains    *)
(* before the next grant.                                                  *)
(*                                                                         *)
(* One step is one edge of memory_clk.  Its inputs are the record io:      *)
(*   io.host, io.host_we    host_stb and host_we                           *)
(*   io.video               video_stb                                      *)
(*   io.stall, io.response  memory_stall and memory_ack                    *)
(*   io.ready               memory_ready                                   *)
(***************************************************************************)
EXTENDS Integers

CONSTANTS
  ReadLimit,      \* words of a read grant, 16
  PendingModulus  \* pending_q counts modulo this, 32

ASSUME FabricAssumption ==
  /\ ReadLimit \in Nat \ {0}
  /\ PendingModulus \in Nat \ {0}

VARIABLES
  grant,          \* state_q, one-hot: which bit is set
  owner_video_q,  \* the grant is, or was, the video fetch's
  owner_write_q,  \* the grant is, or was, for CPU writes
  last_video_q,   \* the last grant was the video fetch's
  grant_issued_q, \* issued_q: commands accepted under the grant
  pending_q       \* commands accepted and not answered

fabricVars == <<grant, owner_video_q, owner_write_q, last_video_q, grant_issued_q, pending_q>>

Grants == {"IDLE", "CPU", "VIDEO", "DRAIN"}

FabricTypeOK ==
  /\ grant \in Grants
  /\ owner_video_q \in BOOLEAN
  /\ owner_write_q \in BOOLEAN
  /\ last_video_q \in BOOLEAN
  /\ grant_issued_q \in 0 .. ReadLimit - 1
  /\ pending_q \in 0 .. PendingModulus - 1

\* Mutant: the video fetch always goes first.
ChooseVideoFirst(io) == io.video

ChooseVideo(io) == io.video /\ (~io.host \/ ~last_video_q)

\* A write grant takes writes only.
HostDirectionMatches(io) == ~owner_write_q \/ io.host_we
HostWait(io) == grant # "CPU" \/ ~HostDirectionMatches(io) \/ io.stall
VideoStall(io) == grant # "VIDEO" \/ io.stall
CpuAccept(io) == io.host /\ ~HostWait(io)
VideoAccept(io) == io.video /\ ~VideoStall(io)
Accept(io) == CpuAccept(io) \/ VideoAccept(io)

\* A write is acknowledged when the controller takes it; the controller's own
\* answer to it only drains the grant.
HostAck(io) ==
  \/ io.host /\ io.host_we /\ grant = "CPU" /\ ~io.stall
  \/ io.response /\ ~owner_video_q /\ ~owner_write_q
VideoAck(io) == io.response /\ owner_video_q

Start(io) == grant = "IDLE" /\ io.ready /\ (io.host \/ io.video)
ReadLimitReached(io) == grant_issued_q = ReadLimit - 1 /\ ~io.stall
\* Mutant: a write grant does not give way to the video fetch.
FinishCpuKeeps(io) ==
  IF owner_write_q THEN io.host /\ ~io.host_we
  ELSE ~io.host \/ ReadLimitReached(io)

FinishCpu(io) ==
  IF owner_write_q THEN io.video \/ (io.host /\ ~io.host_we)
  ELSE ~io.host \/ ReadLimitReached(io)
FinishVideo(io) == ~io.video \/ ReadLimitReached(io)

\* Mutant: the next grant does not wait for the answers still owed.
GrantStepNoDrain(io) ==
  grant' =
    CASE Start(io) -> IF ChooseVideo(io) THEN "VIDEO" ELSE "CPU"
      [] grant = "CPU" /\ FinishCpu(io) -> "DRAIN"
      [] grant = "VIDEO" /\ FinishVideo(io) -> "DRAIN"
      [] grant = "DRAIN" -> "IDLE"
      [] OTHER -> grant

GrantStep(io) ==
  grant' =
    CASE Start(io) -> IF ChooseVideo(io) THEN "VIDEO" ELSE "CPU"
      [] grant = "CPU" /\ FinishCpu(io) -> "DRAIN"
      [] grant = "VIDEO" /\ FinishVideo(io) -> "DRAIN"
      [] grant = "DRAIN" /\ pending_q = 0 -> "IDLE"
      [] OTHER -> grant

OwnerStep(io) ==
  IF Start(io)
  THEN /\ owner_video_q' = ChooseVideo(io)
       /\ owner_write_q' = (~ChooseVideo(io) /\ io.host_we)
       /\ last_video_q' = ChooseVideo(io)
  ELSE UNCHANGED <<owner_video_q, owner_write_q, last_video_q>>

CountStep(io) ==
  /\ grant_issued_q' = IF Start(io) THEN 0
                 ELSE IF Accept(io) THEN (grant_issued_q + 1) % ReadLimit ELSE grant_issued_q
  /\ pending_q' = IF Start(io) THEN 0
                  ELSE (pending_q + (IF Accept(io) THEN 1 ELSE 0)
                                  + (IF io.response THEN PendingModulus - 1 ELSE 0))
                       % PendingModulus

FabricEdge(io) == GrantStep(io) /\ OwnerStep(io) /\ CountStep(io)

FabricInit ==
  /\ grant = "IDLE"
  /\ owner_video_q = FALSE
  /\ owner_write_q = FALSE
  /\ last_video_q = FALSE
  /\ grant_issued_q = 0
  /\ pending_q = 0
=============================================================================
