------------------------------ MODULE SdramPort ------------------------------
(***************************************************************************)
(* What the SDRAM controller promises on its bus port (HARDWARE.md,        *)
(* "SDRAM": a queued word port with ordered responses).  Commands are      *)
(* accepted while it does not stall, take effect in the order they were    *)
(* accepted, and each is answered once, in that order.  It holds at most   *)
(* Capacity of them, and once it is ready it stalls only while it holds    *)
(* some.  SdramPath relies on exactly this.                                *)
(***************************************************************************)
EXTENDS Naturals, Sequences

CONSTANTS Addr, Beats, Word, Request, Capacity, Silence

VARIABLES contents,  \* memory, as of the commands answered so far
          owed,      \* commands accepted and not answered
          ready, stall,
          answer     \* Silence, or what the port answers in this cycle

portVars == <<contents, owed, ready, stall, answer>>

Effect(mem, c) ==
  IF c.we THEN [mem EXCEPT ![c.addr] =
                  [b \in Beats |-> IF b \in c.mask THEN c.data[b] ELSE @[b]]]
  ELSE mem
Answer(mem, c) == IF c.we THEN {} ELSE {mem[c.addr]}

Init ==
  /\ contents \in [Addr -> Word]
  /\ owed = <<>>
  /\ ready = FALSE
  /\ stall = TRUE
  /\ answer = Silence

Edge(offer) ==
  /\ owed' = (IF answer # Silence THEN Tail(owed) ELSE owed)
             \o (IF stall THEN <<>> ELSE offer)
  /\ Len(owed') <= Capacity
  /\ contents' = IF answer # Silence THEN Effect(contents, owed[1]) ELSE contents
  /\ \/ answer' = Silence
     \/ owed' # <<>> /\ answer' = Answer(contents', owed'[1])
  /\ ready' \in {ready, TRUE}
  /\ stall' => ~ready \/ owed' # <<>>

Next == \E offer \in {<<>>} \cup {<<c>> : c \in Request} : Edge(offer)

Spec == Init /\ [][Next]_portVars
=============================================================================
