------------------------------ MODULE CpuPort ------------------------------
(***************************************************************************)
(* What a cache port of the Cached core promises its pipeline: behind it   *)
(* is one flat memory.  A request is in flight until its reply, one at a   *)
(* time; the next one may be accepted on the reply's own edge.  An accepted*)
(* store is visible at once to every later load, and a load is answered    *)
(* with what the memory holds when the answer is given.                    *)
(***************************************************************************)
CONSTANTS Addr, Lanes, Word,
          Request,    \* the requests the pipeline issues
          NoRequest,
          ExtWrites   \* writes another bus master may make

VARIABLES image,    \* the flat memory
          waiting,  \* the request in flight, or NoRequest
          got       \* the data answered on the last step: {} or one word

portVars == <<image, waiting, got>>

Overlay(old, sel, new) == [l \in Lanes |-> IF l \in sel THEN new[l] ELSE old[l]]
WithWrite(mem, r) == [mem EXCEPT ![r.addr] = Overlay(@, r.sel, r.wdata)]

Init ==
  /\ image \in [Addr -> Word]
  /\ waiting = NoRequest
  /\ got = {}

\* Another bus master's write: younger stores already accepted absorb some lanes.
Snooped(mem, x) ==
  {[mem EXCEPT ![x.addr] = Overlay(@, lanes, x.wdata)] : lanes \in SUBSET Lanes}
External(ext) ==
  IF ext = {} THEN {image} ELSE UNION {Snooped(image, x) : x \in ext}

Reply ==
  /\ waiting # NoRequest
  /\ got' = IF waiting.we THEN {} ELSE {image[waiting.addr]}

Step(reply, offer, ext) ==
  /\ offer = {} => waiting' = IF reply THEN NoRequest ELSE waiting
  /\ offer # {} => (waiting = NoRequest \/ reply) /\ waiting' \in offer
  /\ IF reply THEN Reply ELSE got' = {}
  /\ \E mem \in External(ext) :
       image' = IF offer # {} /\ waiting'.we THEN WithWrite(mem, waiting') ELSE mem

Next ==
  \E reply \in BOOLEAN, offer \in {{}} \cup {{r} : r \in Request},
     ext \in {{}} \cup {{x} : x \in ExtWrites} : Step(reply, offer, ext)

Spec == Init /\ [][Next]_portVars
=============================================================================
