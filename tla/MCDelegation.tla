---------------------------- MODULE MCDelegation ----------------------------
(* One pool entry with a single slot, so that every second bound request   *)
(* waits; a second pair of names is not in the pool.                       *)
EXTENDS Delegation, TLC

CONSTANTS local, absent, half, read

OnePool == {local}
OneSlot == local :> 1
TwoNames == {local, absent}

(* A body for every reason the delegate route looks at: bound, half bound  *)
(* or not, capped or not, with and without a capability.                   *)
Body(caps, cap, m) == [capabilities |-> caps, cap |-> cap, model |-> m]
MCBodies ==
  {Body({}, NoCap, local), Body({read}, 1, local), Body({read}, 1, half),
   Body({}, NoCap, absent)}

(* What is posted: a plain task; and one with a cap, a depth and a model   *)
(* of its own, which may stand under any other.                            *)
Post(caps, depth, cap, m) ==
  [capabilities |-> caps, depth |-> depth, cap |-> cap, model |-> m]
MCPosts == {Post({}, 0, NoCap, NoModel), Post({read}, 1, 1, local)}
PlainPosts == {Post({read}, 0, NoCap, NoModel)}
=============================================================================
