----------------------------- MODULE ChainQueue -----------------------------
(***************************************************************************)
(* What a virtqueue promises, without its rings: the device completes the  *)
(* chains in the order the driver published them, each once, and the       *)
(* driver takes the completions in that order.  A reset forgets both.      *)
(***************************************************************************)
EXTENDS Naturals, Sequences

CONSTANT Chains            \* the chains a driver publishes

VARIABLES published,       \* the chains the device has yet to complete
          completed        \* the completions the driver has yet to take

AbsInit == published = <<>> /\ completed = <<>>

Publish(c) ==
    /\ published' = Append(published, c)
    /\ UNCHANGED completed

Complete ==
    /\ published # <<>>
    /\ completed' = Append(completed, Head(published))
    /\ published' = Tail(published)

Take ==
    /\ completed # <<>>
    /\ completed' = Tail(completed)
    /\ UNCHANGED published

Forget == published' = <<>> /\ completed' = <<>>

AbsNext == (\E c \in Chains : Publish(c)) \/ Complete \/ Take \/ Forget

AbsSpec == AbsInit /\ [][AbsNext]_<<published, completed>>
=============================================================================
