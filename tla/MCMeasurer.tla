----------------------------- MODULE MCMeasurer -----------------------------
(* Two nodes.  The one measured first is spun by one thread and may crash or *)
(* be started again when it is done; the other is spun by two threads.       *)
EXTENDS Measurer, TLC

MCSubTopic  == 0 :> {"a", "b"} @@ 1 :> {"a", "b"}
MCCore      == 0 :> 1 @@ 1 :> 2
MCThreads   == 0 :> {"spin1", "spin2"} @@ 1 :> {"spin"}
MCMaxStarts == 0 :> 1 @@ 1 :> 2
=============================================================================
