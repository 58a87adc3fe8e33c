----------------------------- MODULE MCEventLoop -----------------------------
(* Instances of EventLoop for TLC: one acceptor loop, one or two workers,  *)
(* and three connections.                                                  *)
EXTENDS EventLoopInvariant, TLC

CONSTANTS main, w1, w2, c1, c2, c3

TwoFds == {5, 6}

(* The kernel gives descriptor 5 again as soon as it was closed, and one   *)
(* accept fails.                                                           *)
FdReused == c1 :> 5 @@ c2 :> 5 @@ c3 :> -1
==============================================================================
