---------------------------- MODULE MCTcpServer ----------------------------
(* Instances of TcpServer: one acceptor loop with one or two pool threads. *)
EXTENDS TcpServer, TLC

CONSTANTS main, w1, w2, c1, c2, c3, c4

TwoThreads == <<w1, w2>>
OneThread == <<w1>>

TwoFds == {5, 6}

(* A client gone before its accept, between two connections.               *)
OneFailedAccept == c1 :> 5 @@ c2 :> -1 @@ c3 :> 6

(* The same, with a connection behind them that would get descriptor 5     *)
(* again if it were closed.                                                *)
FourAccepts == c1 :> 5 @@ c2 :> -1 @@ c3 :> 6 @@ c4 :> 5
============================================================================
