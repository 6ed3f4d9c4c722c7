---------------------------- MODULE MCRtspExchange ----------------------------
(***************************************************************************)
(* TLC instances of RtspExchange.                                          *)
(***************************************************************************)
EXTENDS RtspExchange

\* What is left on the stack: any byte but CR and LF, or CR.  (LF, which is
\* what an earlier call leaves, has the same effect as the first; what a read
\* that gives up does with the first, it may do with CR too, by giving up once
\* more.)
Leftover == {Byte("url", 0)}
Anything == {CR}

World(timely, onePiece, garbage) ==
    [timely |-> timely, onePiece |-> onePiece, garbage |-> garbage]

BestAndWorst == {World(TRUE, TRUE, Leftover), World(FALSE, FALSE, Anything)}
\* The server is gone when the last is made.
Session == <<"describe", "teardown", "setup">>
Describe == <<"options", "describe">>
InPieces == {World(TRUE, FALSE, Leftover)}
===============================================================================
