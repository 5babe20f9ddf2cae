---------------------------- MODULE MCScreenCast ----------------------------
(* Symmetry for the safety runs of ScreenCast: calls of one kind, paths    *)
(* and applications are interchangeable.                                   *)
EXTENDS ScreenCast, TLC

Symmetry ==
    UNION {Permutations(S) : S \in {Paths, Apps, CreateCalls, SelectCalls,
                                    StartCalls, CloseCalls}}

(* reply is written and never read by an action: runs whose properties do  *)
(* not mention it identify states that differ in nothing else.             *)
View == <<sessions, objects, queue, pc, path, app, closedReq, cast,
          completed, stopped, reserved, worker, blocked, closedSig, overlapped>>
=============================================================================
