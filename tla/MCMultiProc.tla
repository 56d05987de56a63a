---------------------------- MODULE MCMultiProc ----------------------------
(* Instances of MultiProc for TLC. *)
EXTENDS MultiProc

CONSTANTS initial, a, b, flag

MCProcesses == {initial, a, b}
MCTwoProcesses == {initial, a}
MCFlags == {flag}
MCNoFlags == {}

\* What the program does, run by run.
WaitOps == {"wait", "args", "timeout", "interrupt", "throw", "preempt"}
ArgsOps == {"wait", "args", "interrupt", "preempt"}
LifeOps == {"wait", "interrupt", "destroy", "restart", "end", "preempt",
            "arrest", "run_reason", "disable"}
LiveOps == {"wait", "interrupt", "destroy", "restart", "end"}
RestartOps == {"restart", "preempt"}

MCInitial == {<<initial, "function">>}
MCInitialAndInterrupts == {initial} \X {"function", "interrupt"}
MCAll == {initial, a, b} \X {"function"}
=============================================================================
