---------------------------- MODULE MCInterrupts ----------------------------
(* Instances of Interrupts for TLC: the scheduler's preemption signal and
   that of RUN-PROGRAM, which installs its handler every time it is called. *)
EXTENDS Interrupts
CONSTANTS SIGALRM, SIGCHLD

MCSignals == {SIGALRM, SIGCHLD}
MCNoBlock == {}
MCBlockAlrm == {SIGALRM}
MCInstallChld == {SIGCHLD}
=============================================================================
