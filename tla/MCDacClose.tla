------------------------------ MODULE MCDacClose ------------------------------
(***************************************************************************)
(* DacControl with one observation more: whether a fault has happened      *)
(* since close() began. It says what a controlled shutdown is documented   *)
(* to do, and leaves out the shutdowns during which the hardware fails.    *)
(***************************************************************************)
EXTENDS DacControl

VARIABLE undisturbed    \* no fault since close() took the lock

MCRequested == {0, 30}

ObservedInit == DacInit /\ undisturbed = FALSE

ObservedNext ==
  /\ DacNext
  /\ undisturbed' = IF phase = "up" /\ phase' = "closing" THEN TRUE
                    ELSE undisturbed /\ faults' = faults

ObservedSpec == ObservedInit /\ [][ObservedNext]_<<dacVars, undisturbed>>

\* VENTILATION_CORE_STAGE1_IMPLEMENTATION_PL.md:47 says that on a controlled
\* shutdown both channels are zeroed. Stated of a close() during which nothing
\* fails: when it ends, both registers hold zero.
ControlledShutdownZeroes ==
  [][phase = "closing" /\ phase' = "closed" /\ undisturbed' => dac' = Off]_<<dacVars, undisturbed>>
==============================================================================
