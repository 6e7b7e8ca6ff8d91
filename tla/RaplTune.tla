------------------------------ MODULE RaplTune ------------------------------
(***************************************************************************)
(* CPU tuning on Linux: tuneInit() and tune() of native/linux/cpuoc.ts,    *)
(* one action per write to the powercap driver and per group of reads, and *)
(* the failure report of tune() in native/index.ts.  The driver may refuse *)
(* a write, clamp it, fail a read, or be changed by another program        *)
(* between two actions.                                                    *)
(*                                                                         *)
(* cpuCallQueue runs one tune at a time.                                   *)
(***************************************************************************)
EXTENDS Naturals

CONSTANTS
    MaxWatts,    \* the largest power limit, 200
    MaxTunes,    \* bound on the calls
    MaxFaults,   \* bound on refused, clamped and failing accesses
    MaxOutside   \* bound on the changes by others

ASSUME BoundsAssumption ==
    MaxWatts \in Nat /\ MaxTunes \in Nat /\ MaxFaults \in Nat /\ MaxOutside \in Nat

Watts == 0 .. MaxWatts
Limits == [{1, 2} -> Watts]   \* the long- and the short-term limit

VARIABLES
    driver,          \* constraint_*_power_limit_uw
    enabled,         \* the enabled flag of the package zone
    limits,          \* whether tuneInit has found the zone
    poisonedError,   \* an unverifiable rollback, kept for good
    step,            \* the next access of the running tune
    requested, previous, errors,
    programmed,      \* the limits of the last tune that succeeded
    restartRequired, \* what reportNativeFailure tells the clients
    tunes, faults, outside

vars == <<driver, enabled, limits, poisonedError, step, requested, previous, errors,
          programmed, restartRequired, tunes, faults, outside>>
locals == <<requested, previous, errors>>

Init ==
    /\ driver \in Limits /\ enabled \in BOOLEAN
    /\ limits = FALSE /\ poisonedError = FALSE /\ step = "idle"
    /\ requested = driver /\ previous = driver /\ errors = 0 /\ programmed = driver
    /\ restartRequired = FALSE
    /\ tunes = 0 /\ faults = 0 /\ outside = 0

Fault == faults < MaxFaults /\ faults' = faults + 1

\* A write to one limit: done, clamped to some other value, or refused.
Writes(i, watts) == driver' = [driver EXCEPT ![i] = watts] /\ UNCHANGED faults
Clamps(i) == (\E watts \in Watts : driver' = [driver EXCEPT ![i] = watts]) /\ Fault
Refuses == UNCHANGED driver /\ Fault

-----------------------------------------------------------------------------
ValidWatts(v) == \A i \in {1, 2} : v[i] <= MaxWatts

AnyTimeUsable == TRUE
Usable == ~poisonedError

\* Out of range, or the adapter is poisoned: the call has no effect.
TuneStarts ==
    /\ step = "idle" /\ tunes < MaxTunes /\ tunes' = tunes + 1
    /\ \E v \in [{1, 2} -> 0 .. MaxWatts + 1] :
        IF ValidWatts(v) /\ Usable
        THEN /\ requested' = v /\ errors' = 0
             /\ step' = IF limits THEN "before" ELSE "init"
        ELSE UNCHANGED <<requested, errors, step>>
    /\ UNCHANGED <<driver, enabled, limits, poisonedError, previous, programmed, restartRequired,
                   faults, outside>>

\* tuneInit: no zone with both limits, or one that is disabled, is an error.
TuneInit ==
    /\ step = "init"
    /\ \/ enabled /\ limits' = TRUE /\ step' = "before" /\ UNCHANGED faults
       \/ ~enabled /\ step' = "idle" /\ UNCHANGED <<limits, faults>>
       \/ Fault /\ step' = "idle" /\ UNCHANGED limits
    /\ UNCHANGED <<driver, enabled, poisonedError, locals, programmed, restartRequired, tunes, outside>>

ReadPrevious ==
    /\ step = "before"
    /\ \/ enabled /\ previous' = driver /\ step' = "write1" /\ UNCHANGED faults
       \/ ~enabled /\ step' = "idle" /\ UNCHANGED <<previous, faults>>
       \/ Fault /\ step' = "idle" /\ UNCHANGED previous
    /\ UNCHANGED <<driver, enabled, limits, poisonedError, requested, errors, programmed,
                   restartRequired, tunes, outside>>

Write(i) ==
    /\ step = <<"write1", "write2">>[i]
    /\ \/ /\ Writes(i, requested[i]) \/ Clamps(i)
          /\ step' = <<"write2", "verify">>[i] /\ UNCHANGED errors
       \/ Refuses /\ step' = "undo1" /\ errors' = 1
    /\ UNCHANGED <<enabled, limits, poisonedError, requested, previous, programmed, restartRequired,
                   tunes, outside>>

AnyApplied == driver[1] = requested[1] \/ driver[2] = requested[2]
Applied == driver = requested

RollsBack == step' = "undo1" /\ errors' = 1

\* The limits are read back, then the enabled flag.
VerifyLimits ==
    /\ step = "verify"
    /\ \/ Applied /\ step' = "enforced" /\ UNCHANGED <<errors, faults>>
       \/ ~Applied /\ RollsBack /\ UNCHANGED faults
       \/ Fault /\ RollsBack
    /\ UNCHANGED <<driver, enabled, limits, poisonedError, requested, previous, programmed,
                   restartRequired, tunes, outside>>

Enforced == enabled

\* The callers commit what was verified.
VerifyEnabled ==
    /\ step = "enforced"
    /\ \/ Enforced /\ step' = "idle" /\ programmed' = requested /\ UNCHANGED <<errors, faults>>
       \/ ~Enforced /\ RollsBack /\ UNCHANGED <<programmed, faults>>
       \/ Fault /\ RollsBack /\ UNCHANGED programmed
    /\ UNCHANGED <<driver, enabled, limits, poisonedError, requested, previous,
                   restartRequired, tunes, outside>>

\* Both limits are written back, the second also when the first one fails.
Undo(i) ==
    /\ step = <<"undo1", "undo2">>[i]
    /\ step' = <<"undo2", "check">>[i]
    /\ \/ Writes(i, previous[i]) /\ UNCHANGED errors
       \/ Clamps(i) /\ UNCHANGED errors
       \/ Refuses /\ errors' = errors + 1
    /\ UNCHANGED <<enabled, limits, poisonedError, requested, previous, programmed, restartRequired,
                   tunes, outside>>

LatchLate(n) == n > 2
Latch(n) == n > 1

Report(n) == Latch(n) \/ restartRequired

\* The rollback is read back; what cannot be verified poisons the adapter.
CheckRestored ==
    /\ step = "check" /\ step' = "idle"
    /\ \/ /\ errors' = errors + (IF driver # previous THEN 1 ELSE 0) + (IF enabled THEN 0 ELSE 1)
          /\ UNCHANGED faults
       \/ errors' = errors + 1 /\ Fault
    /\ poisonedError' = Latch(errors') /\ restartRequired' = Report(errors')
    /\ UNCHANGED <<driver, enabled, limits, requested, previous, programmed, tunes, outside>>

\* Another program, or the firmware.
Outside ==
    /\ outside < MaxOutside /\ outside' = outside + 1
    /\ \/ enabled' = ~enabled /\ UNCHANGED driver
       \/ driver' \in Limits /\ UNCHANGED enabled
    /\ UNCHANGED <<limits, poisonedError, step, locals, programmed, restartRequired, tunes, faults>>

Next ==
    \/ TuneStarts \/ TuneInit \/ ReadPrevious \/ VerifyLimits \/ VerifyEnabled \/ CheckRestored \/ Outside
    \/ \E i \in {1, 2} : Write(i) \/ Undo(i)

Spec == Init /\ [][Next]_vars

-----------------------------------------------------------------------------
\* Between two tunes the driver has the limits of the last one that succeeded:
\* one that failed half way left nothing behind, or it poisoned the adapter.
\* Only other programs can change that.
DriverHasProgrammedLimits ==
    step = "idle" /\ outside = 0 /\ ~poisonedError => driver = programmed

\* After a rollback that could not be verified this process never writes the
\* limits again, and the clients are told that it needs a restart.
PoisonIsFinal ==
    [][poisonedError => /\ poisonedError' /\ restartRequired
                        /\ outside' = outside => driver' = driver]_vars
=============================================================================
